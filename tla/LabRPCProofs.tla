---------------------------- MODULE LabRPCProofs ----------------------------
(***************************************************************************)
(* Proofs about LabRPC, for any calls, ends, names and servers.            *)
(***************************************************************************)
EXTENDS LabRPC, FiniteSetTheorems, TLAPS

Active == {"sent", "request", "wait", "check"}

\* No server is registered under two names.
OneName == \A m, n \in Names : servers[m] = servers[n] /\ servers[m] # Nil => m = n

\* A handler runs only for a call that was delivered, and a result is set only
\* when the call is answered; a true one has a handler that returned.
Progress(c) ==
    /\ pc[c] \in {"idle", "sent", "request"} => handler[c] = "none"
    /\ pc[c] \in {"idle", "sent"} => c \notin unreliable
    /\ pc[c] \in {"idle"} \cup Active => result[c] = "none"
    /\ c \in replyOK => handler[c] = "received"
    /\ result[c] = "true" => handler[c] = "received"

\* A server that was gone when a handler returned never comes back.
LateStaysDead(c) ==
    c \in late => /\ handler[c] \in {"returned", "received"}
                  /\ servers[servername[c]] # server[c]

\* The network has been healthy throughout a call that was not disturbed, so
\* what ProcessReq read at its start is still true.
Calm(c) ==
    c \notin disturbed =>
        /\ pc[c] \in Active => Healthy(endname[c])
        /\ pc[c] \in {"request", "wait", "check"} =>
              /\ servername[c] = connections[endname[c]]
              /\ server[c] = Target(endname[c])
              /\ c \notin unreliable
        /\ pc[c] = "check" => c \in replyOK

IInv ==
    /\ TypeOK /\ OneName
    /\ \A c \in Calls : Progress(c) /\ LateStaysDead(c) /\ Calm(c)
    /\ NoLateReply /\ FailsOnlyIfDisturbed
-----------------------------------------------------------------------------
(* The steps of the users of the network. *)

NetworkStep ==
    \/ \E yes \in BOOLEAN : Reliable(yes)
    \/ \E e \in EndNames : MakeEnd(e)
    \/ \E e \in EndNames, n \in Names : Connect(e, n)
    \/ \E e \in EndNames, yes \in BOOLEAN : Enable(e, yes)
    \/ \E n \in Names : DeleteServer(n)
    \/ \E n \in Names, s \in Servers : AddServer(n, s)

\* They keep the network well formed, record whom they disturb, and bring no
\* server back.
NetworkEffect ==
    /\ reliable' \in BOOLEAN /\ ends' \subseteq EndNames /\ enabled' \subseteq EndNames
    /\ added' \subseteq Servers /\ added \subseteq added'
    /\ connections' \in [EndNames -> Names \cup {Nil}]
    /\ servers' \in [Names -> added' \cup {Nil}]
    /\ \A n \in Names : servers'[n] \in added => servers'[n] = servers[n]
    /\ OneName'
    /\ Disturb
    /\ UNCHANGED <<pc, call, replyOK, result, handler, count, late>>

\* Configuring the network keeps it well formed and brings no server back.
LEMMA NetworkKeeps ==
    ASSUME IInv, NetworkStep
    PROVE  NetworkEffect
<1> USE NilAssumption DEF IInv, TypeOK, NetworkEffect, OneName
<1>1. ASSUME NEW yes \in BOOLEAN, Reliable(yes) PROVE NetworkEffect
  BY <1>1 DEF Reliable
<1>2. ASSUME NEW e \in EndNames, MakeEnd(e) PROVE NetworkEffect
  BY <1>2 DEF MakeEnd
<1>3. ASSUME NEW e \in EndNames, NEW n \in Names, Connect(e, n) PROVE NetworkEffect
  BY <1>3 DEF Connect
<1>4. ASSUME NEW e \in EndNames, NEW yes \in BOOLEAN, Enable(e, yes) PROVE NetworkEffect
  BY <1>4 DEF Enable
<1>5. ASSUME NEW n \in Names, DeleteServer(n) PROVE NetworkEffect
  BY <1>5 DEF DeleteServer
<1>6. ASSUME NEW n \in Names, NEW s \in Servers, AddServer(n, s) PROVE NetworkEffect
  BY <1>6 DEF AddServer
<1> QED
  BY <1>1, <1>2, <1>3, <1>4, <1>5, <1>6 DEF NetworkStep

\* The calls that configure the network keep the invariant.
LEMMA NetworkInv ==
    ASSUME IInv, NetworkEffect
    PROVE  IInv'
<1>1. UNCHANGED <<pc, endname, servername, server, unreliable, replyOK, result, handler, late>>
  BY DEF NetworkEffect, call
<1>2. TypeOK'
  BY <1>1 DEF NetworkEffect, IInv, TypeOK
<1>3. ASSUME NEW c \in Calls PROVE Progress(c)'
  BY <1>1 DEF IInv, Progress, Active
<1>4. ASSUME NEW c \in Calls PROVE LateStaysDead(c)'
  BY <1>1, NilAssumption DEF IInv, TypeOK, LateStaysDead, NetworkEffect
<1>5. ASSUME NEW c \in Calls PROVE Calm(c)'
  <2> SUFFICES ASSUME c \notin disturbed', pc[c] \in Active
               PROVE  Calm(c)'
    BY <1>1 DEF Calm, Active
  <2>1. c \notin disturbed /\ c \in Pending
    BY DEF NetworkEffect, Disturb, Active, Pending
  <2>2. Healthy(endname[c])' /\ Target(endname[c])' = Target(endname[c])
    BY <2>1 DEF NetworkEffect, Disturb
  <2>3. ASSUME pc[c] \in {"request", "wait", "check"}
        PROVE  servername[c] = connections'[endname[c]]
    <3>1. endname[c] \in EndNames /\ servername[c] \in Names /\ server[c] \in added
      BY <2>3 DEF IInv, TypeOK
    <3>2. servers[servername[c]] = server[c] /\ server[c] = Target(endname[c])
      BY <2>1, <2>3, <3>1, NilAssumption DEF IInv, Calm, Target, TypeOK
    <3>3. connections'[endname[c]] \in Names /\ servers'[connections'[endname[c]]] = server[c]
      BY <1>1, <2>2, <3>1, <3>2, NilAssumption DEF Healthy, Target, NetworkEffect
    <3>4. servers[connections'[endname[c]]] = server[c]
      BY <3>1, <3>3 DEF NetworkEffect
    <3> QED
      BY <3>1, <3>2, <3>3, <3>4, NilAssumption DEF IInv, OneName, TypeOK
  <2> QED
    BY <1>1, <2>1, <2>2, <2>3 DEF IInv, Calm, Active
<1>6. NoLateReply' /\ FailsOnlyIfDisturbed'
  BY <1>1 DEF IInv, NoLateReply, FailsOnlyIfDisturbed, NetworkEffect, Disturb
<1> QED
  BY <1>2, <1>3, <1>4, <1>5, <1>6 DEF IInv, NetworkEffect
-----------------------------------------------------------------------------
(* The steps of a call, which leave the network alone. *)

CallStep(c) == (\E e \in EndNames : Call(c, e)) \/ ProcessReq(c) \/ MethodReturns(c)

\* The steps of a call keep the invariant.
LEMMA CallInv ==
    ASSUME IInv, NEW c \in Calls, CallStep(c)
    PROVE  IInv'
<1> USE NilAssumption
    DEF IInv, TypeOK, OneName, Progress, LateStaysDead, Calm, NoLateReply,
        FailsOnlyIfDisturbed, Active, Healthy, Target, network, call
<1>1. ASSUME NEW e \in EndNames, Call(c, e) PROVE IInv'
  BY <1>1 DEF Call
<1>2. ASSUME ReadEndnameInfo(c) PROVE IInv'
  BY <1>2 DEF ReadEndnameInfo, Reply
<1>3. ASSUME DropRequest(c) PROVE IInv'
  BY <1>3 DEF DropRequest, Reply
<1>4. ASSUME Deliver(c) PROVE IInv'
  BY <1>4 DEF Deliver
<1>5. ASSUME dispatch(c) PROVE IInv'
  BY <1>5 DEF dispatch
<1>6. ASSUME MethodReturns(c) PROVE IInv'
  BY <1>6 DEF MethodReturns
<1>7. ASSUME ReceiveReply(c) PROVE IInv'
  BY <1>7 DEF ReceiveReply
<1>8. ASSUME Timeout(c) PROVE IInv'
  BY <1>8 DEF Timeout, IsServerDead
<1>9. ASSUME Check(c) PROVE IInv'
  <2>1. PICK dropped \in BOOLEAN :
           /\ Reply(c, c \in replyOK /\ ~IsServerDead(c) /\ ~dropped)
           /\ c \notin unreliable => dropped = FALSE
    BY <1>9, Zenon DEF Check
  <2> DEFINE ok == c \in replyOK /\ ~IsServerDead(c) /\ ~dropped
             v == IF ok THEN "true" ELSE "false"
  <2>2. /\ v = "true" => c \in replyOK /\ c \notin late
        /\ v = "false" => c \in disturbed
        /\ v \in {"true", "false"}
    BY <1>9, <2>1 DEF IsServerDead, Check
  <2>3. /\ pc[c] = "check" /\ pc' = [pc EXCEPT ![c] = "reply"]
        /\ result' = [result EXCEPT ![c] = v]
        /\ UNCHANGED <<network, call, replyOK, handler, count, late, disturbed>>
    BY <1>9, <2>1, Zenon DEF Check, Reply
  <2> HIDE DEF v
  <2> QED
    BY <2>2, <2>3
<1>10. ASSUME Return(c) PROVE IInv'
  BY <1>10 DEF Return
<1> QED
  BY <1>1, <1>2, <1>3, <1>4, <1>5, <1>6, <1>7, <1>8, <1>9, <1>10 DEF CallStep, ProcessReq
-----------------------------------------------------------------------------
\* The invariant holds at first.
LEMMA InitInv == Init => IInv
  BY NilAssumption DEF Init, IInv, TypeOK, OneName, Progress, LateStaysDead, Calm, NoLateReply,
     FailsOnlyIfDisturbed, Active

\* A step is one of a user of the network or one of a call.
LEMMA NextSplits ==
    Next <=> NetworkStep \/ \E c \in Calls : CallStep(c)
  BY DEF Next, NetworkStep, CallStep

\* Every step keeps the invariant.
LEMMA NextInv == IInv /\ [Next]_vars => IInv'
<1> SUFFICES ASSUME IInv, [Next]_vars PROVE IInv'
  OBVIOUS
<1>1. CASE UNCHANGED vars
  BY <1>1 DEF vars, network, call, IInv, TypeOK, OneName, Progress, LateStaysDead, Calm,
     NoLateReply, FailsOnlyIfDisturbed, Active, Healthy, Target
<1>2. CASE Next
  BY <1>2, NextSplits, NetworkKeeps, NetworkInv, CallInv
<1> QED
  BY <1>1, <1>2

\* The invariant holds throughout, for any servers, names and calls.
THEOREM Invariance == Spec => []IInv
  BY InitInv, NextInv, PTL DEF Spec

\* The state of every call agrees with what is known of its end, server and
\* handler.
THEOREM TypeCorrect == Spec => []TypeOK
<1>1. IInv => TypeOK
  BY DEF IInv
<1> QED
  BY Invariance, <1>1, PTL

\* A call that returned true was handled to its end by a server that was still
\* there (ProcessReq's second look at the server).
THEOREM NeverLate == Spec => []NoLateReply
<1>1. IInv => NoLateReply
  BY DEF IInv
<1> QED
  BY Invariance, <1>1, PTL

\* A call fails only if its network was disturbed while it was under way.
THEOREM FailuresExplained == Spec => []FailsOnlyIfDisturbed
<1>1. IInv => FailsOnlyIfDisturbed
  BY DEF IInv
<1> QED
  BY Invariance, <1>1, PTL
-----------------------------------------------------------------------------
(* Every step is a step of RPC, or none. *)

\* Configuring the network is no step of RPC.
LEMMA NetworkRefines ==
    ASSUME IInv, NetworkEffect
    PROVE  UNCHANGED <<Status, Executed>>
  BY DEF NetworkEffect, Status, Executed

\* Each step of a call is a step of RPC or none.
LEMMA CallRefines ==
    ASSUME IInv, NEW c \in Calls, CallStep(c)
    PROVE  rpc!Next \/ UNCHANGED <<Status, Executed>>
<1> USE DEF IInv, TypeOK, Progress, Active
<1>1. ASSUME NEW e \in EndNames, Call(c, e) PROVE rpc!Invoke(c)
  BY <1>1 DEF Call, rpc!Invoke, Status, Executed
<1>2. ASSUME MethodReturns(c) PROVE rpc!Execute(c)
  BY <1>2 DEF MethodReturns, rpc!Execute, Status, Executed
<1>3. ASSUME Return(c), result[c] = "true" PROVE rpc!ReturnTrue(c)
  BY <1>3 DEF Return, rpc!ReturnTrue, Status, Executed
<1>4. ASSUME Return(c), result[c] = "false" PROVE rpc!ReturnFalse(c)
  BY <1>4 DEF Return, rpc!ReturnFalse, Status, Executed
<1>5. ASSUME Return(c) PROVE result[c] \in {"true", "false"}
  BY <1>5 DEF Return
<1>6. ASSUME \/ ReadEndnameInfo(c) \/ DropRequest(c) \/ Deliver(c) \/ dispatch(c)
             \/ ReceiveReply(c) \/ Timeout(c) \/ Check(c)
      PROVE  UNCHANGED <<Status, Executed>>
  <2>1. /\ (pc[c] \in Active /\ pc'[c] \in Active \cup {"reply"}) \/ UNCHANGED pc
        /\ \A d \in Calls : d # c => pc'[d] = pc[d] /\ result'[d] = result[d]
        /\ pc'[c] = pc[c] => result'[c] = result[c]
        /\ \A d \in Calls : handler'[d] \in {"returned", "received"}
                              <=> handler[d] \in {"returned", "received"}
    <3>1. CASE ReadEndnameInfo(c) \/ DropRequest(c) \/ Deliver(c)
      BY <3>1 DEF ReadEndnameInfo, DropRequest, Deliver, Reply
    <3>2. CASE dispatch(c) \/ ReceiveReply(c)
      BY <3>2 DEF dispatch, ReceiveReply
    <3>3. CASE Timeout(c) \/ Check(c)
      BY <3>3 DEF Timeout, Check, Reply
    <3> QED
      BY <1>6, <3>1, <3>2, <3>3
  <2> QED
    BY <2>1 DEF Status, Executed
<1> QED
  BY <1>1, <1>2, <1>3, <1>4, <1>5, <1>6 DEF CallStep, ProcessReq, rpc!Next

\* The simulated network implements at-most-once calls.
THEOREM Refinement == Spec => AtMostOnce
<1>1. Init => rpc!Init
  BY DEF Init, rpc!Init, Status, Executed
<1>2. IInv /\ [Next]_vars => [rpc!Next]_<<Status, Executed>>
  <2> SUFFICES ASSUME IInv, [Next]_vars PROVE [rpc!Next]_<<Status, Executed>>
    OBVIOUS
  <2>1. CASE UNCHANGED vars
    BY <2>1 DEF vars, Status, Executed
  <2>2. CASE Next
    BY <2>2, NextSplits, NetworkKeeps, NetworkRefines, CallRefines
  <2> QED
    BY <2>1, <2>2
<1> QED
  BY Invariance, <1>1, <1>2, PTL DEF Spec, AtMostOnce, rpc!Spec, rpc!vars
-----------------------------------------------------------------------------
(* The servers' counters. *)

Counted == count \in [Servers -> Nat] /\ CountExact

\* The count of a server goes up with each dispatch and otherwise stays.
LEMMA CountKept ==
    ASSUME IInv, Counted, [Next]_vars
    PROVE  Counted'
<1> USE DEF IInv, TypeOK, Progress, Active
<1>1. ASSUME UNCHANGED <<server, handler, count>> PROVE Counted'
  BY <1>1 DEF Counted, CountExact, Begun
<1>2. ASSUME NEW c \in Calls, dispatch(c) PROVE Counted'
  <2>0. PICK s \in Servers : s = server[c]
    BY <1>2, NilAssumption DEF dispatch
  <2>1. c \notin Begun(s)
    BY <1>2 DEF dispatch, Begun
  <2>2. /\ Begun(s)' = Begun(s) \cup {c}
        /\ \A r \in Servers : r # s => Begun(r)' = Begun(r)
    BY <1>2, <2>0 DEF dispatch, Begun, call
  <2>3. IsFiniteSet(Begun(s))
    BY CallsAssumption, FS_Subset DEF Begun
  <2>4. Cardinality(Begun(s)') = Cardinality(Begun(s)) + 1 /\ Cardinality(Begun(s)) \in Nat
    BY <2>1, <2>2, <2>3, FS_AddElement, FS_CardinalityType
  <2>5. count' = [count EXCEPT ![s] = count[s] + 1]
    BY <1>2, <2>0 DEF dispatch
  <2>6. count' \in [Servers -> Nat]
    BY <2>5 DEF Counted
  <2>7. ASSUME NEW r \in Servers PROVE (count[r] = Cardinality(Begun(r)))'
    <3>1. CASE r = s
      BY <3>1, <2>4, <2>5 DEF Counted, CountExact
    <3>2. CASE r # s
      BY <3>2, <2>2, <2>5 DEF Counted, CountExact
    <3> QED
      BY <3>1, <3>2
  <2> QED
    BY <2>6, <2>7 DEF Counted, CountExact
<1>3. ASSUME NEW c \in Calls, CallStep(c), ~dispatch(c)
      PROVE  Counted'
  <2> DEFINE Same == UNCHANGED count /\ \A r \in Servers : Begun(r)' = Begun(r)
  <2> USE DEF Begun, call
  <2>1. ASSUME NEW e \in EndNames, Call(c, e) PROVE Same
    BY <2>1 DEF Call
  <2>2. ASSUME ReadEndnameInfo(c) PROVE Same
    BY <2>2 DEF ReadEndnameInfo, Reply
  <2>3. ASSUME DropRequest(c) PROVE Same
    BY <2>3 DEF DropRequest, Reply
  <2>4. ASSUME Deliver(c) PROVE Same
    BY <2>4 DEF Deliver
  <2>5. ASSUME MethodReturns(c) PROVE Same
    BY <2>5 DEF MethodReturns
  <2>6. ASSUME ReceiveReply(c) PROVE Same
    BY <2>6 DEF ReceiveReply
  <2>7. ASSUME Timeout(c) PROVE Same
    BY <2>7 DEF Timeout
  <2>8. ASSUME Check(c) PROVE Same
    BY <2>8 DEF Check, Reply
  <2>9. ASSUME Return(c) PROVE Same
    BY <2>9 DEF Return
  <2>10. Same
    BY <1>3, <2>1, <2>2, <2>3, <2>4, <2>5, <2>6, <2>7, <2>8, <2>9 DEF CallStep, ProcessReq
  <2> QED
    BY <2>10 DEF Counted, CountExact
<1> QED
  BY <1>1, <1>2, <1>3, NextSplits, NetworkKeeps DEF NetworkEffect, vars, call

\* A server's count is the number of calls it began to handle.
THEOREM CountsExactly == Spec => []CountExact
<1>1. Init => Counted
  <2>1. ASSUME Init PROVE \A s \in Servers : Begun(s) = {}
    BY <2>1 DEF Init, Begun
  <2> QED
    BY <2>1, FS_EmptySet DEF Init, Counted, CountExact
<1>2. Counted => CountExact
  BY DEF Counted
<1> QED
  BY Invariance, CountKept, <1>1, <1>2, PTL DEF Spec
=============================================================================
