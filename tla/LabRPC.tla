------------------------------- MODULE LabRPC -------------------------------
(***************************************************************************)
(* The simulated network labrpc/labrpc.go.  Each Call() is handled by a    *)
(* goroutine of its own (ProcessReq), which starts another one for the     *)
(* handler, so the state of the network it reads at the start may change   *)
(* before it is done.  Every section under rn.mu is one step.              *)
(*                                                                         *)
(* A pause may last for any time here, so longDelays and longReordering,   *)
(* which only lengthen pauses, have no effect of their own.                *)
(***************************************************************************)
EXTENDS Integers, FiniteSets

CONSTANTS
    Calls,      \* one element for each invocation of Call()
    EndNames,   \* names of client ends
    Names,      \* names of servers
    Servers,    \* server objects; each is given to AddServer once
    Nil

ASSUME CallsAssumption == IsFiniteSet(Calls)
ASSUME NilAssumption == Nil \notin Names \cup Servers \cup EndNames

VARIABLES
    (* struct Network *)
    reliable, ends, enabled, connections, servers,
    (* for each call, the state of Call() and ProcessReq: where it is, the *)
    (* end it uses, what ReadEndnameInfo returned, replyOK and the result  *)
    pc, endname, servername, server, unreliable, replyOK, result,
    (* for each call, the goroutine that runs its handler *)
    handler,
    count,      \* RPCs that each server dispatched
    (* history *)
    added,      \* the server objects that were added so far
    late,       \* calls whose handler returned after its server was gone
    disturbed   \* calls during which the network was not at its best

network == <<reliable, ends, enabled, connections, servers, added>>
call == <<endname, servername, server, unreliable>>
vars == <<network, pc, call, replyOK, result, handler, count, late, disturbed>>

Init ==
    /\ reliable = TRUE
    /\ ends = {}
    /\ enabled = {}
    /\ connections = [e \in EndNames |-> Nil]
    /\ servers = [n \in Names |-> Nil]
    /\ pc = [c \in Calls |-> "idle"]
    /\ endname = [c \in Calls |-> Nil]
    /\ servername = [c \in Calls |-> Nil]
    /\ server = [c \in Calls |-> Nil]
    /\ unreliable = {} /\ replyOK = {}
    /\ result = [c \in Calls |-> "none"]
    /\ handler = [c \in Calls |-> "none"]
    /\ count = [s \in Servers |-> 0]
    /\ added = {} /\ late = {} /\ disturbed = {}
-----------------------------------------------------------------------------
(* What users of the network do. *)

Pending == {c \in Calls : pc[c] \notin {"idle", "done"}}

\* The server that end e leads to.
Target(e) == IF connections[e] = Nil THEN Nil ELSE servers[connections[e]]
Healthy(e) == reliable /\ e \in enabled /\ Target(e) # Nil

\* The history of a step that changes the network.
Disturb ==
    disturbed' = disturbed \cup
        {c \in Pending : ~Healthy(endname[c])' \/ Target(endname[c])' # Target(endname[c])}

Reliable(yes) ==
    /\ reliable' = yes
    /\ UNCHANGED <<ends, enabled, connections, servers, added,
                   pc, call, replyOK, result, handler, count, late>>
    /\ Disturb

\* A second end of the same name is a fatal error.
MakeEnd(e) ==
    /\ e \notin ends
    /\ ends' = ends \cup {e}
    /\ enabled' = enabled \ {e}
    /\ connections' = [connections EXCEPT ![e] = Nil]
    /\ UNCHANGED <<reliable, servers, added, pc, call, replyOK, result, handler, count, late>>
    /\ Disturb

AddServer(n, s) ==
    /\ s \notin added
    /\ added' = added \cup {s}
    /\ servers' = [servers EXCEPT ![n] = s]
    /\ UNCHANGED <<reliable, ends, enabled, connections,
                   pc, call, replyOK, result, handler, count, late>>
    /\ Disturb

DeleteServer(n) ==
    /\ servers' = [servers EXCEPT ![n] = Nil]
    /\ UNCHANGED <<reliable, ends, enabled, connections, added,
                   pc, call, replyOK, result, handler, count, late>>
    /\ Disturb

Connect(e, n) ==
    /\ connections' = [connections EXCEPT ![e] = n]
    /\ UNCHANGED <<reliable, ends, enabled, servers, added,
                   pc, call, replyOK, result, handler, count, late>>
    /\ Disturb

Enable(e, yes) ==
    /\ enabled' = IF yes THEN enabled \cup {e} ELSE enabled \ {e}
    /\ UNCHANGED <<reliable, ends, connections, servers, added,
                   pc, call, replyOK, result, handler, count, late>>
    /\ Disturb

\* Call() up to where it waits for replyCh.
Call(c, e) ==
    /\ pc[c] = "idle" /\ e \in ends
    /\ pc' = [pc EXCEPT ![c] = "sent"]
    /\ endname' = [endname EXCEPT ![c] = e]
    /\ disturbed' = IF Healthy(e) THEN disturbed ELSE disturbed \cup {c}
    /\ UNCHANGED <<network, servername, server, unreliable, replyOK, result, handler, count, late>>
-----------------------------------------------------------------------------
(* ProcessReq *)

IsServerDead(c) == endname[c] \notin enabled \/ servers[servername[c]] # server[c]

\* The pending reply is ok, or the failure replyMsg{false, nil}.
Reply(c, ok) ==
    /\ pc' = [pc EXCEPT ![c] = "reply"]
    /\ result' = [result EXCEPT ![c] = IF ok THEN "true" ELSE "false"]

\* Faulty variant: nobody checks that the server was found.
ReadEndnameInfoOnly(c) ==
    /\ pc[c] = "sent"
    /\ LET e == endname[c] IN
          IF e \in enabled /\ connections[e] # Nil
          THEN /\ pc' = [pc EXCEPT ![c] = "request"]
               /\ servername' = [servername EXCEPT ![c] = connections[e]]
               /\ server' = [server EXCEPT ![c] = Target(e)]
               /\ unreliable' = IF reliable THEN unreliable ELSE unreliable \cup {c}
               /\ UNCHANGED result
          ELSE Reply(c, FALSE) /\ UNCHANGED <<servername, server, unreliable>>
    /\ UNCHANGED <<network, endname, replyOK, handler, count, late, disturbed>>

ReadEndnameInfo(c) ==
    /\ pc[c] = "sent"
    /\ LET e == endname[c] IN
          IF e \in enabled /\ Target(e) # Nil
          THEN /\ pc' = [pc EXCEPT ![c] = "request"]
               /\ servername' = [servername EXCEPT ![c] = connections[e]]
               /\ server' = [server EXCEPT ![c] = Target(e)]
               /\ unreliable' = IF reliable THEN unreliable ELSE unreliable \cup {c}
               /\ UNCHANGED result
          ELSE Reply(c, FALSE) /\ UNCHANGED <<servername, server, unreliable>>
    /\ UNCHANGED <<network, endname, replyOK, handler, count, late, disturbed>>

DropRequest(c) ==
    /\ pc[c] = "request" /\ c \in unreliable
    /\ Reply(c, FALSE)
    /\ UNCHANGED <<network, call, replyOK, handler, count, late, disturbed>>

\* The goroutine that runs the handler starts.
Deliver(c) ==
    /\ pc[c] = "request"
    /\ pc' = [pc EXCEPT ![c] = "wait"]
    /\ handler' = [handler EXCEPT ![c] = "spawned"]
    /\ UNCHANGED <<network, call, replyOK, result, count, late, disturbed>>

\* Faulty variant: the server is looked up again.
dispatchByName(c) ==
    /\ handler[c] = "spawned"
    /\ handler' = [handler EXCEPT ![c] = "running"]
    /\ count' = [s \in Servers |-> count[s] + IF servers[servername[c]] = s THEN 1 ELSE 0]
    /\ UNCHANGED <<network, pc, call, replyOK, result, late, disturbed>>

\* Server.dispatch, up to the call of the method.
dispatch(c) ==
    /\ handler[c] = "spawned"
    /\ handler' = [handler EXCEPT ![c] = "running"]
    /\ count' = [count EXCEPT ![server[c]] = @ + 1]
    /\ UNCHANGED <<network, pc, call, replyOK, result, late, disturbed>>

\* The method returns, if it ever does.
MethodReturns(c) ==
    /\ handler[c] = "running"
    /\ handler' = [handler EXCEPT ![c] = "returned"]
    /\ late' = IF servers[servername[c]] = server[c] THEN late ELSE late \cup {c}
    /\ UNCHANGED <<network, pc, call, replyOK, result, count, disturbed>>

\* The wait for the handler ends with its reply on ech ...
ReceiveReply(c) ==
    /\ pc[c] = "wait" /\ handler[c] = "returned"
    /\ pc' = [pc EXCEPT ![c] = "check"]
    /\ handler' = [handler EXCEPT ![c] = "received"]
    /\ replyOK' = replyOK \cup {c}
    /\ UNCHANGED <<network, call, result, count, late, disturbed>>

\* Faulty variants of the other branch: the first timeout ends the wait; there
\* is no timeout.
TimeoutGivesUp(c) ==
    /\ pc[c] = "wait"
    /\ pc' = [pc EXCEPT ![c] = "check"]
    /\ UNCHANGED <<network, call, replyOK, result, handler, count, late, disturbed>>

TimeoutNever(c) == FALSE /\ UNCHANGED vars

\* ... or when a timeout finds the server gone.
Timeout(c) ==
    /\ pc[c] = "wait" /\ IsServerDead(c)
    /\ pc' = [pc EXCEPT ![c] = "check"]
    /\ UNCHANGED <<network, call, replyOK, result, handler, count, late, disturbed>>

\* Faulty variants: a reply that came is passed on whether or not the server is
\* still there; the flag that says whether one came is forgotten.
CheckNotAgain(c) ==
    /\ pc[c] = "check"
    /\ \E dropped \in IF c \in unreliable THEN BOOLEAN ELSE {FALSE} :
          Reply(c, c \in replyOK /\ ~dropped)
    /\ UNCHANGED <<network, call, replyOK, handler, count, late, disturbed>>

CheckServerOnly(c) ==
    /\ pc[c] = "check"
    /\ \E dropped \in IF c \in unreliable THEN BOOLEAN ELSE {FALSE} :
          Reply(c, ~IsServerDead(c) /\ ~dropped)
    /\ UNCHANGED <<network, call, replyOK, handler, count, late, disturbed>>

\* The server is looked up once more; an unreliable network may drop the reply.
Check(c) ==
    /\ pc[c] = "check"
    /\ \E dropped \in IF c \in unreliable THEN BOOLEAN ELSE {FALSE} :
          Reply(c, c \in replyOK /\ ~IsServerDead(c) /\ ~dropped)
    /\ UNCHANGED <<network, call, replyOK, handler, count, late, disturbed>>

\* Call() receives from replyCh and returns.
Return(c) ==
    /\ pc[c] = "reply"
    /\ pc' = [pc EXCEPT ![c] = "done"]
    /\ UNCHANGED <<network, call, replyOK, result, handler, count, late, disturbed>>
-----------------------------------------------------------------------------
ProcessReq(c) ==
    \/ ReadEndnameInfo(c) \/ DropRequest(c) \/ Deliver(c) \/ dispatch(c)
    \/ ReceiveReply(c) \/ Timeout(c) \/ Check(c) \/ Return(c)

Next ==
    \/ \E yes \in BOOLEAN : Reliable(yes)
    \/ \E e \in EndNames : \/ MakeEnd(e)
                           \/ \E n \in Names : Connect(e, n)
                           \/ \E yes \in BOOLEAN : Enable(e, yes)
                           \/ \E c \in Calls : Call(c, e)
    \/ \E n \in Names : DeleteServer(n) \/ \E s \in Servers : AddServer(n, s)
    \/ \E c \in Calls : ProcessReq(c) \/ MethodReturns(c)

Spec == Init /\ [][Next]_vars

\* Goroutines are scheduled and timers fire; nothing is assumed about handlers.
FairSpec == Spec /\ \A c \in Calls : WF_vars(ProcessReq(c))
-----------------------------------------------------------------------------
(* Properties *)

\* Where a call is agrees with what is known of its end, its server and its
\* handler.
TypeOK ==
    /\ reliable \in BOOLEAN /\ ends \subseteq EndNames /\ enabled \subseteq EndNames
    /\ added \subseteq Servers
    /\ connections \in [EndNames -> Names \cup {Nil}]
    /\ servers \in [Names -> added \cup {Nil}]
    /\ pc \in [Calls -> {"idle", "sent", "request", "wait", "check", "reply", "done"}]
    /\ endname \in [Calls -> EndNames \cup {Nil}]
    /\ servername \in [Calls -> Names \cup {Nil}]
    /\ server \in [Calls -> added \cup {Nil}]
    /\ unreliable \subseteq Calls /\ replyOK \subseteq Calls
    /\ result \in [Calls -> {"none", "true", "false"}]
    /\ handler \in [Calls -> {"none", "spawned", "running", "returned", "received"}]
    /\ \A c \in Calls :
          /\ pc[c] # "idle" => endname[c] \in EndNames
          /\ pc[c] \in {"request", "wait", "check"} => server[c] # Nil /\ servername[c] # Nil
          /\ handler[c] # "none" => server[c] # Nil /\ servername[c] # Nil
          /\ pc[c] \in {"reply", "done"} => result[c] # "none"

\* A server has counted each call it began to handle, and each of them once, also
\* when it was replaced before it got to it (GetCount).
Begun(s) == {c \in Calls :
                server[c] = s /\ handler[c] \in {"running", "returned", "received"}}
CountExact == \A s \in Servers : count[s] = Cardinality(Begun(s))

\* A call that returns true was handled to its end by a server that had not been
\* deleted or replaced by then: the update is not in "the old Persister".
NoLateReply == \A c \in Calls : result[c] = "true" => c \notin late

\* A call fails only if, at some time while it was under way, the network was
\* unreliable, its end was disabled, or its server was missing or replaced: the
\* flags ProcessReq reads early and the checks it makes late agree on that.
FailsOnlyIfDisturbed == \A c \in Calls : result[c] = "false" => c \in disturbed

\* "Call() is guaranteed to return (perhaps after a delay) except if the handler
\* function on the server side does not return", and then it returns once the
\* server is deleted or the end is disabled for good.
CallReturns ==
    \A c \in Calls :
        pc[c] = "sent" ~> (pc[c] = "done" \/ []<>(handler[c] = "running" /\ ~IsServerDead(c)))

\* What RPC sees: how far each call is, and whose handler has returned.
Status == [c \in Calls |-> IF pc[c] = "idle" THEN "idle"
                           ELSE IF pc[c] = "done" THEN result[c] ELSE "pending"]
Executed == {c \in Calls : handler[c] \in {"returned", "received"}}
rpc == INSTANCE RPC WITH status <- Status, executed <- Executed

\* Calls through this network are executed at most once, and return true only
\* if they were, whatever happens to the network and its servers meanwhile.
AtMostOnce == rpc!Spec
=============================================================================
