---------------------------- MODULE ClerkProofs -----------------------------
(***************************************************************************)
(* Clerks use nodes as the environment of Miner does, so what is proved of *)
(* nodes holds among clerks too; an operation may trust the answer true;   *)
(* threads are well formed on every chain.  For any clerks, keys,          *)
(* operations and bounds.                                                  *)
(***************************************************************************)
EXTENDS Clerk, WalletProofs

\* The state of a clerk: it knows servers of its list, talks to one of them, and
\* has no answer while an operation is under way.
IsClerk(c, ck) ==
    /\ ck = [todo |-> ck.todo, servers |-> ck.servers, pc |-> ck.pc, op |-> ck.op,
             current |-> ck.current, tx |-> ck.tx, answer |-> ck.answer, asked |-> ck.asked]
    /\ ck.todo \in Seq(ToSet(Servers[c]))
    /\ ck.servers \in Seq(ToSet(Servers[c]))
    /\ ck.pc \in {"idle", "query", "call", "wait", "panicked"}
    /\ ck.current \in Nat \ {0}
    /\ ck.pc \in {"query", "call", "wait"} =>
          ck.answer = "none" /\ (ck.servers # <<>> => ck.current <= Len(ck.servers))
    /\ ck.pc \in {"call", "wait"} => ck.servers # <<>>
    /\ ck.pc = "panicked" => ck.answer # "true"
    /\ ck.pc # "idle" => ck.todo = <<>>

ClerksOK ==
    /\ clerk = [c \in Clerk |-> clerk[c]]
    /\ \A c \in Clerk : IsClerk(c, clerk[c])

\* What a step may do to one clerk: the answer true is given by a node.
Turn(c, new) ==
    /\ IsClerk(c, new)
    /\ \/ new.answer # "true"
       \/ /\ new.answer = "true" /\ new.tx = clerk[c].tx
          /\ ToSet(clerk[c].servers) \subseteq ToSet(new.servers)
          /\ \/ clerk[c].answer = "true"
             \/ \E n \in ToSet(clerk[c].servers) \cap Node : \E t \in Sent(c) :
                   handler[n][t] = "true"

\* A server of a clerk is a node.
LEMMA ServersAreNodes ==
    ASSUME NEW c \in Clerk
    PROVE  ToSet(Servers[c]) \subseteq Node /\ ToSet(Servers[c]) \in ClerkPorts
<1>1. Servers[c] \in Seq(Node) /\ ToSet(Servers[c]) \in ClerkPorts
  BY ClerkAssumption
<1> QED
  BY <1>1 DEF ToSet

\* The server a clerk talks to.
LEMMA Current ==
    ASSUME NEW c \in Clerk, NEW ck, IsClerk(c, ck), ck.pc \in {"query", "call", "wait"},
           ck.servers # <<>>
    PROVE  /\ ck.servers[ck.current] \in ToSet(ck.servers)
           /\ ck.servers[ck.current] \in Node
<1>1. ck.servers \in Seq(ToSet(Servers[c])) /\ ck.current \in 1..Len(ck.servers)
  BY DEF IsClerk
<1>2. ck.servers[ck.current] \in ToSet(Servers[c])
  BY <1>1
<1>3. ck.servers[ck.current] \in ToSet(ck.servers)
  BY <1>1 DEF ToSet
<1> QED
  BY <1>2, <1>3, ServersAreNodes

\* A clerk that goes on to another server.
LEMMA NextServerOK ==
    ASSUME NEW c \in Clerk, NEW ck, IsClerk(c, ck), ck.pc \in {"query", "call", "wait"},
           ck.servers # <<>>
    PROVE  /\ IsClerk(c, NextServer(ck)) /\ NextServer(ck).answer # "true"
           /\ IsClerk(c, [NextServer(ck) EXCEPT !.pc = "call"])
           /\ [NextServer(ck) EXCEPT !.pc = "call"].answer # "true"
<1>1. PICK len \in Nat : len = Len(ck.servers) /\ len > 0
  BY DEF IsClerk
<1>2. ck.current \in Nat
  BY DEF IsClerk
<1>3. PICK i : i = (ck.current % len) + 1
  OBVIOUS
<1>4. i \in Nat \ {0} /\ i <= Len(ck.servers)
  BY <1>1, <1>2, <1>3
<1>5. PICK new : new = [ck EXCEPT !.current = i]
  OBVIOUS
<1>6. NextServer(ck) = new
  BY <1>1, <1>3, <1>5 DEF NextServer
<1>7. new = [todo |-> ck.todo, servers |-> ck.servers, pc |-> ck.pc, op |-> ck.op,
             current |-> i, tx |-> ck.tx, answer |-> ck.answer, asked |-> ck.asked]
  BY <1>5 DEF IsClerk
<1>8. [new EXCEPT !.pc = "call"] =
        [todo |-> ck.todo, servers |-> ck.servers, pc |-> "call", op |-> ck.op,
         current |-> i, tx |-> ck.tx, answer |-> ck.answer, asked |-> ck.asked]
  BY <1>7
<1>9. /\ ck.todo = <<>> /\ ck.todo \in Seq(ToSet(Servers[c]))
      /\ ck.servers \in Seq(ToSet(Servers[c]))
      /\ ck.answer = "none"
  BY DEF IsClerk
<1>10. IsClerk(c, new) /\ new.answer # "true"
  BY <1>4, <1>7, <1>9 DEF IsClerk
<1>11. IsClerk(c, [new EXCEPT !.pc = "call"]) /\ [new EXCEPT !.pc = "call"].answer # "true"
  BY <1>4, <1>8, <1>9 DEF IsClerk
<1> QED
  BY <1>6, <1>10, <1>11

\* One clerk takes its turn.
LEMMA OneTurn ==
    ASSUME ClerksOK, NEW c \in Clerk, NEW new, Turn(c, new), clerk' = [clerk EXCEPT ![c] = new]
    PROVE  /\ clerk' = [d \in Clerk |-> clerk'[d]]
           /\ clerk'[c] = new /\ \A d \in Clerk \ {c} : clerk'[d] = clerk[d]
BY DEF ClerksOK

\* MakeClerk adds a server of its list, or none.
LEMMA MakeClerkTurn ==
    ASSUME ClerksOK, NEW c \in Clerk, MakeClerk(c)
    PROVE  \E new : Turn(c, new) /\ clerk' = [clerk EXCEPT ![c] = new]
<1> DEFINE ck == clerk[c]
           S == ToSet(Servers[c])
<1>1. PICK more : more = IF Running(Head(ck.todo)) THEN Append(ck.servers, Head(ck.todo))
                                                  ELSE ck.servers
  OBVIOUS
<1>2. PICK new : new = [ck EXCEPT !.todo = Tail(ck.todo), !.servers = more]
  OBVIOUS
<1>3. IsClerk(c, ck) /\ ck.todo # <<>>
  BY DEF ClerksOK, MakeClerk
<1>4. /\ ck.todo \in Seq(S) /\ ck.servers \in Seq(S) /\ ck.current \in Nat \ {0}
      /\ ck.pc = "idle"
  BY <1>3 DEF IsClerk
<1>5. /\ Tail(ck.todo) \in Seq(S) /\ Head(ck.todo) \in S
      /\ Append(ck.servers, Head(ck.todo)) \in Seq(S)
      /\ \A i \in 1..Len(ck.servers) : Append(ck.servers, Head(ck.todo))[i] = ck.servers[i]
      /\ Len(Append(ck.servers, Head(ck.todo))) = Len(ck.servers) + 1 /\ Len(ck.servers) \in Nat
  <2> HIDE DEF S, ck
  <2>1. ck.todo # <<>>
    BY <1>3
  <2> QED
    BY <1>4, <2>1
<1>6. more \in Seq(S) /\ ToSet(ck.servers) \subseteq ToSet(more)
  BY <1>1, <1>4, <1>5 DEF ToSet
<1>7. new = [todo |-> Tail(ck.todo), servers |-> more, pc |-> ck.pc, op |-> ck.op,
             current |-> ck.current, tx |-> ck.tx, answer |-> ck.answer, asked |-> ck.asked]
  BY <1>2, <1>3 DEF IsClerk
<1>8. clerk' = [clerk EXCEPT ![c] = new]
  BY <1>1, <1>2 DEF MakeClerk, ClerksOK
<1>9. IsClerk(c, new)
  BY <1>4, <1>5, <1>6, <1>7 DEF IsClerk
<1>10. Turn(c, new)
  BY <1>6, <1>7, <1>9 DEF Turn
<1> QED
  BY <1>8, <1>10

ClerkRec(unasked, known, pc, op, current, tx, answer, asked) ==
    [todo |-> unasked, servers |-> known, pc |-> pc, op |-> op,
     current |-> current, tx |-> tx, answer |-> answer, asked |-> asked]

\* What makes a record the state of a clerk in the middle of an operation.
LEMMA BusyClerk ==
    ASSUME NEW c \in Clerk, NEW known \in Seq(ToSet(Servers[c])),
           NEW pc \in {"query", "call", "wait", "panicked"}, NEW op, NEW current \in Nat \ {0},
           NEW tx, NEW asked,
           pc # "panicked" => (known # <<>> => current <= Len(known)),
           pc \in {"call", "wait"} => known # <<>>
    PROVE  LET new == ClerkRec(<<>>, known, pc, op, current, tx, "none", asked)
           IN  IsClerk(c, new) /\ new.answer = "none"
BY DEF ClerkRec, IsClerk

\* The fields of a clerk.
LEMMA Fields ==
    ASSUME NEW c \in Clerk, NEW ck, IsClerk(c, ck)
    PROVE  /\ ck = ClerkRec(ck.todo, ck.servers, ck.pc, ck.op, ck.current, ck.tx, ck.answer,
                            ck.asked)
           /\ ck.servers \in Seq(ToSet(Servers[c])) /\ ck.current \in Nat \ {0}
           /\ ck.servers # <<>> => 1 <= Len(ck.servers)
           /\ ck.pc \in {"query", "call", "wait"} =>
                 /\ ck.todo = <<>> /\ ck.answer = "none"
                 /\ ck.servers # <<>> => ck.current <= Len(ck.servers)
           /\ ck.pc \in {"call", "wait"} => ck.servers # <<>>
BY DEF ClerkRec, IsClerk

\* A clerk without servers panics; one that has sent its transaction waits.
LEMMA PanicsOrWaits ==
    ASSUME NEW c \in Clerk, NEW ck, IsClerk(c, ck), NEW pc,
           \/ ck.pc = "query" /\ pc = "panicked"
           \/ ck.pc = "call" /\ pc = "wait"
    PROVE  LET new == [ck EXCEPT !.pc = pc]
           IN  IsClerk(c, new) /\ new.answer = "none"
<1>1. [ck EXCEPT !.pc = pc]
        = ClerkRec(<<>>, ck.servers, pc, ck.op, ck.current, ck.tx, "none", ck.asked)
  BY Fields DEF ClerkRec
<1> QED
  BY <1>1, Fields, BusyClerk

\* A clerk that ends an operation keeps its transaction and its servers.
LEMMA ReturningOK ==
    ASSUME NEW c \in Clerk, NEW ck, IsClerk(c, ck), NEW success
    PROVE  LET new == Returning(ck, success)
           IN  /\ IsClerk(c, new) /\ new.answer = success
               /\ new.tx = ck.tx /\ new.servers = ck.servers
<1>1. PICK new : new = Returning(ck, success)
  OBVIOUS
<1>2. new = [todo |-> ck.todo, servers |-> ck.servers, pc |-> "idle", op |-> ck.op,
             current |-> ck.current, tx |-> ck.tx, answer |-> success, asked |-> ck.asked]
  BY <1>1 DEF Returning, IsClerk
<1>3. /\ ck.todo \in Seq(ToSet(Servers[c])) /\ ck.servers \in Seq(ToSet(Servers[c]))
      /\ ck.current \in Nat \ {0}
  BY DEF IsClerk
<1>4. IsClerk(c, new)
  BY <1>2, <1>3 DEF IsClerk
<1> QED
  BY <1>1, <1>2, <1>4

\* Invoke forgets the last answer.
LEMMA InvokeTurn ==
    ASSUME ClerksOK, NEW c \in Clerk, NEW op, Invoke(c, op)
    PROVE  \E new : Turn(c, new) /\ clerk' = [clerk EXCEPT ![c] = new]
<1>1. PICK ck : ck = clerk[c] /\ IsClerk(c, ck)
  BY DEF ClerksOK
<1>2. PICK new : new = [ck EXCEPT !.pc = "query", !.op = op, !.current = 1,
                                  !.tx = Nil, !.answer = "none", !.asked = ck.asked + 1]
  OBVIOUS
<1>3. clerk' = [clerk EXCEPT ![c] = new] /\ ck.todo = <<>>
  BY <1>1, <1>2 DEF Invoke
<1>4. new = ClerkRec(<<>>, ck.servers, "query", op, 1, Nil, "none", ck.asked + 1)
  BY <1>1, <1>2, <1>3 DEF IsClerk, ClerkRec
<1>5. ck.servers \in Seq(ToSet(Servers[c])) /\ (ck.servers # <<>> => 1 <= Len(ck.servers))
  BY <1>1, Fields
<1>6. IsClerk(c, new) /\ new.answer = "none"
  BY <1>4, <1>5, BusyClerk
<1> QED
  BY <1>3, <1>6 DEF Turn

\* QueryUtxo answers false or nothing.
LEMMA QueryTurn ==
    ASSUME ClerksOK, NEW c \in Clerk, QueryUtxo(c)
    PROVE  \E new : Turn(c, new) /\ clerk' = [clerk EXCEPT ![c] = new]
<1>1. PICK ck : ck = clerk[c] /\ IsClerk(c, ck)
  BY DEF ClerksOK
<1>2. ck.pc = "query"
  BY <1>1 DEF QueryUtxo
<1>3. \/ ck.servers = <<>> /\ clerk' = [clerk EXCEPT ![c].pc = "panicked"]
      \/ ck.servers # <<>> /\ clerk' = [clerk EXCEPT ![c] = NextServer(ck)]
      \/ clerk' = [clerk EXCEPT ![c] = Returning(ck, "false")]
      \/ /\ ck.servers # <<>>
         /\ \E tx : clerk' = [clerk EXCEPT ![c] =
                                [ck EXCEPT !.pc = "call", !.tx = tx, !.current = 1]]
  BY <1>1 DEF QueryUtxo
<1>4. CASE clerk' = [clerk EXCEPT ![c].pc = "panicked"]
  <2> DEFINE new == [ck EXCEPT !.pc = "panicked"]
  <2>2. IsClerk(c, new) /\ new.answer = "none"
    BY <1>1, <1>2, PanicsOrWaits
  <2>3. clerk' = [clerk EXCEPT ![c] = new]
    BY <1>1, <1>4 DEF ClerksOK
  <2> HIDE DEF new
  <2> QED
    BY <2>2, <2>3 DEF Turn
<1>5. CASE ck.servers # <<>> /\ clerk' = [clerk EXCEPT ![c] = NextServer(ck)]
  <2>1. IsClerk(c, NextServer(ck)) /\ NextServer(ck).answer # "true"
    BY <1>1, <1>2, <1>5, NextServerOK
  <2> QED
    BY <1>5, <2>1 DEF Turn
<1>6. CASE clerk' = [clerk EXCEPT ![c] = Returning(ck, "false")]
  <2>1. IsClerk(c, Returning(ck, "false")) /\ Returning(ck, "false").answer = "false"
    BY <1>1, ReturningOK
  <2> QED
    BY <1>6, <2>1 DEF Turn
<1>7. ASSUME ck.servers # <<>>, NEW tx,
             clerk' = [clerk EXCEPT ![c] = [ck EXCEPT !.pc = "call", !.tx = tx, !.current = 1]]
      PROVE  \E new : Turn(c, new) /\ clerk' = [clerk EXCEPT ![c] = new]
  <2>0. PICK new : new = [ck EXCEPT !.pc = "call", !.tx = tx, !.current = 1]
    OBVIOUS
  <2>1. clerk' = [clerk EXCEPT ![c] = new]
    BY <1>7, <2>0
  <2>2. IsClerk(c, new) /\ new.answer = "none"
    <3>1. ck.todo = <<>> /\ ck.answer = "none"
      BY <1>1, <1>2 DEF IsClerk
    <3>2. new = ClerkRec(<<>>, ck.servers, "call", ck.op, 1, tx, "none", ck.asked)
      BY <1>1, <2>0, <3>1 DEF IsClerk, ClerkRec
    <3>3. ck.servers \in Seq(ToSet(Servers[c])) /\ 1 <= Len(ck.servers)
      BY <1>1, <1>7, Fields
    <3> QED
      BY <1>7, <3>2, <3>3, BusyClerk
  <2> QED
    BY <2>1, <2>2 DEF Turn
<1> QED
  BY <1>3, <1>4, <1>5, <1>6, <1>7

\* Call answers false or nothing, and is a call of Miner if it reaches a node.
LEMMA CallTurn ==
    ASSUME ClerksOK, NEW c \in Clerk, Call(c)
    PROVE  /\ \E new : Turn(c, new) /\ clerk' = [clerk EXCEPT ![c] = new]
           /\ UNCHANGED vars \/ \E n \in Node, t \in User : Submit(n, t)
<1>1. PICK ck : ck = clerk[c] /\ IsClerk(c, ck)
  BY DEF ClerksOK
<1>2. ck.pc = "call" /\ ck.servers # <<>>
  BY <1>1 DEF Call, IsClerk
<1>3. PICK s : s = ck.servers[ck.current] /\ s \in Node
  BY <1>1, <1>2, Current
<1>4. \/ clerk' = [clerk EXCEPT ![c] = NextServer(ck)] /\ UNCHANGED vars
      \/ clerk' = [clerk EXCEPT ![c].pc = "wait"] /\ \E t \in User : Submit(s, t)
      \/ clerk' = [clerk EXCEPT ![c] = Returning(ck, "false")] /\ UNCHANGED vars
  BY <1>1, <1>3 DEF Call
<1>5. CASE clerk' = [clerk EXCEPT ![c] = NextServer(ck)]
  <2>1. IsClerk(c, NextServer(ck)) /\ NextServer(ck).answer # "true"
    BY <1>1, <1>2, NextServerOK
  <2> QED
    BY <1>3, <1>4, <1>5, <2>1 DEF Turn
<1>6. CASE clerk' = [clerk EXCEPT ![c].pc = "wait"]
  <2> DEFINE new == [ck EXCEPT !.pc = "wait"]
  <2>2. IsClerk(c, new) /\ new.answer = "none"
    BY <1>1, <1>2, PanicsOrWaits
  <2>3. clerk' = [clerk EXCEPT ![c] = new]
    BY <1>1, <1>6 DEF ClerksOK
  <2> HIDE DEF new
  <2> QED
    BY <1>3, <1>4, <2>2, <2>3 DEF Turn
<1>7. CASE clerk' = [clerk EXCEPT ![c] = Returning(ck, "false")]
  <2>1. IsClerk(c, Returning(ck, "false")) /\ Returning(ck, "false").answer = "false"
    BY <1>1, ReturningOK
  <2> QED
    BY <1>3, <1>4, <1>7, <2>1 DEF Turn
<1> QED
  BY <1>4, <1>5, <1>6, <1>7

\* Reply passes on what the handler of the node answered.
LEMMA ReplyTurn ==
    ASSUME ClerksOK, NEW c \in Clerk, Reply(c)
    PROVE  \E new : Turn(c, new) /\ clerk' = [clerk EXCEPT ![c] = new]
<1>1. PICK ck : ck = clerk[c] /\ IsClerk(c, ck)
  BY DEF ClerksOK
<1>2. ck.pc = "wait" /\ ck.servers # <<>>
  BY <1>1 DEF Reply, IsClerk
<1>3. PICK s : s = ck.servers[ck.current] /\ s \in Node /\ s \in ToSet(ck.servers)
  BY <1>1, <1>2, Current
<1>4. CASE clerk' = [clerk EXCEPT ![c] = [NextServer(ck) EXCEPT !.pc = "call"]]
  <2>1. PICK new : new = [NextServer(ck) EXCEPT !.pc = "call"]
    OBVIOUS
  <2>2. IsClerk(c, new) /\ new.answer # "true"
    BY <1>1, <1>2, <2>1, NextServerOK
  <2> QED
    BY <1>4, <2>1, <2>2 DEF Turn
<1>5. ASSUME NEW t \in User, Body[t] = ck.tx,
             clerk' = [clerk EXCEPT ![c] = Returning(ck, handler[s][t])]
      PROVE  \E new : Turn(c, new) /\ clerk' = [clerk EXCEPT ![c] = new]
  <2>1. PICK new : new = Returning(ck, handler[s][t])
    OBVIOUS
  <2>2. /\ IsClerk(c, new) /\ new.answer = handler[s][t]
        /\ new.tx = ck.tx /\ new.servers = ck.servers
    BY <1>1, <2>1, ReturningOK
  <2>3. t \in Sent(c)
    BY <1>1, <1>5 DEF Sent
  <2>4. Turn(c, new)
    BY <1>1, <1>3, <2>2, <2>3 DEF Turn
  <2> QED
    BY <1>5, <2>1, <2>4
<1> QED
  BY <1>1, <1>3, <1>4, <1>5 DEF Reply
-----------------------------------------------------------------------------
(* Theorems *)

\* At most one clerk takes a turn; the nodes take a step of Miner or none.
LEMMA ClerkStep ==
    ASSUME ClerksOK, [ClerkNext]_cvars
    PROVE  /\ [Next]_vars
           /\ \/ UNCHANGED clerk
              \/ \E c \in Clerk : \E new : Turn(c, new) /\ clerk' = [clerk EXCEPT ![c] = new]
<1>1. ASSUME NEW c \in Clerk, MakeClerk(c)
      PROVE  UNCHANGED vars /\ \E new : Turn(c, new) /\ clerk' = [clerk EXCEPT ![c] = new]
  BY <1>1, MakeClerkTurn DEF MakeClerk
<1>2. ASSUME NEW c \in Clerk, QueryUtxo(c)
      PROVE  UNCHANGED vars /\ \E new : Turn(c, new) /\ clerk' = [clerk EXCEPT ![c] = new]
  BY <1>2, QueryTurn DEF QueryUtxo
<1>3. ASSUME NEW c \in Clerk, Reply(c)
      PROVE  UNCHANGED vars /\ \E new : Turn(c, new) /\ clerk' = [clerk EXCEPT ![c] = new]
  BY <1>3, ReplyTurn DEF Reply
<1>4. ASSUME NEW c \in Clerk, NEW op, Invoke(c, op)
      PROVE  UNCHANGED vars /\ \E new : Turn(c, new) /\ clerk' = [clerk EXCEPT ![c] = new]
  BY <1>4, InvokeTurn DEF Invoke
<1>5. ASSUME NEW c \in Clerk, Call(c)
      PROVE  [Next]_vars /\ \E new : Turn(c, new) /\ clerk' = [clerk EXCEPT ![c] = new]
  BY <1>5, CallTurn DEF Next, ClerksNext
<1>6. ASSUME NEW c \in Clerk, NEW k \in ToSet(clerk[c].servers), GossipProtocol(c, k)
      PROVE  Next /\ UNCHANGED clerk
  <2>1. clerk[c].servers \in Seq(ToSet(Servers[c]))
    BY DEF ClerksOK, IsClerk
  <2>2. ToSet(clerk[c].servers) \in SUBSET ToSet(Servers[c])
    BY <2>1 DEF ToSet
  <2>3. ClerkGossip(ToSet(clerk[c].servers), k) /\ UNCHANGED clerk
    BY <1>6 DEF GossipProtocol
  <2>4. ToSet(Servers[c]) \in ClerkPorts
    BY ServersAreNodes
  <2> QED
    BY <1>6, <2>2, <2>3, <2>4 DEF Next, ClerksNext
<1>7. CASE NodesNext /\ UNCHANGED clerk
  BY <1>7 DEF Next
<1>8. CASE UNCHANGED cvars
  BY <1>8 DEF cvars
<1> QED
  BY <1>1, <1>2, <1>3, <1>4, <1>5, <1>6, <1>7, <1>8 DEF ClerkNext

\* A clerk begins with the list it was given.
LEMMA ClerksInit == ClerkInit => ClerksOK
<1>1. SUFFICES ASSUME ClerkInit, NEW c \in Clerk
               PROVE  clerk = [d \in Clerk |-> clerk[d]] /\ IsClerk(c, clerk[c])
  BY DEF ClerksOK, ClerkInit
<1>2. clerk[c] = InitClerk(c) /\ clerk = [d \in Clerk |-> clerk[d]]
  BY <1>1 DEF ClerkInit
<1>3. Servers[c] \in Seq(ToSet(Servers[c])) /\ <<>> \in Seq(ToSet(Servers[c]))
  <2>1. Servers[c] \in Seq(Node)
    BY ClerkAssumption
  <2> QED
    BY <2>1 DEF ToSet
<1> QED
  BY <1>2, <1>3 DEF InitClerk, IsClerk

\* Every turn keeps the state of a clerk in shape.
LEMMA ClerksStep == ClerksOK /\ [ClerkNext]_cvars => ClerksOK'
<1>1. SUFFICES ASSUME ClerksOK, [ClerkNext]_cvars
               PROVE  ClerksOK'
  OBVIOUS
<1>2. CASE UNCHANGED clerk
  BY <1>1, <1>2 DEF ClerksOK
<1>3. ASSUME NEW c \in Clerk, NEW new, Turn(c, new), clerk' = [clerk EXCEPT ![c] = new]
      PROVE  ClerksOK'
  <2>1. IsClerk(c, new)
    BY <1>3 DEF Turn
  <2> QED
    BY <1>1, <1>3, <2>1, OneTurn DEF ClerksOK
<1> QED
  BY <1>1, <1>2, <1>3, ClerkStep

\* Nodes and clerks together are a network of nodes as Miner describes it: every
\* theorem about Spec is one about ClerkSpec.
THEOREM ClerksUseNodes == ClerkSpec => Spec
<1>1. ClerkInit => Init /\ ClerksOK
  BY ClerksInit DEF ClerkInit
<1>2. ClerksOK /\ [ClerkNext]_cvars => ClerksOK'
  BY ClerksStep
<1>3. ClerksOK /\ [ClerkNext]_cvars => [Next]_vars
  BY ClerkStep
<1> QED
  BY <1>1, <1>2, <1>3, PTL DEF ClerkSpec, Spec

\* What is on a main chain stays there.
LEMMA OnChainStays ==
    ASSUME Shape, Fresh, [Next]_vars, NEW n \in Node
    PROVE  TxsOf(blocks, node[n].Blockchain) \subseteq TxsOf(blocks', node'[n].Blockchain)
<1>0. PICK chain : chain = node[n].Blockchain
  OBVIOUS
<1>1. chain \in Seq(1..Len(blocks)) /\ Len(blocks) \in Nat
  BY <1>0 DEF Shape, TypeOK, BlocksOK, NodesOK, IsNode
<1>2. \A i \in 1..Len(blocks) : blocks'[i] = blocks[i]
  BY StepMoves DEF Mines, Moves
<1>3. TxsOf(blocks', chain) = TxsOf(blocks, chain)
  BY <1>1, <1>2, TxsOfLater
<1>4. node'[n].Blockchain = chain \/ \E b : node'[n].Blockchain = Append(chain, b)
  BY <1>0, StepMoves DEF Mines, Moves, Idle, Accepts
<1>5. \A b : TxsOf(blocks', Append(chain, b)) = TxsOf(blocks', chain) \cup ToSet(blocks'[b].txs)
  BY <1>1, TxsOfAppend
<1> QED
  BY <1>0, <1>3, <1>4, <1>5

\* No step makes the answer true wrong.
LEMMA TrueStep ==
    ASSUME Shape, Fresh, SuccessOnChain, ClerksOK, TrueMeansOnChain, [ClerkNext]_cvars
    PROVE  TrueMeansOnChain'
<1>0. [Next]_vars
  BY ClerkStep
<1>1. SUFFICES ASSUME NEW c \in Clerk, clerk'[c].answer = "true"
               PROVE  \E n \in ToSet(clerk'[c].servers) :
                         {t \in User : Body[t] = clerk'[c].tx}
                           \cap TxsOf(blocks', node'[n].Blockchain) # {}
  BY DEF TrueMeansOnChain, Sent
<1>2. /\ clerk'[c].tx = clerk[c].tx
      /\ ToSet(clerk[c].servers) \subseteq ToSet(clerk'[c].servers)
      /\ \/ clerk[c].answer = "true"
         \/ \E n \in ToSet(clerk[c].servers) \cap Node : \E t \in Sent(c) : handler[n][t] = "true"
  <2>1. CASE clerk'[c] = clerk[c]
    BY <1>1, <2>1
  <2>2. ASSUME NEW d \in Clerk, NEW new, Turn(d, new), clerk' = [clerk EXCEPT ![d] = new], d = c
        PROVE  /\ clerk'[c].tx = clerk[c].tx
               /\ ToSet(clerk[c].servers) \subseteq ToSet(clerk'[c].servers)
               /\ \/ clerk[c].answer = "true"
                  \/ \E n \in ToSet(clerk[c].servers) \cap Node : \E t \in Sent(c) :
                        handler[n][t] = "true"
    BY <1>1, <2>2, OneTurn DEF Turn
  <2> QED
    BY <2>1, <2>2, ClerkStep, OneTurn
<1>3. \E n \in ToSet(clerk[c].servers) \cap Node :
         Sent(c) \cap TxsOf(blocks, node[n].Blockchain) # {}
  <2>1. ToSet(clerk[c].servers) \subseteq Node
    <3>1. clerk[c].servers \in Seq(ToSet(Servers[c]))
      BY DEF ClerksOK, IsClerk
    <3>2. ToSet(clerk[c].servers) \subseteq ToSet(Servers[c])
      BY <3>1 DEF ToSet
    <3> QED
      BY <3>2, ServersAreNodes
  <2>2. CASE clerk[c].answer = "true"
    BY <2>1, <2>2 DEF TrueMeansOnChain
  <2>3. ASSUME NEW n \in ToSet(clerk[c].servers) \cap Node, NEW t \in Sent(c),
               handler[n][t] = "true"
        PROVE  Sent(c) \cap TxsOf(blocks, node[n].Blockchain) # {}
    BY <2>3 DEF SuccessOnChain, Sent
  <2> QED
    BY <1>2, <2>2, <2>3
<1> QED
  BY <1>0, <1>2, <1>3, OnChainStays DEF Sent

\* An operation may trust the answer true, whatever the nodes, the other clerks and
\* the network do, before and after.
THEOREM TrueIsTrue == ClerkSpec => []TrueMeansOnChain
<1>1. ClerkInit => ClerksOK /\ TrueMeansOnChain
  <2>1. ClerkInit => TrueMeansOnChain
    BY DEF ClerkInit, TrueMeansOnChain, InitClerk
  <2> QED
    BY <2>1, ClerksInit
<1>2. ClerksOK /\ [ClerkNext]_cvars => ClerksOK'
  BY ClerksStep
<1>3. Shape /\ Fresh /\ SuccessOnChain /\ ClerksOK /\ TrueMeansOnChain /\ [ClerkNext]_cvars
        => TrueMeansOnChain'
  BY TrueStep
<1> QED
  BY <1>1, <1>2, <1>3, ClerksUseNodes, FreshInvariant, SuccessIsFinal, PTL DEF ClerkSpec
-----------------------------------------------------------------------------
(* Threads *)

\* What a transaction tx may be when the transactions "before" are on the chain.
Follows(tx, before) ==
    /\ tx.type \in {"COMMENT", "UPVOTE"} =>
          tx.parent \in before /\ Contents(tx.parent).type \in {"POST", "COMMENT"}
    /\ tx.type \in {"POST", "COMMENT"} =>
          [j \in DOMAIN tx.outs |-> tx.outs[j].addr] = <<PKHash(tx.ins[1].key)>>
    /\ tx.type = "UPVOTE" =>
          [j \in DOMAIN tx.outs |-> tx.outs[j].addr] =
             <<Contents(tx.parent).outs[1].addr, PKHash(tx.ins[1].key)>>

WellThreaded(bs, chain) ==
    \A i \in DOMAIN chain : \A t \in ToSet(bs[chain[i]].txs) \cap User :
        Follows(Body[t], TxsOf(bs, SubSeq(chain, 1, i - 1)))

\* A transaction of a valid block follows those of the chain it extends.
LEMMA ValidFollows ==
    ASSUME NEW bs, NEW st, NEW block, validateBlockTxs(bs, st, block),
           NEW t \in ToSet(block.txs) \cap User
    PROVE  Follows(Body[t], TxsOf(bs, st.Blockchain))
<1>1. PICK tx, before : tx = Body[t] /\ before = TxsOf(bs, st.Blockchain)
  OBVIOUS
<1>2. Contents(t) = tx
  BY <1>1, Zenon DEF Contents
<1>3. /\ tx.type # "COINBASE"
      /\ tx.outs \in Seq([value : Nat, addr : {PKHash(k) : k \in Key} \cup {Nil}])
  BY <1>1, BodyAssumption
<1>4. PICK i \in DOMAIN block.txs : block.txs[i] = t
  BY DEF ToSet
<1>5. ValidateStructure(tx) /\ validTx(bs, st, t)
  BY <1>2, <1>3, <1>4 DEF validateBlockTxs
<1>6. tx.type \in {"COMMENT", "UPVOTE"} => validParent(tx, before)
  BY <1>1, <1>2, <1>5 DEF validTx, validateTransaction
<1>7. PICK outs, key : outs = tx.outs /\ key = tx.ins[1].key
  OBVIOUS
<1>8. outs \in Seq([value : Nat, addr : {PKHash(k) : k \in Key} \cup {Nil}])
  BY <1>3, <1>7
<1>9. DOMAIN outs = 1..Len(outs)
  BY <1>8
<1>10. ASSUME tx.type \in {"POST", "COMMENT"}
       PROVE  [j \in DOMAIN outs |-> outs[j].addr] = <<PKHash(key)>>
  <2>1. Len(outs) = 1 /\ outs[1].addr = PKHash(key)
    BY <1>5, <1>7, <1>10 DEF ValidateStructure
  <2>2. DOMAIN outs = 1..1
    BY <1>9, <2>1
  <2> QED
    BY <2>1, <2>2
<1>11. ASSUME tx.type = "UPVOTE"
       PROVE  [j \in DOMAIN outs |-> outs[j].addr] =
                 <<Contents(tx.parent).outs[1].addr, PKHash(key)>>
  <2>1. Len(outs) = 2 /\ outs[2].addr = PKHash(key)
    BY <1>5, <1>7, <1>11 DEF ValidateStructure
  <2>2. outs[1].addr = Contents(tx.parent).outs[1].addr
    BY <1>6, <1>7, <1>11 DEF validParent
  <2>3. DOMAIN outs = 1..2
    BY <1>9, <2>1
  <2> QED
    BY <2>1, <2>2, <2>3
<1> QED
  BY <1>1, <1>6, <1>7, <1>10, <1>11 DEF Follows, validParent

\* A valid block keeps the threads of a chain well formed.
LEMMA ThreadedAppend ==
    ASSUME NEW S, NEW bs, NEW st, NEW new, NEW b, st.Blockchain \in Seq(S),
           WellThreaded(bs, st.Blockchain), Accepts(bs, st, new, b)
    PROVE  WellThreaded(bs, new.Blockchain)
<1>1. PICK chain, more, T : chain = st.Blockchain /\ more = Append(chain, b) /\ T = S \cup {b}
  OBVIOUS
<1>2. chain \in Seq(T) /\ b \in T
  BY <1>1
<1>3. /\ Len(chain) \in Nat /\ DOMAIN chain = 1..Len(chain) /\ DOMAIN more = 1..(Len(chain) + 1)
      /\ more[Len(chain) + 1] = b /\ \A i \in 1..Len(chain) : more[i] = chain[i]
  BY <1>1, <1>2
<1>4. \A i \in 1..Len(chain) : SubSeq(more, 1, i - 1) = SubSeq(chain, 1, i - 1)
  BY <1>1, <1>2, <1>3
<1>5. SubSeq(more, 1, (Len(chain) + 1) - 1) = chain
  <2>1. PICK len : len = Len(chain)
    OBVIOUS
  <2>2. more \in Seq(T) /\ len \in Nat /\ Len(more) = len + 1 /\ (len + 1) - 1 = len
    BY <1>1, <1>2, <2>1
  <2>3. SubSeq(more, 1, len) = [i \in 1..len |-> chain[i]]
    BY <1>3, <2>1, <2>2
  <2> QED
    BY <1>2, <2>1, <2>2, <2>3
<1>6. new.Blockchain = more /\ validateBlockTxs(bs, st, bs[b])
  BY <1>1 DEF Accepts
<1>7. ASSUME NEW i \in DOMAIN more, NEW t \in ToSet(bs[more[i]].txs) \cap User
      PROVE  Follows(Body[t], TxsOf(bs, SubSeq(more, 1, i - 1)))
  <2>1. CASE i = Len(chain) + 1
    <3>1. t \in ToSet(bs[b].txs) \cap User
      BY <1>3, <1>7, <2>1
    <3> QED
      BY <1>1, <1>5, <1>6, <2>1, <3>1, ValidFollows
  <2>2. CASE i \in 1..Len(chain)
    BY <1>1, <1>3, <1>4, <1>7, <2>2 DEF WellThreaded
  <2> QED
    BY <1>3, <2>1, <2>2
<1> QED
  BY <1>6, <1>7 DEF WellThreaded

\* The places of a chain before one of them.
LEMMA FrontOf ==
    ASSUME NEW S, NEW s \in Seq(S), NEW i \in 1..Len(s)
    PROVE  SubSeq(s, 1, i - 1) \in Seq(S)
OBVIOUS

\* Blocks mined later do not change the threads of a chain.
LEMMA ThreadedLater ==
    ASSUME NEW len \in Nat, NEW bs, NEW more, \A i \in 1..len : more[i] = bs[i],
           NEW chain \in Seq(1..len), WellThreaded(bs, chain)
    PROVE  WellThreaded(more, chain)
<1>1. /\ Len(chain) \in Nat /\ DOMAIN chain = 1..Len(chain)
      /\ \A i \in DOMAIN chain : chain[i] \in 1..len
  OBVIOUS
<1>2. ASSUME NEW i \in DOMAIN chain
      PROVE  /\ more[chain[i]] = bs[chain[i]]
             /\ TxsOf(more, SubSeq(chain, 1, i - 1)) = TxsOf(bs, SubSeq(chain, 1, i - 1))
  <2>1. PICK before : before = SubSeq(chain, 1, i - 1) /\ before \in Seq(1..len)
    BY <1>1, FrontOf
  <2>2. TxsOf(more, before) = TxsOf(bs, before)
    BY <2>1, TxsOfLater
  <2> QED
    BY <1>1, <2>1, <2>2
<1> QED
  BY <1>2 DEF WellThreaded

\* No step of the network spoils a thread.
LEMMA ThreadedStep ==
    ASSUME Shape, Fresh, \A n \in Node : WellThreaded(blocks, node[n].Blockchain), [Next]_vars
    PROVE  \A n \in Node : WellThreaded(blocks', node'[n].Blockchain)
<1> SUFFICES ASSUME NEW n \in Node PROVE WellThreaded(blocks', node'[n].Blockchain)
  OBVIOUS
<1>1. Len(blocks) \in Nat /\ node[n].Blockchain \in Seq(1..Len(blocks))
  BY DEF Shape, TypeOK, BlocksOK, NodesOK, IsNode
<1>2. \A i \in 1..Len(blocks) : blocks'[i] = blocks[i]
  BY StepMoves DEF Mines, Moves
<1>3. WellThreaded(blocks', node[n].Blockchain)
  BY <1>1, <1>2, ThreadedLater
<1>4. \/ node'[n].Blockchain = node[n].Blockchain
      \/ \E b : Accepts(blocks', node[n], node'[n], b)
  BY StepMoves DEF Mines, Moves, Idle
<1> QED
  BY <1>1, <1>3, <1>4, ThreadedAppend

\* The genesis block holds no transaction of a user.
LEMMA ThreadedInit == Init => \A n \in Node : WellThreaded(blocks, node[n].Blockchain)
<1> SUFFICES ASSUME Init, NEW n \in Node PROVE WellThreaded(blocks, node[n].Blockchain)
  OBVIOUS
<1>1. blocks[1].txs = <<GenesisTx>> /\ node[n].Blockchain = <<1>>
  BY DEF Init, GenerateGenesisBlock, Block, bootstrap
<1>2. ToSet(<<GenesisTx>>) \cap User = {}
  BY HashAssumption DEF ToSet
<1>3. \A i \in DOMAIN <<1>> : <<1>>[i] = 1
  OBVIOUS
<1> QED
  BY <1>1, <1>2, <1>3 DEF WellThreaded

\* On every main chain comments and upvotes follow what they are about, upvotes
\* pay its author, and posts and comments keep their money: whatever clerks send,
\* the malformed transactions of a BadClerk included.
THEOREM ThreadsFollow == ClerkSpec => []ThreadsWellFormed
<1>1. Init => \A n \in Node : WellThreaded(blocks, node[n].Blockchain)
  BY ThreadedInit
<1>2. Shape /\ Fresh /\ (\A n \in Node : WellThreaded(blocks, node[n].Blockchain)) /\ [Next]_vars
        => (\A n \in Node : WellThreaded(blocks, node[n].Blockchain))'
  BY ThreadedStep
<1>3. (\A n \in Node : WellThreaded(blocks, node[n].Blockchain)) => ThreadsWellFormed
  BY Zenon DEF ThreadsWellFormed, WellThreaded, Follows
<1> QED
  BY <1>1, <1>2, <1>3, ClerksUseNodes, FreshInvariant, PTL DEF Spec
-----------------------------------------------------------------------------
(* Type correctness *)

\* User holds the hash of every transaction a clerk may be about to build, of a
\* wallet that one of its servers has for it.
Hashed ==
    \A c \in {d \in Clerk : clerk[d].pc = "query"} : \A n \in ToSet(clerk[c].servers) :
        \A utxos \in SetToSeqs(GetUnspentTxs(node[n].Utxo, PKHash(ClerkKey[c]))) \ {<<>>} :
            LET tx == Build(ClerkKey[c], clerk[c].op, utxos)
            IN  tx = Nil \/ \E t \in User : Body[t] = tx

\* What a clerk sends and answers.
Asked(c, ck) ==
    /\ ck.answer \in {"none", "true", "false"}
    /\ ck.asked \in 0..MaxOps
    /\ ck.pc \in {"call", "wait"} => \E t \in User : Body[t] = ck.tx

\* A clerk that goes on to the next server, or returns, has what it had.
LEMMA AskedStill ==
    ASSUME NEW c \in Clerk, NEW ck, IsClerk(c, ck), Asked(c, ck)
    PROVE  /\ Asked(c, NextServer(ck))
           /\ Asked(c, [ck EXCEPT !.pc = "panicked"])
           /\ ck.pc = "call" => Asked(c, [ck EXCEPT !.pc = "wait"])
           /\ ck.pc = "wait" => Asked(c, [NextServer(ck) EXCEPT !.pc = "call"])
           /\ \A x \in {"true", "false"} : Asked(c, Returning(ck, x))
<1>1. ck = [todo |-> ck.todo, servers |-> ck.servers, pc |-> ck.pc, op |-> ck.op,
            current |-> ck.current, tx |-> ck.tx, answer |-> ck.answer, asked |-> ck.asked]
  BY DEF IsClerk
<1>2. PICK i : i = (ck.current % Len(ck.servers)) + 1
  OBVIOUS
<1>3. NextServer(ck) = [ck EXCEPT !.current = i]
  BY <1>2 DEF NextServer
<1>4. Asked(c, NextServer(ck)) /\ (ck.pc = "wait" => Asked(c, [NextServer(ck) EXCEPT !.pc = "call"]))
  BY <1>1, <1>3 DEF Asked
<1>5. Asked(c, [ck EXCEPT !.pc = "panicked"]) /\ (ck.pc = "call" => Asked(c, [ck EXCEPT !.pc = "wait"]))
  BY <1>1 DEF Asked
<1>6. ASSUME NEW x \in {"true", "false"} PROVE Asked(c, Returning(ck, x))
  <2>1. Returning(ck, x) = [ck EXCEPT !.pc = "idle", !.answer = x]
    BY DEF Returning
  <2> QED
    BY <1>1, <2>1 DEF Asked
<1> QED
  BY <1>4, <1>5, <1>6

\* A query makes a transaction that has a hash.
LEMMA AskedQuery ==
    ASSUME ClerksOK, Hashed, NEW c \in Clerk, Asked(c, clerk[c]), QueryUtxo(c)
    PROVE  \E new : Asked(c, new) /\ clerk' = [clerk EXCEPT ![c] = new]
<1>1. PICK ck : ck = clerk[c] /\ IsClerk(c, ck) /\ Asked(c, ck)
  BY DEF ClerksOK
<1>2. ck.pc = "query"
  BY <1>1 DEF QueryUtxo
<1>3. CASE ck.servers = <<>>
  <2>1. clerk' = [clerk EXCEPT ![c].pc = "panicked"]
    BY <1>1, <1>3 DEF QueryUtxo
  <2>2. clerk' = [clerk EXCEPT ![c] = [ck EXCEPT !.pc = "panicked"]]
    BY <1>1, <2>1
  <2> QED
    BY <1>1, <2>2, AskedStill
<1>4. CASE ck.servers # <<>>
  <2>1. PICK s : s = ck.servers[ck.current] /\ s \in ToSet(ck.servers)
    BY <1>1, <1>2, <1>4, Current
  <2>2. \/ clerk' = [clerk EXCEPT ![c] = NextServer(ck)]
        \/ clerk' = [clerk EXCEPT ![c] = Returning(ck, "false")]
        \/ \E utxos \in SetToSeqs(GetUnspentTxs(node[s].Utxo, PKHash(ClerkKey[c]))) \ {<<>>} :
              LET tx == Build(ClerkKey[c], ck.op, utxos)
              IN  /\ tx # Nil
                  /\ clerk' = [clerk EXCEPT ![c] = [ck EXCEPT !.pc = "call", !.tx = tx,
                                                              !.current = 1]]
    BY <1>1, <1>4, <2>1 DEF QueryUtxo
  <2>3. ASSUME NEW utxos \in SetToSeqs(GetUnspentTxs(node[s].Utxo, PKHash(ClerkKey[c]))) \ {<<>>},
               NEW tx, tx = Build(ClerkKey[c], ck.op, utxos), tx # Nil
        PROVE  Asked(c, [ck EXCEPT !.pc = "call", !.tx = tx, !.current = 1])
    <3>1. \E t \in User : Body[t] = tx
      BY <1>1, <1>2, <2>1, <2>3 DEF Hashed
    <3>2. ck = [todo |-> ck.todo, servers |-> ck.servers, pc |-> ck.pc, op |-> ck.op,
                current |-> ck.current, tx |-> ck.tx, answer |-> ck.answer, asked |-> ck.asked]
      BY <1>1 DEF IsClerk
    <3> QED
      BY <1>1, <3>1, <3>2 DEF Asked
  <2> QED
    BY <1>1, <2>2, <2>3, AskedStill
<1> QED
  BY <1>3, <1>4

\* Every other turn of a clerk.
LEMMA AskedTurn ==
    ASSUME ClerksOK, NEW c \in Clerk, Asked(c, clerk[c]),
           MakeClerk(c) \/ Call(c) \/ Reply(c) \/ \E op \in Ops[c] : Invoke(c, op)
    PROVE  \E new : Asked(c, new) /\ clerk' = [clerk EXCEPT ![c] = new]
<1>1. PICK ck : ck = clerk[c] /\ IsClerk(c, ck) /\ Asked(c, ck)
  BY DEF ClerksOK
<1>2. ck = [todo |-> ck.todo, servers |-> ck.servers, pc |-> ck.pc, op |-> ck.op,
            current |-> ck.current, tx |-> ck.tx, answer |-> ck.answer, asked |-> ck.asked]
  BY <1>1 DEF IsClerk
<1>3. CASE MakeClerk(c)
  <2>1. PICK more : clerk' = [clerk EXCEPT ![c].todo = Tail(@), ![c].servers = more]
    BY <1>3 DEF MakeClerk
  <2>2. PICK new : new = [ck EXCEPT !.todo = Tail(ck.todo), !.servers = more]
    OBVIOUS
  <2>3. clerk' = [clerk EXCEPT ![c] = new]
    BY <1>1, <2>1, <2>2 DEF ClerksOK
  <2>4. Asked(c, new)
    BY <1>1, <1>2, <2>2 DEF Asked
  <2> QED
    BY <2>3, <2>4
<1>4. CASE Call(c)
  <2>1. \/ clerk' = [clerk EXCEPT ![c] = NextServer(ck)]
        \/ clerk' = [clerk EXCEPT ![c].pc = "wait"]
        \/ clerk' = [clerk EXCEPT ![c] = Returning(ck, "false")]
    BY <1>1, <1>4 DEF Call
  <2>2. [clerk EXCEPT ![c].pc = "wait"] = [clerk EXCEPT ![c] = [ck EXCEPT !.pc = "wait"]]
    BY <1>1
  <2>3. ck.pc = "call"
    BY <1>1, <1>4 DEF Call
  <2> QED
    BY <1>1, <2>1, <2>2, <2>3, AskedStill
<1>5. CASE Reply(c)
  <2>1. \/ clerk' = [clerk EXCEPT ![c] = [NextServer(ck) EXCEPT !.pc = "call"]]
        \/ \E x \in {"true", "false"} : clerk' = [clerk EXCEPT ![c] = Returning(ck, x)]
    BY <1>1, <1>5 DEF Reply
  <2>2. ck.pc = "wait"
    BY <1>1, <1>5 DEF Reply
  <2> QED
    BY <1>1, <2>1, <2>2, AskedStill
<1>6. ASSUME NEW op \in Ops[c], Invoke(c, op)
      PROVE  \E new : Asked(c, new) /\ clerk' = [clerk EXCEPT ![c] = new]
  <2>1. PICK new : new = [ck EXCEPT !.pc = "query", !.op = op, !.current = 1,
                                    !.tx = Nil, !.answer = "none", !.asked = ck.asked + 1]
    OBVIOUS
  <2>2. clerk' = [clerk EXCEPT ![c] = new] /\ ck.asked < MaxOps
    BY <1>1, <1>6, <2>1 DEF Invoke
  <2>3. ck.asked + 1 \in 0..MaxOps
    BY <1>1, <2>2, ClerkAssumption DEF Asked
  <2>4. Asked(c, new)
    BY <1>2, <2>1, <2>3 DEF Asked
  <2> QED
    BY <2>2, <2>4
<1> QED
  BY <1>3, <1>4, <1>5, <1>6

\* No step of clerks or nodes spoils it.
LEMMA AskedStep ==
    ASSUME ClerksOK, Hashed, \A c \in Clerk : Asked(c, clerk[c]), [ClerkNext]_cvars
    PROVE  \A c \in Clerk : Asked(c, clerk'[c])
<1>1. clerk = [c \in Clerk |-> clerk[c]]
  BY DEF ClerksOK
<1>2. ASSUME NEW c \in Clerk, NEW new, Asked(c, new), clerk' = [clerk EXCEPT ![c] = new]
      PROVE  \A d \in Clerk : Asked(d, clerk'[d])
  BY <1>1, <1>2
<1>3. ASSUME NEW c \in Clerk, \/ MakeClerk(c) \/ QueryUtxo(c) \/ Call(c) \/ Reply(c)
                               \/ \E op \in Ops[c] : Invoke(c, op)
      PROVE  \A d \in Clerk : Asked(d, clerk'[d])
  BY <1>2, <1>3, AskedQuery, AskedTurn
<1>4. CASE UNCHANGED clerk
  BY <1>4
<1>5. ASSUME NEW c \in Clerk, NEW k \in ToSet(clerk[c].servers), GossipProtocol(c, k)
      PROVE  UNCHANGED clerk
  BY <1>5 DEF GossipProtocol
<1> QED
  BY <1>3, <1>4, <1>5 DEF ClerkNext, cvars

\* A clerk talks to servers of its list and sends transactions that have a hash, when
\* User is as large as the operations it is asked for need.
THEOREM ClerkTypeCorrect == ClerkSpec /\ []Hashed => []ClerkTypeOK
<1>1. ClerkInit => ClerksOK /\ \A c \in Clerk : Asked(c, clerk[c])
  <2>1. ClerkInit => \A c \in Clerk : Asked(c, clerk[c])
    BY ClerkAssumption DEF ClerkInit, InitClerk, Asked
  <2> QED
    BY <2>1, ClerksInit
<1>2. ClerksOK /\ [ClerkNext]_cvars => ClerksOK'
  BY ClerksStep
<1>3. ClerksOK /\ Hashed /\ (\A c \in Clerk : Asked(c, clerk[c])) /\ [ClerkNext]_cvars
        => (\A c \in Clerk : Asked(c, clerk[c]))'
  BY AskedStep
<1>4. ClerksOK /\ (\A c \in Clerk : Asked(c, clerk[c])) => ClerkTypeOK
  <2> SUFFICES ASSUME ClerksOK, NEW c \in Clerk, Asked(c, clerk[c]), NEW ck, ck = clerk[c]
               PROVE  /\ ck.pc \in {"idle", "query", "call", "wait", "panicked"}
                      /\ ck.answer \in {"none", "true", "false"}
                      /\ ck.asked \in 0..MaxOps
                      /\ ck.servers \in Seq(Node) /\ ToSet(ck.servers) \subseteq ToSet(Servers[c])
                      /\ ck.current \in Nat \ {0}
                      /\ ck.pc \in {"call", "wait"} =>
                            ck.current <= Len(ck.servers) /\ Sent(c) # {}
    BY DEF ClerkTypeOK
  <2>1. IsClerk(c, ck) /\ Asked(c, ck)
    BY DEF ClerksOK
  <2>2. ck.servers \in Seq(ToSet(Servers[c])) /\ ToSet(Servers[c]) \subseteq Node
    BY <2>1, ServersAreNodes DEF IsClerk
  <2>3. ck.servers \in Seq(Node) /\ ToSet(ck.servers) \subseteq ToSet(Servers[c])
    BY <2>2 DEF ToSet
  <2>4. ck.pc \in {"call", "wait"} => ck.current <= Len(ck.servers) /\ Sent(c) # {}
    BY <2>1 DEF IsClerk, Asked, Sent
  <2> QED
    BY <2>1, <2>3, <2>4 DEF IsClerk, Asked
<1> QED
  BY <1>1, <1>2, <1>3, <1>4, PTL DEF ClerkSpec
=============================================================================
