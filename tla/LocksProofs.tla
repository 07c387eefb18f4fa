---------------------------- MODULE LocksProofs -----------------------------
(***************************************************************************)
(* The locks of a node, for any number of handlers and any bound.          *)
(*                                                                         *)
(* LocksOK is inductive: each row of LockAt and UnlockAt changes the locks *)
(* of a label by the row's lock, and the other steps keep them.  NoRace    *)
(* and HoldersAdvance follow from it.  TipStillNew and WalletUpToDate need *)
(* to know in addition what a thread that holds mu keeps unchanged (TipOK, *)
(* WalletOK).                                                              *)
(***************************************************************************)
EXTENDS MinerLocks, TLAPS

\* Each row of LockAt adds its lock to the locks of the label.
LEMMA LockRows ==
    \A s \in LockAt : /\ s[1] \in Label /\ s[2] \in Lock /\ s[3] \in Label
                      /\ s[2] \notin Held(s[1])
                      /\ Held(s[3]) = Held(s[1]) \cup {s[2]}
<1>1. SUFFICES ASSUME NEW s \in LockAt
               PROVE  /\ s[1] \in Label /\ s[2] \in Lock /\ s[3] \in Label
                      /\ s[2] \notin Held(s[1])
                      /\ Held(s[3]) = Held(s[1]) \cup {s[2]}
  OBVIOUS
<1>2. CASE s \in {<<"mine", "mu", "select">>, <<"SendBlock", "mu", "lockChain">>,
                  <<"AppendTx", "mu", "register">>, <<"lockPoll", "mu", "poll">>,
                  <<"GetBlockchain", "mu", "lockView">>}
  BY <1>2 DEF Held, Label, Lock
<1>3. CASE s \in {<<"lockTip", "bcmu", "tip">>, <<"relock", "bcmu", "append">>,
                  <<"lockChain", "bcmu", "receive">>, <<"GetBlockLog", "bcmu", "readLog">>,
                  <<"lockView", "bcmu", "readChain">>}
  BY <1>3 DEF Held, Label, Lock
<1>4. CASE s \in {<<"lockUtxo", "utxoMu", "apply">>, <<"GetUtxo", "utxoMu", "readUtxo">>,
                  <<"lockPeers", "peermu", "flood">>, <<"Gossip", "peermu", "merge">>}
  BY <1>4 DEF Held, Label, Lock
<1> QED
  BY <1>2, <1>3, <1>4 DEF LockAt, LockTable

\* Each row of UnlockAt takes its lock from the locks of the label.
LEMMA UnlockRows ==
    \A s \in UnlockAt : /\ s[1] \in Label /\ s[2] \in Lock /\ s[3] \in Label
                        /\ s[2] \in Held(s[1])
                        /\ Held(s[3]) = Held(s[1]) \ {s[2]}
<1>1. SUFFICES ASSUME NEW s \in UnlockAt
               PROVE  /\ s[1] \in Label /\ s[2] \in Lock /\ s[3] \in Label
                      /\ s[2] \in Held(s[1])
                      /\ Held(s[3]) = Held(s[1]) \ {s[2]}
  OBVIOUS
<1>2. CASE s \in {<<"unlock", "mu", "return">>, <<"registered", "mu", "lockPeers">>,
                  <<"polled", "mu", "lockPoll">>, <<"unlockView", "mu", "GetUtxo">>}
  BY <1>2 DEF Held, Label, Lock
<1>3. CASE s \in {<<"unlockTip", "bcmu", "work">>, <<"unlockChain", "bcmu", "unlock">>,
                  <<"logRead", "bcmu", "return">>, <<"viewed", "bcmu", "unlockView">>}
  BY <1>3 DEF Held, Label, Lock
<1>4. CASE s \in {<<"unlockUtxo", "utxoMu", "unlockChain">>, <<"walletRead", "utxoMu", "return">>,
                  <<"flooded", "peermu", "lockPoll">>, <<"merged", "peermu", "return">>}
  BY <1>4 DEF Held, Label, Lock
<1> QED
  BY <1>2, <1>3, <1>4 DEF UnlockAt, UnlockTable

\* The steps that neither take nor release a lock.
Local(t, from, to) ==
    /\ Go(t, from, to)
    /\ from \in Label /\ to \in Label /\ Held(from) = Held(to)
    /\ UNCHANGED owner

\* No lock is held at the entry of a handler.
LEMMA EntryLabel ==
    ASSUME NEW t \in Thread
    PROVE  Entry(t) \in Label /\ Held(Entry(t)) = {}
BY DEF Entry, Thread, Label, Held

\* All steps but Acquire and Release keep the locks.
LEMMA LocalSteps ==
    ASSUME NEW t \in Thread,
           \/ Return(t) \/ Apply(t) \/ ApplyCoinbase(t)
           \/ Select(t) \/ GrabTip(t) \/ GenerateBlock(t) \/ AppendBlock(t) \/ Receive(t)
           \/ Register(t) \/ Flood(t) \/ Poll(t)
           \/ GetBlockLog(t) \/ GetBlockchain(t) \/ GetUtxo(t) \/ Gossip(t)
    PROVE  \E from, to \in Label : Local(t, from, to)
<1>1. CASE Return(t)
  <2>1. Local(t, "return", Entry(t))
    BY <1>1, EntryLabel DEF Return, Local, Held, Label
  <2> QED
    BY <2>1 DEF Local
<1>2. CASE Apply(t) \/ ApplyCoinbase(t)
  <2>1. Local(t, "apply", "applyCoinbase") \/ Local(t, "applyCoinbase", "unlockUtxo")
    BY <1>2 DEF Apply, ApplyCoinbase, Local, Held, Label
  <2> QED
    BY <2>1 DEF Local
<1>3. CASE Select(t)
  <2>1. Local(t, "select", "lockTip") \/ Local(t, "select", "unlock")
    BY <1>3 DEF Select, Local, Held, Label
  <2> QED
    BY <2>1 DEF Local
<1>4. CASE GrabTip(t) \/ GenerateBlock(t)
  <2>1. Local(t, "tip", "unlockTip") \/ Local(t, "work", "relock")
    BY <1>4 DEF GrabTip, GenerateBlock, Local, Held, Label
  <2> QED
    BY <2>1 DEF Local
<1>5. CASE AppendBlock(t)
  <2>1. Local(t, "append", "lockUtxo") \/ Local(t, "append", "unlockChain")
    BY <1>5 DEF AppendBlock, Local, Held, Label
  <2> QED
    BY <2>1 DEF Local
<1>6. CASE Receive(t)
  <2>1. Local(t, "receive", "lockUtxo") \/ Local(t, "receive", "unlockChain")
    BY <1>6 DEF Receive, Local, Held, Label
  <2> QED
    BY <2>1 DEF Local
<1>7. CASE Register(t)
  <2>1. Local(t, "register", "registered") \/ Local(t, "register", "unlock")
    BY <1>7 DEF Register, Local, Held, Label
  <2> QED
    BY <2>1 DEF Local
<1>8. CASE Poll(t)
  <2>1. Local(t, "poll", "unlock") \/ Local(t, "poll", "polled")
    BY <1>8 DEF Poll, Local, Held, Label
  <2> QED
    BY <2>1 DEF Local
<1>9. CASE Flood(t) \/ Gossip(t)
  <2>1. Local(t, "flood", "flooded") \/ Local(t, "merge", "merged")
    BY <1>9 DEF Flood, Gossip, Local, Held, Label
  <2> QED
    BY <2>1 DEF Local
<1>10. CASE GetBlockLog(t) \/ GetBlockchain(t) \/ GetUtxo(t)
  <2>1. \/ Local(t, "readLog", "logRead") \/ Local(t, "readChain", "viewed")
        \/ Local(t, "readUtxo", "walletRead")
    BY <1>10 DEF GetBlockLog, GetBlockchain, GetUtxo, Local, Held, Label
  <2> QED
    BY <2>1 DEF Local
<1> QED
  BY <1>1, <1>2, <1>3, <1>4, <1>5, <1>6, <1>7, <1>8, <1>9, <1>10

\* Each step of the node is a lock, an unlock or a local step of one thread.
LEMMA Steps ==
    ASSUME Next
    PROVE  \E t \in Thread :
              \/ Acquire(t) \/ Release(t)
              \/ \E from, to \in Label : Local(t, from, to)
<1>1. ASSUME NEW t \in Thread, Return(t) \/ Apply(t) \/ ApplyCoinbase(t)
      PROVE  \E from, to \in Label : Local(t, from, to)
  BY <1>1, LocalSteps
<1>2. ASSUME Select(Miner) \/ GrabTip(Miner) \/ GenerateBlock(Miner) \/ AppendBlock(Miner)
      PROVE  Miner \in Thread /\ \E from, to \in Label : Local(Miner, from, to)
  <2>1. Miner \in Thread
    BY DEF Thread
  <2> QED
    BY <1>2, <2>1, LocalSteps
<1>3. ASSUME NEW t \in Receivers \cup Appenders \cup Loggers \cup Viewers \cup Gossipers,
             \/ Receive(t) \/ Register(t) \/ Flood(t) \/ Poll(t)
             \/ GetBlockLog(t) \/ GetBlockchain(t) \/ GetUtxo(t) \/ Gossip(t)
      PROVE  t \in Thread /\ \E from, to \in Label : Local(t, from, to)
  <2>1. t \in Thread
    BY DEF Thread
  <2> QED
    BY <1>3, <2>1, LocalSteps
<1> QED
  BY <1>1, <1>2, <1>3 DEF Next

DataTypeOK ==
    /\ chain \in Nat /\ utxo \in Nat
    /\ status \in [Appenders -> {"UNSEEN", "PENDING", "INVALID", "SUCCESS", "HANDLED"}]
    /\ local \in [Thread -> Nat]

\* Every step keeps the types of the data.
LEMMA DataStep ==
    ASSUME DataTypeOK, [Next]_vars
    PROVE  DataTypeOK'
<1> USE DEF DataTypeOK
<1>1. ASSUME NEW t \in Thread, Acquire(t) \/ Release(t) \/ Return(t)
      PROVE  DataTypeOK'
  BY <1>1 DEF Acquire, Release, Return, data, Thread
<1>2. ASSUME NEW t \in Thread, Apply(t)
      PROVE  DataTypeOK'
  BY <1>2 DEF Apply, Marked
<1>3. ASSUME NEW t \in Thread, ApplyCoinbase(t)
      PROVE  DataTypeOK'
  BY <1>3 DEF ApplyCoinbase
<1>4. ASSUME Select(Miner)
      PROVE  DataTypeOK'
  BY <1>4 DEF Select, Marked, data
<1>5. ASSUME GrabTip(Miner)
      PROVE  DataTypeOK'
  BY <1>5 DEF GrabTip, data, Thread
<1>6. ASSUME GenerateBlock(Miner) \/ AppendBlock(Miner)
      PROVE  DataTypeOK'
  BY <1>6 DEF GenerateBlock, AppendBlock, data
<1>7. ASSUME NEW t \in Receivers, Receive(t)
      PROVE  DataTypeOK'
  BY <1>7 DEF Receive, data
<1>8. ASSUME NEW t \in Appenders, Register(t) \/ Flood(t) \/ Poll(t)
      PROVE  DataTypeOK'
  BY <1>8 DEF Register, Flood, Poll, data
<1>9. ASSUME NEW t \in Viewers, GetBlockchain(t) \/ GetUtxo(t)
      PROVE  DataTypeOK'
  BY <1>9 DEF GetBlockchain, GetUtxo, data, Thread
<1>10. ASSUME \/ \E t \in Loggers : GetBlockLog(t)
              \/ \E t \in Gossipers : Gossip(t)
              \/ UNCHANGED vars
       PROVE  DataTypeOK'
  BY <1>10 DEF GetBlockLog, Gossip, data, vars, Thread
<1> QED
  BY <1>1, <1>2, <1>3, <1>4, <1>5, <1>6, <1>7, <1>8, <1>9, <1>10 DEF Next

\* A lock that is free has no thread as its owner.
LEMMA NobodyNoThread == \A t \in Thread : t # Nobody
BY ThreadAssumption

\* Every step keeps LocksOK.
LEMMA LocksStep ==
    ASSUME LocksOK, [Next]_vars
    PROVE  LocksOK'
<1> DEFINE Owns == /\ pc \in [Thread -> Label]
                   /\ owner \in [Lock -> Thread \cup {Nobody}]
                   /\ \A t \in Thread, l \in Lock : owner[l] = t <=> l \in Held(pc[t])
<1>0. Owns /\ DataTypeOK
  BY DEF LocksOK, DataTypeOK
<1>1. ASSUME NEW t \in Thread, Acquire(t)
      PROVE  Owns'
  <2>1. PICK s \in LockAt : /\ Go(t, s[1], s[3])
                            /\ owner[s[2]] = Nobody
                            /\ owner' = [owner EXCEPT ![s[2]] = t]
    BY <1>1 DEF Acquire
  <2>2. /\ s[2] \in Lock /\ s[3] \in Label /\ s[2] \notin Held(s[1])
        /\ Held(s[3]) = Held(s[1]) \cup {s[2]}
    BY LockRows
  <2>3. /\ pc' \in [Thread -> Label] /\ owner' \in [Lock -> Thread \cup {Nobody}]
    BY <1>0, <2>1, <2>2 DEF Go
  <2>4. ASSUME NEW u \in Thread, NEW l \in Lock
        PROVE  owner'[l] = u <=> l \in Held(pc'[u])
    <3>1. CASE u = t
      BY <1>0, <2>1, <2>2, <3>1 DEF Go
    <3>2. CASE u # t
      BY <1>0, <2>1, <2>2, <3>2, NobodyNoThread DEF Go
    <3> QED
      BY <3>1, <3>2
  <2> QED
    BY <2>3, <2>4
<1>2. ASSUME NEW t \in Thread, Release(t)
      PROVE  Owns'
  <2>1. PICK s \in UnlockAt : /\ Go(t, s[1], s[3])
                              /\ owner' = [owner EXCEPT ![s[2]] = Nobody]
    BY <1>2 DEF Release
  <2>2. /\ s[2] \in Lock /\ s[3] \in Label /\ s[2] \in Held(s[1])
        /\ Held(s[3]) = Held(s[1]) \ {s[2]}
    BY UnlockRows
  <2>3. /\ pc' \in [Thread -> Label] /\ owner' \in [Lock -> Thread \cup {Nobody}]
    BY <1>0, <2>1, <2>2 DEF Go
  <2>4. ASSUME NEW u \in Thread, NEW l \in Lock
        PROVE  owner'[l] = u <=> l \in Held(pc'[u])
    <3>1. CASE u = t
      BY <1>0, <2>1, <2>2, <3>1, NobodyNoThread DEF Go
    <3>2. CASE u # t
      BY <1>0, <2>1, <2>2, <3>2, NobodyNoThread DEF Go
    <3> QED
      BY <3>1, <3>2
  <2> QED
    BY <2>3, <2>4
<1>3. ASSUME NEW t \in Thread, NEW from \in Label, NEW to \in Label, Local(t, from, to)
      PROVE  Owns'
  <2>1. pc' \in [Thread -> Label] /\ owner' = owner
    BY <1>0, <1>3 DEF Local, Go
  <2>2. \A u \in Thread : Held(pc'[u]) = Held(pc[u])
    BY <1>0, <1>3 DEF Local, Go
  <2> QED
    BY <1>0, <2>1, <2>2
<1>4. ASSUME UNCHANGED vars
      PROVE  Owns'
  BY <1>0, <1>4 DEF vars
<1>5. Owns'
  BY <1>1, <1>2, <1>3, <1>4, Steps
<1> QED
  BY <1>0, <1>5, DataStep DEF LocksOK, DataTypeOK

\* Every thread holds exactly the locks it took, and no lock has two owners.
THEOREM LocksHeld == Spec => []LocksOK
<1>1. Init => LocksOK
  <2>1. SUFFICES ASSUME Init PROVE LocksOK
    OBVIOUS
  <2>2. \A t \in Thread : pc[t] \in Label /\ Held(pc[t]) = {}
    BY <2>1, EntryLabel DEF Init
  <2> QED
    BY <2>1, <2>2, NobodyNoThread, EntryLabel DEF Init, LocksOK
<1>2. LocksOK /\ [Next]_vars => LocksOK'
  BY LocksStep
<1> QED
  BY <1>1, <1>2, PTL DEF Spec
-----------------------------------------------------------------------------
(* Races and deadlock *)

\* Two threads never hold the same lock.
LEMMA Exclusive ==
    ASSUME LocksOK, NEW t \in Thread, NEW u \in Thread, NEW l \in Lock,
           l \in Held(pc[t]), l \in Held(pc[u])
    PROVE  t = u
BY DEF LocksOK

\* The lock that every writer of a variable shares with every other user of it is
\* mu, but for the log (bcmu) and the wallet queries (utxoMu).
LEMMA Guarded ==
    ASSUME NEW a \in Label, NEW b \in Label, ~(Conflicts(a, b) \subseteq {"servers"})
    PROVE  \E l \in Lock : l \in Held(a) /\ l \in Held(b)
<1>1. CASE "PendingTxs" \in Conflicts(a, b)
  <2>1. /\ a \in {"select", "register", "poll", "apply"}
        /\ b \in {"select", "register", "poll", "apply"}
    BY <1>1 DEF Conflicts, Writes, Reads, Label
  <2> QED
    BY <2>1 DEF Held, Lock
<1>2. CASE "Blockchain" \in Conflicts(a, b)
  <2>1. /\ a \in {"append", "receive"}
        /\ b \in {"select", "tip", "readChain", "append", "receive"}
    BY <1>2 DEF Conflicts, Writes, Reads, Label
  <2> QED
    BY <2>1 DEF Held, Lock
<1>3. CASE "Log" \in Conflicts(a, b)
  <2>1. a \in {"append", "receive"} /\ b \in {"append", "receive", "readLog"}
    BY <1>3 DEF Conflicts, Writes, Reads, Label
  <2> QED
    BY <2>1 DEF Held, Lock
<1>4. CASE "Utxo" \in Conflicts(a, b)
  <2>1. /\ a \in {"apply", "applyCoinbase"}
        /\ b \in {"select", "receive", "readUtxo", "apply", "applyCoinbase"}
    BY <1>4 DEF Conflicts, Writes, Reads, Label
  <2> QED
    BY <2>1 DEF Held, Lock
<1>5. Conflicts(a, b) \subseteq {"PendingTxs", "Blockchain", "Log", "Utxo", "servers"}
  BY DEF Conflicts, Writes, Label
<1> QED
  BY <1>1, <1>2, <1>3, <1>4, <1>5

\* No data race but the ones on the peer list.
THEOREM RaceFree == Spec => []NoRace
<1>1. LocksOK => NoRace
  <2>1. SUFFICES ASSUME LocksOK, NEW t \in Thread, NEW u \in Thread, t # u
                 PROVE  Conflicts(pc[t], pc[u]) \subseteq {"servers"}
    BY DEF NoRace
  <2>2. pc[t] \in Label /\ pc[u] \in Label
    BY <2>1 DEF LocksOK
  <2> QED
    BY <2>1, <2>2, Guarded, Exclusive
<1> QED
  BY <1>1, LocksHeld, PTL

\* The locks are taken in the order mu, bcmu, utxoMu; peermu is taken alone.
LEMMA LockOrder ==
    \A s \in LockAt : /\ "utxoMu" \notin Held(s[1]) /\ "peermu" \notin Held(s[1])
                      /\ "bcmu" \in Held(s[1]) => s[2] = "utxoMu"
                      /\ "mu" \in Held(s[1]) => s[2] \in {"bcmu", "utxoMu"}
<1>1. SUFFICES ASSUME NEW s \in LockAt
               PROVE  /\ "utxoMu" \notin Held(s[1]) /\ "peermu" \notin Held(s[1])
                      /\ "bcmu" \in Held(s[1]) => s[2] = "utxoMu"
                      /\ "mu" \in Held(s[1]) => s[2] \in {"bcmu", "utxoMu"}
  OBVIOUS
<1>2. CASE s[1] \in {"lockTip", "relock", "lockChain", "lockView"}
  BY <1>2 DEF LockAt, LockTable, Held
<1>3. CASE s[1] = "lockUtxo"
  BY <1>3 DEF LockAt, LockTable, Held
<1>4. CASE s[1] \in {"mine", "SendBlock", "AppendTx", "lockPeers", "lockPoll", "GetBlockLog",
                     "GetBlockchain", "GetUtxo", "Gossip"}
  BY <1>4 DEF Held
<1> QED
  BY <1>2, <1>3, <1>4 DEF LockAt, LockTable

\* The holders of locks never all wait for each other.
THEOREM NoCircle == Spec => []HoldersAdvance
<1>1. LocksOK => HoldersAdvance
  <2>1. SUFFICES ASSUME LocksOK, NEW l \in Lock, owner[l] # Nobody
                 PROVE  \E k \in Lock : owner[k] # Nobody /\ ~Blocked(owner[k])
    BY DEF HoldersAdvance
  <2>2. \A k \in Lock : owner[k] # Nobody => owner[k] \in Thread /\ k \in Held(pc[owner[k]])
    BY <2>1 DEF LocksOK
  <2>3. CASE owner["utxoMu"] # Nobody
    BY <2>2, <2>3, LockOrder DEF Blocked, Lock
  <2>4. CASE owner["utxoMu"] = Nobody /\ owner["bcmu"] # Nobody
    <3>1. "bcmu" \in Held(pc[owner["bcmu"]])
      BY <2>2, <2>4 DEF Lock
    <3>2. ~Blocked(owner["bcmu"])
      BY <2>4, <3>1, LockOrder DEF Blocked
    <3> QED
      BY <2>4, <3>2 DEF Lock
  <2>5. CASE owner["utxoMu"] = Nobody /\ owner["bcmu"] = Nobody /\ owner["mu"] # Nobody
    <3>1. "mu" \in Held(pc[owner["mu"]])
      BY <2>2, <2>5 DEF Lock
    <3>2. ~Blocked(owner["mu"])
      BY <2>5, <3>1, LockOrder DEF Blocked
    <3> QED
      BY <2>5, <3>2 DEF Lock
  <2>6. CASE owner["peermu"] # Nobody
    BY <2>2, <2>6, LockOrder DEF Blocked, Lock
  <2> QED
    BY <2>1, <2>3, <2>4, <2>5, <2>6 DEF Lock
<1> QED
  BY <1>1, LocksHeld, PTL
-----------------------------------------------------------------------------
(* What the holder of mu can rely on *)

\* mine() between reading the tip and using it.
OnTip == {"unlockTip", "work", "relock", "append"}

\* A block is on the chain and not yet, or only in part, in the wallet.
Behind == {"lockUtxo", "apply"}

\* A viewer that has read the chain and not yet the wallet.
Viewing == {"viewed", "unlockView", "GetUtxo", "readUtxo"}

TipOK == pc[Miner] \in OnTip => local[Miner] = chain

WalletOK ==
    /\ \A t \in Thread : pc[t] \in Behind => utxo + 2 = 2 * chain
    /\ \A t \in Thread : pc[t] = "applyCoinbase" => utxo + 1 = 2 * chain
    /\ (\A t \in Thread : pc[t] \notin Behind \cup {"applyCoinbase"}) => utxo = 2 * chain
    /\ \A v \in Viewers : pc[v] \in Viewing => utxo >= local[v]

\* mu is held from the reading of the tip to its use and from the appending of a
\* block to its end in the wallet, so nobody else is there.
LEMMA Alone ==
    ASSUME LocksOK, NEW t \in Thread, "mu" \in Held(pc[t]), NEW u \in Thread, u # t
    PROVE  pc[u] \notin OnTip \cup Behind \cup {"applyCoinbase"}
<1>1. "mu" \notin Held(pc[u])
  BY Exclusive DEF Lock
<1> QED
  BY <1>1 DEF OnTip, Behind, Held

\* The steps after which every thread is where it was as far as TipOK and WalletOK
\* can tell, and that change nothing they mention.
Quiet ==
    /\ UNCHANGED <<chain, utxo>>
    /\ \A t \in Thread : pc'[t] \in OnTip \cup Viewing => local'[t] = local[t]
    /\ \A t \in Thread : /\ pc'[t] \in OnTip => pc[t] \in OnTip
                         /\ pc'[t] \in Behind <=> pc[t] \in Behind
                         /\ pc'[t] = "applyCoinbase" <=> pc[t] = "applyCoinbase"
                         /\ pc'[t] \in Viewing => pc[t] \in Viewing

\* The threads of different kinds are different.
LEMMA Kinds ==
    /\ Miner \in Thread /\ Receivers \subseteq Thread /\ Viewers \subseteq Thread
    /\ Appenders \subseteq Thread /\ Loggers \subseteq Thread /\ Gossipers \subseteq Thread
    /\ Miner \notin Receivers /\ Miner \notin Viewers /\ Receivers \cap Viewers = {}
BY ThreadAssumption DEF Thread

\* Taking or releasing a lock moves no thread into or out of these places.
LEMMA RowsQuiet ==
    \A s \in LockAt \cup UnlockAt :
        /\ s[3] \in OnTip => s[1] \in OnTip
        /\ s[3] \in Behind <=> s[1] \in Behind
        /\ s[1] # "applyCoinbase" /\ s[3] # "applyCoinbase"
        /\ s[3] \in Viewing => s[1] \in Viewing
<1>1. \A s \in LockAt : /\ s[3] \in OnTip => s[1] \in OnTip
                        /\ s[3] \in Behind <=> s[1] \in Behind
                        /\ s[1] # "applyCoinbase" /\ s[3] # "applyCoinbase"
                        /\ s[3] \in Viewing => s[1] \in Viewing
  BY DEF LockAt, LockTable, OnTip, Behind, Viewing
<1>2. \A s \in UnlockAt : /\ s[3] \in OnTip => s[1] \in OnTip
                          /\ s[3] \in Behind <=> s[1] \in Behind
                          /\ s[1] # "applyCoinbase" /\ s[3] # "applyCoinbase"
                          /\ s[3] \in Viewing => s[1] \in Viewing
  BY DEF UnlockAt, UnlockTable, OnTip, Behind, Viewing
<1> QED
  BY <1>1, <1>2

\* Acquire and Release are quiet.
LEMMA LockingQuiet ==
    ASSUME LocksOK, NEW t \in Thread, Acquire(t) \/ Release(t)
    PROVE  Quiet
<1>1. PICK s \in LockAt \cup UnlockAt : Go(t, s[1], s[3])
  BY DEF Acquire, Release
<1>2. UNCHANGED data
  BY DEF Acquire, Release
<1> QED
  BY <1>1, <1>2, RowsQuiet, Kinds DEF LocksOK, Go, Quiet, data

\* The entries of the handlers are none of these places.
LEMMA EntryQuiet ==
    ASSUME NEW t \in Thread
    PROVE  Entry(t) \notin OnTip \cup Behind \cup Viewing \cup {"applyCoinbase"}
BY DEF Entry, Thread, OnTip, Behind, Viewing

\* So are the steps that touch neither the chain nor the wallet.
LEMMA OthersQuiet ==
    ASSUME LocksOK, NEW t \in Thread,
           \/ Return(t) \/ Select(t) \/ GenerateBlock(t)
           \/ Register(t) \/ Flood(t) \/ Poll(t) \/ GetBlockLog(t) \/ GetUtxo(t) \/ Gossip(t)
    PROVE  Quiet
<1> USE DEF LocksOK, Go, OnTip, Behind, Viewing, Quiet, data
<1>1. CASE Return(t)
  BY <1>1, EntryQuiet, Kinds DEF Return
<1>2. CASE Select(t)
  BY <1>2, Kinds DEF Select
<1>3. CASE GenerateBlock(t)
  BY <1>3, Kinds DEF GenerateBlock
<1>4. CASE Register(t)
  BY <1>4, Kinds DEF Register
<1>5. CASE Flood(t) \/ Gossip(t)
  BY <1>5, Kinds DEF Flood, Gossip
<1>6. CASE Poll(t)
  BY <1>6, Kinds DEF Poll
<1>7. CASE GetBlockLog(t) \/ GetUtxo(t)
  BY <1>7, Kinds DEF GetBlockLog, GetUtxo
<1> QED
  BY <1>1, <1>2, <1>3, <1>4, <1>5, <1>6, <1>7

\* A step is quiet or one of those that have to do with the chain and the wallet.
LEMMA QuietOrNot ==
    ASSUME LocksOK, [Next]_vars
    PROVE  \/ Quiet
           \/ GrabTip(Miner) \/ AppendBlock(Miner)
           \/ \E t \in Receivers : Receive(t)
           \/ \E t \in Viewers : GetBlockchain(t)
           \/ \E t \in Thread : Apply(t) \/ ApplyCoinbase(t)
<1>1. ASSUME NEW t \in Thread, Acquire(t) \/ Release(t) \/ Return(t)
      PROVE  Quiet
  BY <1>1, LockingQuiet, OthersQuiet
<1>2. ASSUME Select(Miner) \/ GenerateBlock(Miner)
      PROVE  Quiet
  BY <1>2, OthersQuiet, Kinds
<1>3. ASSUME NEW t \in Thread,
             Register(t) \/ Flood(t) \/ Poll(t) \/ GetBlockLog(t) \/ GetUtxo(t) \/ Gossip(t)
      PROVE  Quiet
  BY <1>3, OthersQuiet
<1>4. ASSUME UNCHANGED vars
      PROVE  Quiet
  BY <1>4 DEF vars, data, Quiet
<1> QED
  BY <1>1, <1>2, <1>3, <1>4, Kinds DEF Next

\* Every step keeps TipOK: a block that arrives needs mu.
LEMMA TipStep ==
    ASSUME LocksOK, TipOK, [Next]_vars
    PROVE  TipOK'
<1> USE DEF TipOK
<1>1. CASE Quiet
  BY <1>1, Kinds DEF Quiet
<1>2. CASE GrabTip(Miner)
  BY <1>2, Kinds DEF GrabTip, LocksOK
<1>3. CASE AppendBlock(Miner)
  BY <1>3, Kinds DEF AppendBlock, Go, OnTip, LocksOK
<1>4. ASSUME NEW t \in Receivers, Receive(t)
      PROVE  TipOK'
  <2>1. t \in Thread /\ "mu" \in Held(pc[t])
    BY <1>4, Kinds DEF Receive, Go, Held
  <2>2. pc[Miner] \notin OnTip /\ pc'[Miner] = pc[Miner]
    BY <1>4, <2>1, Alone, Kinds DEF Receive, Go, LocksOK
  <2> QED
    BY <2>2
<1>5. ASSUME NEW t \in Viewers, GetBlockchain(t)
      PROVE  TipOK'
  BY <1>5, Kinds DEF GetBlockchain, Go, LocksOK
<1>6. ASSUME NEW t \in Thread, Apply(t) \/ ApplyCoinbase(t)
      PROVE  TipOK'
  BY <1>6, Kinds DEF Apply, ApplyCoinbase, Go, OnTip, LocksOK
<1> QED
  BY <1>1, <1>2, <1>3, <1>4, <1>5, <1>6, QuietOrNot

\* The tip that mine() remembers is the tip.
LEMMA TipInvariant == Spec => []TipOK
<1>1. Init => TipOK
  BY Kinds DEF Init, TipOK, OnTip, Entry
<1>2. LocksOK /\ TipOK /\ [Next]_vars => TipOK'
  BY TipStep
<1> QED
  BY <1>1, <1>2, LocksHeld, PTL DEF Spec

\* No other block gets between the tip that mine() reads and the block it appends.
THEOREM WorkNotWasted == Spec => []TipStillNew
<1>1. TipOK => TipStillNew
  BY DEF TipOK, TipStillNew, OnTip
<1> QED
  BY <1>1, TipInvariant, PTL

\* Every step keeps WalletOK: a block is applied under mu.
LEMMA WalletStep ==
    ASSUME LocksOK, WalletOK, [Next]_vars
    PROVE  WalletOK'
<1>0. chain \in Nat /\ utxo \in Nat /\ local \in [Thread -> Nat] /\ pc \in [Thread -> Label]
  BY DEF LocksOK
<1>1. CASE Quiet
  BY <1>0, <1>1, Kinds DEF WalletOK, Quiet
<1>2. CASE GrabTip(Miner)
  BY <1>0, <1>2, Kinds DEF WalletOK, GrabTip, Go, Behind, Viewing
<1>3. ASSUME NEW t \in Thread, t \notin Viewers, pc[t] \in {"append", "receive"},
             Go(t, pc[t], "lockUtxo"), chain' = chain + 1, UNCHANGED <<utxo, local>>
      PROVE  WalletOK'
  <2>1. \A u \in Thread \ {t} : pc[u] \notin Behind \cup {"applyCoinbase"}
    BY <1>3, Alone DEF Held
  <2>2. utxo = 2 * chain
    BY <1>3, <2>1 DEF WalletOK, Behind
  <2>3. /\ \A u \in Thread \ {t} : pc'[u] = pc[u]
        /\ pc'[t] = "lockUtxo"
    BY <1>0, <1>3 DEF Go
  <2> QED
    BY <1>0, <1>3, <2>1, <2>2, <2>3, Kinds DEF WalletOK, Behind
<1>4. ASSUME NEW t \in Thread, t \notin Viewers, pc[t] \in {"append", "receive"},
             Go(t, pc[t], "unlockChain"), UNCHANGED data
      PROVE  WalletOK'
  BY <1>0, <1>4, Kinds DEF WalletOK, Go, Behind, data
<1>5. CASE AppendBlock(Miner)
  <2>1. CASE local[Miner] = chain
    BY <1>3, <1>5, <2>1, Kinds DEF AppendBlock, Go
  <2>2. CASE local[Miner] # chain
    BY <1>4, <1>5, <2>2, Kinds DEF AppendBlock, Go, data
  <2> QED
    BY <2>1, <2>2
<1>6. ASSUME NEW t \in Receivers, Receive(t)
      PROVE  WalletOK'
  BY <1>3, <1>4, <1>6, Kinds DEF Receive, Go
<1>7. ASSUME NEW t \in Viewers, GetBlockchain(t)
      PROVE  WalletOK'
  <2>1. t \in Thread /\ "mu" \in Held(pc[t]) /\ pc[t] = "readChain"
    BY <1>7, Kinds DEF GetBlockchain, Go, Held
  <2>2. utxo = 2 * chain
    BY <2>1, Alone DEF WalletOK, Behind
  <2>3. /\ \A u \in Thread \ {t} : pc'[u] = pc[u] /\ local'[u] = local[u]
        /\ pc'[t] = "viewed" /\ local'[t] = 2 * chain
    BY <1>0, <1>7, <2>1 DEF GetBlockchain, Go
  <2>4. UNCHANGED <<chain, utxo>>
    BY <1>7 DEF GetBlockchain
  <2> QED
    BY <1>0, <2>1, <2>2, <2>3, <2>4, Kinds DEF WalletOK, Behind
<1>8. ASSUME NEW t \in Thread, Apply(t)
      PROVE  WalletOK'
  <2>1. "mu" \in Held(pc[t]) /\ pc[t] = "apply"
    BY <1>8 DEF Apply, Go, Held
  <2>2. \A u \in Thread \ {t} : pc[u] \notin Behind \cup {"applyCoinbase"}
    BY <2>1, Alone
  <2>3. utxo + 2 = 2 * chain /\ utxo' = utxo + 1 /\ UNCHANGED <<chain, local>>
    BY <1>8, <2>1 DEF WalletOK, Behind, Apply
  <2>4. (\A u \in Thread \ {t} : pc'[u] = pc[u]) /\ pc'[t] = "applyCoinbase"
    BY <1>0, <1>8 DEF Apply, Go
  <2> QED
    BY <1>0, <2>2, <2>3, <2>4, Kinds DEF WalletOK, Behind, Viewing
<1>9. ASSUME NEW t \in Thread, ApplyCoinbase(t)
      PROVE  WalletOK'
  <2>1. "mu" \in Held(pc[t]) /\ pc[t] = "applyCoinbase"
    BY <1>9 DEF ApplyCoinbase, Go, Held
  <2>2. \A u \in Thread \ {t} : pc[u] \notin Behind \cup {"applyCoinbase"}
    BY <2>1, Alone
  <2>3. utxo + 1 = 2 * chain /\ utxo' = utxo + 1 /\ UNCHANGED <<chain, local>>
    BY <1>9, <2>1 DEF WalletOK, ApplyCoinbase
  <2>4. (\A u \in Thread \ {t} : pc'[u] = pc[u]) /\ pc'[t] = "unlockUtxo"
    BY <1>0, <1>9 DEF ApplyCoinbase, Go
  <2> QED
    BY <1>0, <2>2, <2>3, <2>4, Kinds DEF WalletOK, Behind, Viewing
<1> QED
  BY <1>1, <1>2, <1>5, <1>6, <1>7, <1>8, <1>9, QuietOrNot

\* The wallets are as far as the chain, but for the block being applied.
LEMMA WalletInvariant == Spec => []WalletOK
<1>1. Init => WalletOK
  <2>1. SUFFICES ASSUME Init PROVE WalletOK
    OBVIOUS
  <2>2. \A t \in Thread : pc[t] \notin Behind \cup Viewing \cup {"applyCoinbase"}
    BY <2>1, EntryQuiet DEF Init
  <2> QED
    BY <2>1, <2>2, Kinds DEF Init, WalletOK
<1>2. LocksOK /\ WalletOK /\ [Next]_vars => WalletOK'
  BY WalletStep
<1> QED
  BY <1>1, <1>2, LocksHeld, PTL DEF Spec

\* A wallet query finds no block half applied, and misses none that the client has
\* seen on the chain.
THEOREM WalletFollowsChain == Spec => []WalletUpToDate
<1>1. LocksOK /\ WalletOK => WalletUpToDate
  <2>1. SUFFICES ASSUME LocksOK, WalletOK, NEW v \in Viewers, pc[v] = "readUtxo"
                 PROVE  utxo % 2 = 0 /\ utxo >= local[v]
    BY DEF WalletUpToDate
  <2>2. \A t \in Thread : pc[t] # "applyCoinbase"
    <3>1. SUFFICES ASSUME NEW t \in Thread, pc[t] = "applyCoinbase" PROVE FALSE
      OBVIOUS
    <3>2. "utxoMu" \in Held(pc[t]) /\ "utxoMu" \in Held(pc[v])
      BY <2>1, <3>1 DEF Held
    <3> QED
      BY <2>1, <3>1, <3>2, Exclusive, Kinds DEF Lock
  <2>3. chain \in Nat /\ utxo \in Nat
    BY <2>1 DEF LocksOK
  <2>4. utxo = 2 * chain \/ utxo + 2 = 2 * chain
    BY <2>1, <2>2 DEF WalletOK
  <2>5. utxo % 2 = 0
    BY <2>3, <2>4
  <2> QED
    BY <2>1, <2>5 DEF WalletOK, Viewing
<1> QED
  BY <1>1, WalletInvariant, LocksHeld, PTL
-----------------------------------------------------------------------------
(* The threads together implement AtomicNode. *)

Readers == Loggers \cup Viewers
blocksShown == (utxo + 1) \div 2
inTurn == pc[Miner] \in InTurn
answers == [r \in Readers |-> local[r]]

\* Two entries make a block; one counts already.
LEMMA Halves ==
    ASSUME NEW n \in Nat
    PROVE  /\ (2 * n + 1) \div 2 = n
           /\ (2 * n) \div 2 = n
OBVIOUS

\* The wallets go up to the end of the chain, or to the block before while that
\* block waits to be applied.
LEMMA Height ==
    ASSUME LocksOK, WalletOK, NEW t \in Thread
    PROVE  /\ pc[t] \in Behind => utxo + 2 = 2 * chain /\ blocksShown = chain - 1
           /\ pc[t] = "applyCoinbase" => utxo + 1 = 2 * chain /\ blocksShown = chain
           /\ (\A u \in Thread : pc[u] \notin Behind \cup {"applyCoinbase"}) =>
                  utxo = 2 * chain /\ blocksShown = chain
<1>1. chain \in Nat /\ utxo \in Nat
  BY DEF LocksOK
<1>2. ASSUME utxo + 2 = 2 * chain PROVE blocksShown = chain - 1
  <2>1. utxo + 1 = 2 * (chain - 1) + 1 /\ chain - 1 \in Nat
    BY <1>1, <1>2
  <2> QED
    BY <2>1, Halves DEF blocksShown
<1>3. ASSUME utxo + 1 = 2 * chain PROVE blocksShown = chain
  BY <1>1, <1>3, Halves DEF blocksShown
<1>4. ASSUME utxo = 2 * chain PROVE blocksShown = chain
  BY <1>1, <1>4, Halves DEF blocksShown
<1> QED
  BY <1>2, <1>3, <1>4 DEF WalletOK

\* Whoever holds mu shuts the miner out of its turn.
LEMMA NotInTurn ==
    ASSUME LocksOK, NEW t \in Thread, t # Miner, "mu" \in Held(pc[t])
    PROVE  ~inTurn
<1>1. "mu" \notin Held(pc[Miner])
  BY Exclusive, Kinds DEF Lock
<1> QED
  BY <1>1 DEF inTurn, InTurn, Held

\* A row of the lock tables neither begins nor ends a turn.
LEMMA RowsInTurn ==
    \A s \in LockAt \cup UnlockAt : s[3] \in InTurn <=> s[1] \in InTurn
<1>1. \A s \in LockAt : s[3] \in InTurn <=> s[1] \in InTurn
  BY DEF LockAt, LockTable, InTurn
<1>2. \A s \in UnlockAt : s[3] \in InTurn <=> s[1] \in InTurn
  BY DEF UnlockAt, UnlockTable, InTurn
<1> QED
  BY <1>1, <1>2

\* No thread is in the middle of a block while another one has this lock.
LEMMA NotBehind ==
    ASSUME LocksOK, NEW t \in Thread, pc[t] \in {"readLog", "readChain", "readUtxo"},
           NEW u \in Thread
    PROVE  /\ pc[u] # "applyCoinbase"
           /\ pc[t] # "readUtxo" => pc[u] \notin Behind
<1>1. CASE pc[u] = "applyCoinbase"
  <2>1. "utxoMu" \in Held(pc[u]) /\ "bcmu" \in Held(pc[u])
    BY <1>1 DEF Held
  <2>2. "utxoMu" \in Held(pc[t]) \/ "bcmu" \in Held(pc[t])
    BY DEF Held
  <2>3. t = u
    BY <2>1, <2>2, Exclusive DEF Lock
  <2> QED
    BY <1>1, <2>3
<1>2. CASE pc[t] # "readUtxo" /\ pc[u] \in Behind
  <2>1. "bcmu" \in Held(pc[u]) /\ "bcmu" \in Held(pc[t])
    BY <1>2 DEF Held, Behind
  <2>2. t = u
    BY <2>1, Exclusive DEF Lock
  <2> QED
    BY <1>2, <2>2 DEF Behind
<1> QED
  BY <1>1, <1>2

Unseen == UNCHANGED <<blocksShown, status, inTurn, answers>>

\* A step of another thread than mine() that leaves the data alone, or of mine()
\* within or outside of its turn.
LEMMA UnseenSteps ==
    ASSUME LocksOK, NEW t \in Thread, NEW from, NEW to, Go(t, from, to),
           t = Miner => (to \in InTurn <=> from \in InTurn),
           UNCHANGED <<utxo, status>>,
           \A r \in Readers : local'[r] = local[r]
    PROVE  Unseen
<1>1. inTurn' <=> inTurn
  BY Kinds DEF LocksOK, Go, inTurn
<1>2. answers' = answers
  BY DEF answers
<1> QED
  BY <1>1, <1>2 DEF Unseen, blocksShown, inTurn

\* The confirmation of a block is the moment it arrives.
LEMMA ApplyAtomic ==
    ASSUME LocksOK, WalletOK, NEW t \in Thread, Apply(t)
    PROVE  atomic!Mine \/ atomic!SendBlock
<1>1. pc[t] = "apply" /\ "mu" \in Held(pc[t]) /\ pc[t] \in Behind
  BY DEF Apply, Go, Held, Behind
<1>2. chain \in Nat /\ utxo \in Nat /\ pc \in [Thread -> Label]
  BY DEF LocksOK
<1>3. utxo + 2 = 2 * chain /\ blocksShown = chain - 1 /\ utxo' = utxo + 1 /\ local' = local
  BY <1>1, Height DEF Apply
<1>4. blocksShown' = blocksShown + 1
  <2>1. utxo' + 1 = 2 * chain
    BY <1>2, <1>3
  <2>2. (utxo' + 1) \div 2 = chain
    BY <1>2, <2>1, Halves
  <2> QED
    BY <1>2, <1>3, <2>2 DEF blocksShown
<1>5. answers' = answers
  BY <1>3 DEF answers
<1>6. CASE t = Miner
  <2>1. inTurn /\ ~inTurn'
    BY <1>1, <1>2, <1>6, Kinds DEF Apply, Go, inTurn, InTurn
  <2>2. status' = Marked(Pending, "SUCCESS")
    BY <1>6 DEF Apply
  <2> QED
    BY <1>4, <1>5, <2>1, <2>2 DEF atomic!Mine, atomic!Decide, atomic!Pending, Marked, Pending,
       inTurn, blocksShown, answers, Readers
<1>7. CASE t # Miner
  <2>1. ~inTurn
    BY <1>1, <1>7, NotInTurn
  <2>2. inTurn' <=> inTurn
    BY <1>2, <1>7, Kinds DEF Apply, Go, inTurn
  <2>3. \E S \in SUBSET {a \in Appenders : status[a] # "UNSEEN"} : status' = Marked(S, "SUCCESS")
    BY <1>7 DEF Apply
  <2> QED
    BY <1>4, <1>5, <2>1, <2>2, <2>3 DEF atomic!SendBlock, atomic!Decide, Marked,
       inTurn, blocksShown, answers, Readers
<1> QED
  BY <1>6, <1>7

\* A query is answered from a whole number of blocks.
LEMMA ReadAtomic ==
    ASSUME LocksOK, WalletOK, NEW t \in Readers, GetBlockLog(t) \/ GetBlockchain(t) \/ GetUtxo(t)
    PROVE  atomic!Show(t)
<1>1. t \in Thread /\ t # Miner
  BY Kinds, ThreadAssumption DEF Readers
<1>2. /\ pc[t] \in {"readLog", "readChain", "readUtxo"}
      /\ UNCHANGED <<utxo, status>> /\ pc'[Miner] = pc[Miner]
      /\ local' = [local EXCEPT ![t] = IF pc[t] = "readUtxo" THEN utxo ELSE 2 * chain]
  BY <1>1, Kinds DEF GetBlockLog, GetBlockchain, GetUtxo, Go, LocksOK
<1>3. chain \in Nat /\ utxo \in Nat /\ local \in [Thread -> Nat]
  BY DEF LocksOK
<1>4. local' = [local EXCEPT ![t] = 2 * blocksShown]
  <2>1. \A u \in Thread : /\ pc[u] # "applyCoinbase"
                          /\ pc[t] # "readUtxo" => pc[u] \notin Behind
    BY <1>1, <1>2, NotBehind
  <2>2. CASE pc[t] # "readUtxo"
    BY <1>1, <1>2, <2>1, <2>2, Height
  <2>3. CASE pc[t] = "readUtxo"
    <3>1. CASE \E u \in Thread : pc[u] \in Behind
      <4>1. utxo + 2 = 2 * chain /\ blocksShown = chain - 1
        BY <3>1, Height
      <4>2. utxo = 2 * blocksShown
        BY <1>3, <4>1
      <4> QED
        BY <1>2, <2>3, <4>2
    <3>2. CASE \A u \in Thread : pc[u] \notin Behind
      <4>1. utxo = 2 * chain /\ blocksShown = chain
        BY <1>1, <2>1, <3>2, Height
      <4> QED
        BY <1>2, <2>3, <4>1
    <3> QED
      BY <3>1, <3>2
  <2> QED
    BY <2>2, <2>3
<1>5. answers' = [answers EXCEPT ![t] = 2 * blocksShown]
  <2>1. Readers \subseteq Thread
    BY Kinds DEF Readers
  <2> QED
    BY <1>3, <1>4, <2>1 DEF answers
<1>6. UNCHANGED <<blocksShown, status, inTurn>>
  BY <1>2 DEF blocksShown, inTurn
<1> QED
  BY <1>5, <1>6 DEF atomic!Show, answers, blocksShown, inTurn, Readers

\* The decisions about a transaction are taken under mu.
LEMMA AppenderAtomic ==
    ASSUME LocksOK, NEW t \in Appenders, Register(t) \/ Poll(t)
    PROVE  atomic!AppendTx(t) \/ Unseen
<1>1. t \in Thread /\ t # Miner
  BY Kinds, ThreadAssumption
<1>2. "mu" \in Held(pc[t]) /\ UNCHANGED <<chain, utxo, local>> /\ pc'[Miner] = pc[Miner]
  BY <1>1, Kinds DEF Register, Poll, Go, Held, data, LocksOK
<1>3. ~inTurn
  BY <1>1, <1>2, NotInTurn
<1>4. UNCHANGED <<blocksShown, inTurn, answers>>
  BY <1>2 DEF blocksShown, inTurn, answers
<1>5. status = [a \in Appenders |-> status[a]]
  BY DEF LocksOK
<1>6. CASE UNCHANGED status
  BY <1>4, <1>6 DEF Unseen
<1>7. CASE status[t] = "UNSEEN" /\ status' = [status EXCEPT ![t] = "PENDING"]
  <2>1. status' = [a \in Appenders |-> IF a \in {t} THEN "PENDING" ELSE status[a]]
    BY <1>5, <1>7
  <2> QED
    BY <1>3, <1>4, <1>7, <2>1 DEF atomic!AppendTx, atomic!Decide, blocksShown, inTurn, answers, Readers
<1>8. CASE status[t] \in {"SUCCESS", "INVALID"} /\ status' = [status EXCEPT ![t] = "HANDLED"]
  <2>1. status' = [a \in Appenders |-> IF a \in {t} THEN "HANDLED" ELSE status[a]]
    BY <1>5, <1>8
  <2> QED
    BY <1>3, <1>4, <1>8, <2>1 DEF atomic!AppendTx, atomic!Decide, blocksShown, inTurn, answers, Readers
<1> QED
  BY <1>6, <1>7, <1>8 DEF Register, Poll, data

\* Every step of a thread is a step of the node, or none.
LEMMA StepAtomic ==
    ASSUME LocksOK, TipOK, WalletOK, [Next]_vars
    PROVE  atomic!Next \/ Unseen
<1>1. /\ pc \in [Thread -> Label] /\ local \in [Thread -> Nat]
      /\ chain \in Nat /\ utxo \in Nat
      /\ Readers \subseteq Thread /\ Miner \notin Readers
  BY Kinds, ThreadAssumption DEF LocksOK, Readers
<1>2. ASSUME NEW t \in Thread, Acquire(t) \/ Release(t) PROVE Unseen
  <2>1. PICK s \in LockAt \cup UnlockAt : Go(t, s[1], s[3]) /\ UNCHANGED data
    BY <1>2 DEF Acquire, Release
  <2>2. PICK from, to : from = s[1] /\ to = s[3]
    OBVIOUS
  <2>3. to \in InTurn <=> from \in InTurn
    BY <2>2, RowsInTurn
  <2>4. Go(t, from, to) /\ UNCHANGED <<utxo, status, local>>
    BY <2>1, <2>2 DEF data
  <2> QED
    BY <2>3, <2>4, UnseenSteps
<1>3. ASSUME NEW t \in Thread, Return(t) PROVE (\E r \in Readers : atomic!Leave(r)) \/ Unseen
  <2>1. /\ Go(t, "return", Entry(t)) /\ UNCHANGED <<chain, utxo, status>>
        /\ local' = [local EXCEPT ![t] = 0]
    BY <1>3 DEF Return
  <2>2. Entry(t) \notin InTurn
    BY DEF Entry, Thread, InTurn
  <2>3. CASE t \in Readers
    <3>1. answers' = [answers EXCEPT ![t] = 0]
      BY <1>1, <2>1, <2>3 DEF answers
    <3>2. UNCHANGED <<blocksShown, inTurn>>
      BY <1>1, <2>1, <2>3, Kinds DEF Go, blocksShown, inTurn
    <3>3. atomic!Leave(t)
      BY <2>1, <3>1, <3>2 DEF atomic!Leave, answers, blocksShown, inTurn, Readers
    <3> QED
      BY <2>3, <3>3
  <2>4. CASE t \notin Readers
    <3>1. \A r \in Readers : local'[r] = local[r]
      BY <1>1, <2>1, <2>4
    <3>2. t = Miner => (Entry(t) \in InTurn <=> "return" \in InTurn)
      BY <2>2 DEF InTurn
    <3> QED
      BY <2>1, <3>1, <3>2, UnseenSteps
  <2> QED
    BY <2>3, <2>4
<1>4. ASSUME NEW t \in Thread, Apply(t) PROVE atomic!Next
  BY <1>4, ApplyAtomic DEF atomic!Next
<1>5. ASSUME NEW t \in Thread, ApplyCoinbase(t) PROVE Unseen
  <2>1. /\ pc[t] = "applyCoinbase" /\ pc'[t] = "unlockUtxo"
        /\ \A u \in Thread \ {t} : pc'[u] = pc[u]
        /\ utxo' = utxo + 1 /\ UNCHANGED <<status, local>>
    BY <1>1, <1>5 DEF ApplyCoinbase, Go
  <2>2. utxo + 1 = 2 * chain /\ blocksShown = chain
    BY <2>1, Height
  <2>3. blocksShown' = blocksShown
    <3>1. utxo' + 1 = 2 * chain + 1
      BY <1>1, <2>1, <2>2
    <3> QED
      BY <1>1, <2>2, <3>1, Halves DEF blocksShown
  <2>4. inTurn' <=> inTurn
    BY <2>1, Kinds DEF inTurn, InTurn
  <2> QED
    BY <2>1, <2>3, <2>4 DEF Unseen, answers, inTurn
<1>6. CASE Select(Miner)
  <2>1. CASE /\ Go(Miner, "select", "lockTip")
             /\ \E S \in SUBSET Pending : status' = Marked(S, "INVALID")
             /\ UNCHANGED <<chain, utxo, local>>
    <3>1. ~inTurn /\ inTurn'
      BY <1>1, <2>1, Kinds DEF Go, inTurn, InTurn
    <3>2. UNCHANGED <<blocksShown, answers>>
      BY <2>1 DEF blocksShown, answers
    <3>3. atomic!Choose
      BY <2>1, <3>1, <3>2 DEF atomic!Choose, atomic!Decide, atomic!Pending, Pending, Marked,
         inTurn, blocksShown, answers, Readers
    <3> QED
      BY <3>3 DEF atomic!Next
  <2>2. CASE Go(Miner, "select", "unlock") /\ UNCHANGED data
    BY <2>2, UnseenSteps, Kinds DEF data, InTurn
  <2> QED
    BY <1>6, <2>1, <2>2 DEF Select
<1>7. CASE GrabTip(Miner)
  <2>1. \A r \in Readers : local'[r] = local[r]
    BY <1>1, <1>7 DEF GrabTip
  <2> QED
    BY <1>7, <2>1, UnseenSteps, Kinds DEF GrabTip, InTurn
<1>8. CASE GenerateBlock(Miner)
  BY <1>8, UnseenSteps, Kinds DEF GenerateBlock, data, InTurn
<1>9. CASE AppendBlock(Miner)
  <2>1. local[Miner] = chain
    BY <1>9 DEF AppendBlock, Go, TipOK, OnTip
  <2>2. Go(Miner, "append", "lockUtxo") /\ UNCHANGED <<utxo, status, local>>
    BY <1>9, <2>1 DEF AppendBlock
  <2> QED
    BY <2>2, UnseenSteps, Kinds DEF InTurn
<1>10. ASSUME NEW t \in Receivers, Receive(t) PROVE Unseen
  <2>1. /\ Go(t, "receive", "lockUtxo") \/ Go(t, "receive", "unlockChain")
        /\ UNCHANGED <<utxo, status, local>>
    BY <1>10 DEF Receive, data
  <2> QED
    BY <2>1, UnseenSteps, Kinds
<1>11. ASSUME NEW t \in Appenders, Register(t) \/ Poll(t) PROVE atomic!Next \/ Unseen
  BY <1>11, AppenderAtomic DEF atomic!Next
<1>12. ASSUME NEW t \in Appenders \cup Gossipers, Flood(t) \/ Gossip(t) PROVE Unseen
  <2>1. t \in Thread /\ t # Miner
    BY Kinds, ThreadAssumption
  <2>2. /\ Go(t, "flood", "flooded") \/ Go(t, "merge", "merged")
        /\ UNCHANGED <<utxo, status, local>>
    BY <1>12 DEF Flood, Gossip, data
  <2> QED
    BY <2>1, <2>2, UnseenSteps
<1>13. ASSUME NEW t \in Readers, GetBlockLog(t) \/ GetBlockchain(t) \/ GetUtxo(t)
       PROVE  atomic!Next
  <2>1. atomic!Show(t)
    BY <1>13, ReadAtomic
  <2> QED
    BY <2>1 DEF atomic!Next, Readers
<1>14. ASSUME \E r \in Readers : atomic!Leave(r) PROVE atomic!Next
  BY <1>14 DEF atomic!Next, Readers
<1>15. CASE UNCHANGED vars
  BY <1>15 DEF vars, data, Unseen, blocksShown, inTurn, answers
<1> QED
  BY <1>2, <1>3, <1>4, <1>5, <1>6, <1>7, <1>8, <1>9, <1>10, <1>11, <1>12, <1>13, <1>14, <1>15
     DEF Next, Readers

\* Stopped between any two lock operations, for any number of handlers, the threads
\* of a node look like one-step handlers (the locks of mine, SendBlock, AppendTx,
\* GetBlockLog, GetBlockchain in miner.go and GetUtxo in utxodb.go).
THEOREM Atomic == Spec => ImplementsAtomic
<1>1. Init => atomic!Init
  <2>1. SUFFICES ASSUME Init PROVE atomic!Init
    OBVIOUS
  <2>2. blocksShown = 1
    <3>1. utxo + 1 = 2 * 1 + 1
      BY <2>1 DEF Init
    <3> QED
      BY <3>1, Halves DEF blocksShown
  <2>3. ~inTurn
    BY <2>1, Kinds DEF Init, Entry, inTurn, InTurn
  <2>4. answers = [r \in Readers |-> 0]
    BY <2>1, Kinds DEF Init, answers, Readers
  <2> QED
    BY <2>1, <2>2, <2>3, <2>4 DEF Init, atomic!Init, blocksShown, inTurn, answers, Readers
<1>2. LocksOK /\ TipOK /\ WalletOK /\ [Next]_vars => [atomic!Next]_(atomic!vars)
  BY StepAtomic DEF atomic!vars, Unseen, blocksShown, inTurn, answers, Readers
<1> QED
  BY <1>1, <1>2, TipInvariant, WalletInvariant, LocksHeld, PTL
     DEF Spec, ImplementsAtomic, atomic!Spec
=============================================================================
