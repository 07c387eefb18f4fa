----------------------------- MODULE MinerLocks -----------------------------
(***************************************************************************)
(* The threads of one node and its four locks (node/miner.go,              *)
(* node/utxodb.go).  Miner treats mine, SendBlock and the reading handlers *)
(* as single steps; here they take and release the locks one at a time, a  *)
(* block is applied to the database of unspent outputs transaction by      *)
(* transaction, and the proof of work takes as long as it likes.           *)
(*                                                                         *)
(* The blockchain is its length; Utxo counts what was applied of it, two   *)
(* steps for every block: its transactions, its coinbase.                  *)
(***************************************************************************)
EXTENDS Naturals, FiniteSets

CONSTANTS
    Miner,      \* the goroutine of mine()
    Receivers,  \* handlers of SendBlock
    Appenders,  \* handlers of AppendTx, each for a transaction of its own
    Loggers,    \* handlers of GetBlockLog
    Viewers,    \* clients that call GetBlockchain and then GetUtxo
    Gossipers,  \* handlers of Gossip
    Nobody,     \* the owner of a lock that is free
    MaxLength   \* bound: the chain grows no longer

Thread == {Miner} \cup Receivers \cup Appenders \cup Loggers \cup Viewers \cup Gossipers
Lock == {"mu", "bcmu", "utxoMu", "peermu"}

ASSUME ThreadAssumption ==
    /\ Nobody \notin Thread
    /\ Miner \notin Receivers \cup Appenders \cup Loggers \cup Viewers \cup Gossipers
    /\ Receivers \cap (Appenders \cup Loggers \cup Viewers \cup Gossipers) = {}
    /\ Appenders \cap (Loggers \cup Viewers \cup Gossipers) = {}
    /\ Loggers \cap (Viewers \cup Gossipers) = {}
    /\ Viewers \cap Gossipers = {}
    /\ MaxLength \in Nat

VARIABLES
    pc,      \* where each thread is
    owner,   \* who holds each lock
    chain,   \* length of Blockchain
    utxo,    \* what was applied to Utxo
    status,  \* the entry of PendingTxs for the transaction of each appender
    local    \* what a thread remembers: mine() its tip, a reader how much of Utxo
             \* the answer it was given goes with

data == <<chain, utxo, status, local>>
vars == <<pc, owner, data>>

Entry(t) == CASE t = Miner        -> "mine"
              [] t \in Receivers  -> "SendBlock"
              [] t \in Appenders  -> "AppendTx"
              [] t \in Loggers    -> "GetBlockLog"
              [] t \in Viewers    -> "GetBlockchain"
              [] t \in Gossipers  -> "Gossip"

Init ==
    /\ pc = [t \in Thread |-> Entry(t)]
    /\ owner = [l \in Lock |-> Nobody]
    /\ chain = 1 /\ utxo = 2
    /\ status = [t \in Appenders |-> "UNSEEN"]
    /\ local = [t \in Thread |-> 0]
-----------------------------------------------------------------------------
(* Where the code locks and unlocks: the label, the lock, the next label. *)

LockTable(first, second) ==
    {<<"mine", "mu", "select">>, <<"lockTip", "bcmu", "tip">>, <<"relock", "bcmu", "append">>,
     <<"SendBlock", "mu", "lockChain">>, <<"lockChain", "bcmu", "receive">>,
     <<"lockUtxo", "utxoMu", "apply">>,
     <<"AppendTx", "mu", "register">>, <<"lockPeers", "peermu", "flood">>,
     <<"lockPoll", "mu", "poll">>,
     <<"GetBlockLog", "bcmu", "readLog">>,
     <<"GetBlockchain", first, "lockView">>, <<"lockView", second, "readChain">>,
     <<"GetUtxo", "utxoMu", "readUtxo">>,
     <<"Gossip", "peermu", "merge">>}

\* Faulty variant: GetBlockchain takes its two locks the other way round.
LockAtSwapped == LockTable("bcmu", "mu")

LockAt == LockTable("mu", "bcmu")

UnlockTable(applied) ==
    {<<"unlockTip", "bcmu", "work">>,
     <<"unlockUtxo", "utxoMu", applied>>, <<"unlockChain", "bcmu", "unlock">>,
     <<"unlock", "mu", "return">>,
     <<"registered", "mu", "lockPeers">>, <<"flooded", "peermu", "lockPoll">>,
     <<"polled", "mu", "lockPoll">>,
     <<"logRead", "bcmu", "return">>,
     <<"viewed", "bcmu", "unlockView">>, <<"unlockView", "mu", "GetUtxo">>,
     <<"walletRead", "utxoMu", "return">>,
     <<"merged", "peermu", "return">>}

\* Faulty variant: bcmu is not released by a handler that has applied a block.
UnlockAtLeaking == UnlockTable("unlock")

UnlockAt == UnlockTable("unlockChain")

Go(t, from, to) ==
    /\ pc[t] = from
    /\ pc' = [pc EXCEPT ![t] = to]

Acquire(t) ==
    \E s \in LockAt :
        /\ Go(t, s[1], s[3])
        /\ owner[s[2]] = Nobody
        /\ owner' = [owner EXCEPT ![s[2]] = t]
        /\ UNCHANGED data

Release(t) ==
    \E s \in UnlockAt :
        /\ Go(t, s[1], s[3])
        /\ owner' = [owner EXCEPT ![s[2]] = Nobody]
        /\ UNCHANGED data

\* The loop of mine() sleeps and comes round; a handler is called again.  What the
\* turn or the call remembered is gone.
Return(t) ==
    /\ Go(t, "return", Entry(t))
    /\ local' = [local EXCEPT ![t] = 0]
    /\ UNCHANGED <<owner, chain, utxo, status>>
-----------------------------------------------------------------------------
(* mine *)

Pending == {a \in Appenders : status[a] = "PENDING"}

Marked(S, new) == [a \in Appenders |-> IF a \in S THEN new ELSE status[a]]

\* The pending transactions are validated, if numPending says that there are
\* enough; it may be too high or too low (Miner), so either may be the case.
Select(t) ==
    \/ /\ chain < MaxLength
       /\ Go(t, "select", "lockTip")
       /\ \E invalid \in SUBSET Pending : status' = Marked(invalid, "INVALID")
       /\ UNCHANGED <<owner, chain, utxo, local>>
    \/ /\ Go(t, "select", "unlock")
       /\ UNCHANGED <<owner, data>>

GrabTip(t) ==
    /\ Go(t, "tip", "unlockTip")
    /\ local' = [local EXCEPT ![t] = chain]
    /\ UNCHANGED <<owner, chain, utxo, status>>

\* Faulty variant: mu is released during the proof of work as well.
GenerateBlockUnlocked(t) ==
    /\ Go(t, "work", "relock")
    /\ owner' = [owner EXCEPT !["mu"] = Nobody]
    /\ UNCHANGED data

GenerateBlock(t) ==
    /\ Go(t, "work", "relock")
    /\ UNCHANGED <<owner, data>>

\* The block is advertised and appended if it still extends the chain.
AppendBlock(t) ==
    LET extends == local[t] = chain IN
    /\ Go(t, "append", IF extends THEN "lockUtxo" ELSE "unlockChain")
    /\ chain' = IF extends THEN chain + 1 ELSE chain
    /\ UNCHANGED <<owner, utxo, status, local>>
-----------------------------------------------------------------------------
(* SendBlock *)

\* Faulty variant: the chain is unlocked before the database is brought up to it.
ReceiveUnlocking(t) ==
    /\ Go(t, "receive", "lockUtxo")
    /\ chain < MaxLength
    /\ chain' = chain + 1
    /\ owner' = [owner EXCEPT !["mu"] = Nobody, !["bcmu"] = Nobody]
    /\ UNCHANGED <<utxo, status, local>>

\* Every block is logged, and one that extends the chain is appended.  Any other one
\* leaves the chain alone: no side chain is ever kept to switch to (DRNode).
Receive(t) ==
    \/ /\ chain < MaxLength
       /\ Go(t, "receive", "lockUtxo")
       /\ chain' = chain + 1
       /\ UNCHANGED <<owner, utxo, status, local>>
    \/ /\ Go(t, "receive", "unlockChain")
       /\ UNCHANGED <<owner, data>>

\* Faulty variant: the coinbase is added after utxoMu is released.
ApplyUnlocking(t) ==
    /\ Go(t, "apply", "applyCoinbase")
    /\ utxo' = utxo + 1
    /\ owner' = [owner EXCEPT !["utxoMu"] = Nobody]
    /\ UNCHANGED <<chain, status, local>>

\* The end of mine() too: the transactions of the block enter the database.  Those
\* in PendingTxs have succeeded, in SendBlock even if they were found invalid here
\* or their handler has returned.
Apply(t) ==
    /\ Go(t, "apply", "applyCoinbase")
    /\ utxo' = utxo + 1
    /\ \E S \in IF t = Miner THEN {Pending} ELSE SUBSET {a \in Appenders : status[a] # "UNSEEN"} :
            status' = Marked(S, "SUCCESS")
    /\ UNCHANGED <<owner, chain, local>>

\* The coinbase is the last transaction of a block.
ApplyCoinbase(t) ==
    /\ Go(t, "applyCoinbase", "unlockUtxo")
    /\ utxo' = utxo + 1
    /\ UNCHANGED <<owner, chain, status, local>>
-----------------------------------------------------------------------------
(* AppendTx *)

\* Refused if it cannot be hashed or was seen before.
Register(t) ==
    \/ /\ status[t] = "UNSEEN"
       /\ Go(t, "register", "registered")
       /\ status' = [status EXCEPT ![t] = "PENDING"]
       /\ UNCHANGED <<owner, chain, utxo, local>>
    \/ /\ Go(t, "register", "unlock")
       /\ UNCHANGED <<owner, data>>

Flood(t) ==
    /\ Go(t, "flood", "flooded")
    /\ UNCHANGED <<owner, data>>

Poll(t) ==
    \/ /\ status[t] \in {"SUCCESS", "INVALID"}
       /\ Go(t, "poll", "unlock")
       /\ status' = [status EXCEPT ![t] = "HANDLED"]
       /\ UNCHANGED <<owner, chain, utxo, local>>
    \/ /\ status[t] \notin {"SUCCESS", "INVALID"}
       /\ Go(t, "poll", "polled")
       /\ UNCHANGED <<owner, data>>
-----------------------------------------------------------------------------
(* The handlers that read, and Gossip *)

GetBlockLog(t) ==
    /\ Go(t, "readLog", "logRead")
    /\ local' = [local EXCEPT ![t] = 2 * chain]
    /\ UNCHANGED <<owner, chain, utxo, status>>

GetBlockchain(t) ==
    /\ Go(t, "readChain", "viewed")
    /\ local' = [local EXCEPT ![t] = 2 * chain]
    /\ UNCHANGED <<owner, chain, utxo, status>>

GetUtxo(t) ==
    /\ Go(t, "readUtxo", "walletRead")
    /\ local' = [local EXCEPT ![t] = utxo]
    /\ UNCHANGED <<owner, chain, utxo, status>>

Gossip(t) ==
    /\ Go(t, "merge", "merged")
    /\ UNCHANGED <<owner, data>>

Next ==
    \/ \E t \in Thread : Acquire(t) \/ Release(t) \/ Return(t) \/ Apply(t) \/ ApplyCoinbase(t)
    \/ Select(Miner) \/ GrabTip(Miner) \/ GenerateBlock(Miner) \/ AppendBlock(Miner)
    \/ \E t \in Receivers : Receive(t)
    \/ \E t \in Appenders : Register(t) \/ Flood(t) \/ Poll(t)
    \/ \E t \in Loggers : GetBlockLog(t)
    \/ \E t \in Viewers : GetBlockchain(t) \/ GetUtxo(t)
    \/ \E t \in Gossipers : Gossip(t)

Spec == Init /\ [][Next]_vars
-----------------------------------------------------------------------------
(* Properties *)

\* The locks a thread holds at each label.
Held(label) ==
    CASE label \in {"mine", "SendBlock", "AppendTx", "GetBlockLog", "GetBlockchain", "Gossip",
                    "GetUtxo", "lockPeers", "lockPoll", "return"} -> {}
      [] label \in {"select", "lockTip", "work", "relock", "lockChain", "register", "registered",
                    "poll", "polled", "unlock", "lockView", "unlockView"} -> {"mu"}
      [] label \in {"tip", "unlockTip", "append", "receive", "lockUtxo", "unlockChain",
                    "readChain", "viewed"} -> {"mu", "bcmu"}
      [] label \in {"apply", "applyCoinbase", "unlockUtxo"} -> {"mu", "bcmu", "utxoMu"}
      [] label \in {"readLog", "logRead"} -> {"bcmu"}
      [] label \in {"readUtxo", "walletRead"} -> {"utxoMu"}
      [] label \in {"flood", "flooded", "merge", "merged"} -> {"peermu"}

Label ==
    {"mine", "SendBlock", "AppendTx", "GetBlockLog", "GetBlockchain", "Gossip", "GetUtxo",
     "lockPeers", "lockPoll", "return", "select", "lockTip", "work", "relock", "lockChain",
     "register", "registered", "poll", "polled", "unlock", "lockView", "unlockView", "tip",
     "unlockTip", "append", "receive", "lockUtxo", "unlockChain", "readChain", "viewed", "apply",
     "applyCoinbase", "unlockUtxo", "readLog", "logRead", "readUtxo", "walletRead", "flood",
     "flooded", "merge", "merged"}

\* Every thread is somewhere in its code, holds the locks that it took on the way
\* there and no others, and no lock has two owners.
LocksOK ==
    /\ pc \in [Thread -> Label]
    /\ owner \in [Lock -> Thread \cup {Nobody}]
    /\ chain \in Nat /\ utxo \in Nat
    /\ status \in [Appenders -> {"UNSEEN", "PENDING", "INVALID", "SUCCESS", "HANDLED"}]
    /\ local \in [Thread -> Nat]
    /\ \A t \in Thread, l \in Lock : owner[l] = t <=> l \in Held(pc[t])

\* The shared variables that the code at a label reads, and that it writes.
Reads(label) ==
    CASE label = "select" -> {"PendingTxs", "Utxo", "Blockchain"}
      [] label \in {"tip", "readChain"} -> {"Blockchain"}
      [] label = "append" -> {"Blockchain", "servers"}
      [] label = "receive" -> {"Blockchain", "Utxo"}
      [] label \in {"register", "flood", "merge"} -> {"servers"}
      [] label = "readLog" -> {"Log"}
      [] label = "readUtxo" -> {"Utxo"}
      [] OTHER -> {}

Writes(label) ==
    CASE label \in {"select", "register", "poll"} -> {"PendingTxs"}
      [] label \in {"append", "receive"} -> {"Blockchain", "Log"}
      [] label = "apply" -> {"Utxo", "PendingTxs"}
      [] label = "applyCoinbase" -> {"Utxo"}
      [] label = "merge" -> {"servers"}
      [] OTHER -> {}

Conflicts(a, b) == Writes(a) \cap (Reads(b) \cup Writes(b))

\* No two threads are at accesses of the same variable, one of them a write,
\* though handlers hold different locks for it: some read the log or the wallet
\* without mu, mine() reads the wallet and the chain with mu only.  The peer list
\* is the exception: of the four readers without peermu, mine() (719) and AppendTx
\* (614) are threads of this module (Torn in Miner), Kill (109) and GetPeerSize (188)
\* are not.
NoRace ==
    \A t, u \in Thread : t # u => Conflicts(pc[t], pc[u]) \subseteq {"servers"}

\* The tip that mine() works on is still the tip when it has found a block, for
\* all the blocks that arrive meanwhile: no work is thrown away.
TipStillNew == pc[Miner] = "append" => local[Miner] = chain

\* GetUtxo never sees a block half applied, and a client that saw a block in
\* GetBlockchain finds it in the wallet it asks for next.
WalletUpToDate ==
    \A t \in Viewers : pc[t] = "readUtxo" =>
        utxo % 2 = 0 /\ utxo >= local[t]

\* mine() between the choice of its transactions and the end of their confirmation.
InTurn == {"lockTip", "tip", "unlockTip", "work", "relock", "append", "lockUtxo", "apply"}

\* A block counts from the moment its first transaction is in Utxo.
atomic == INSTANCE AtomicNode WITH
    Readers <- Loggers \cup Viewers,
    height <- (utxo + 1) \div 2,
    mining <- pc[Miner] \in InTurn,
    shown <- [t \in Loggers \cup Viewers |-> local[t]]

\* Threads that stop between any two lock operations are seen by clients and peers
\* as one-step handlers: what Miner takes mine, SendBlock, AppendTx and the
\* handlers that read to be.
ImplementsAtomic == atomic!Spec

\* The thread waits for a lock somebody has.
Blocked(t) == \E s \in LockAt : pc[t] = s[1] /\ owner[s[2]] # Nobody

\* While any lock is held some holder can go on: the threads that hold locks and
\* wait for others never wait in a circle.
HoldersAdvance ==
    (\E l \in Lock : owner[l] # Nobody) =>
        \E l \in Lock : owner[l] # Nobody /\ ~Blocked(owner[l])

\* What a thread does without waiting for anybody.  mine() comes round by itself;
\* nothing makes a peer call again.
Run(t) ==
    \/ Release(t) \/ Apply(t) \/ ApplyCoinbase(t)
    \/ t = Miner /\ (Select(t) \/ GrabTip(t) \/ GenerateBlock(t) \/ AppendBlock(t) \/ Return(t))
    \/ t \in Receivers /\ Receive(t)
    \/ t \in Appenders /\ (Register(t) \/ Flood(t) \/ Poll(t))
    \/ t \in Loggers /\ GetBlockLog(t)
    \/ t \in Viewers /\ (GetBlockchain(t) \/ GetUtxo(t))
    \/ t \in Gossipers /\ Gossip(t)

\* The scheduler runs every goroutine, and a handler that waits for a lock, or
\* mine(), gets it some time, since every loop sleeps before it takes the lock
\* again.  The other handlers hold nothing while they wait and need not be lucky.
Fairness ==
    /\ \A t \in {Miner} \cup Receivers \cup Viewers : SF_vars(Acquire(t))
    /\ \A t \in Thread : WF_vars(Run(t))

FairSpec == Spec /\ Fairness

\* Every block and every query that a handler begins with is dealt with, however
\* long the proof of work takes, however many appenders poll for the same lock and
\* however often the log is asked for.
HandlersReturn ==
    \A t \in Receivers \cup Viewers : pc[t] # Entry(t) ~> pc[t] = "return"
=============================================================================
