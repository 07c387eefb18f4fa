----------------------------- MODULE AtomicNode -----------------------------
(***************************************************************************)
(* A node as Miner and its clients take it to be, without threads, locks   *)
(* or half-done work: a block is on the chain and in the database at once, *)
(* a handler is one step, and only a turn of mine() takes time, during     *)
(* which the node shows what it has but takes in and decides nothing.      *)
(***************************************************************************)
EXTENDS Naturals

CONSTANTS
    Appenders,  \* the transactions, one for each handler of AppendTx
    Readers     \* calls that ask for the log, the chain or a wallet

VARIABLES
    height,  \* length of the chain
    status,  \* what the node has decided of each transaction
    mining,  \* whether a turn of mine() has chosen its transactions
    shown    \* the answer each reader holds: two entries for each block

vars == <<height, status, mining, shown>>

Init ==
    /\ height = 1
    /\ status = [t \in Appenders |-> "UNSEEN"]
    /\ mining = FALSE
    /\ shown = [r \in Readers |-> 0]

Decide(S, new) == status' = [t \in Appenders |-> IF t \in S THEN new ELSE status[t]]

Pending == {t \in Appenders : status[t] = "PENDING"}

\* The miner rejects some transactions; the others ...
Choose ==
    /\ ~mining /\ mining' = TRUE
    /\ \E S \in SUBSET Pending : Decide(S, "INVALID")
    /\ UNCHANGED <<height, shown>>

\* ... are the ones in its block, which is never too late for the chain.
Mine ==
    /\ mining /\ mining' = FALSE
    /\ height' = height + 1
    /\ Decide(Pending, "SUCCESS")
    /\ UNCHANGED shown

\* A block of a peer confirms any of the transactions that were seen.
SendBlock ==
    /\ ~mining
    /\ height' = height + 1
    /\ \E S \in SUBSET {t \in Appenders : status[t] # "UNSEEN"} : Decide(S, "SUCCESS")
    /\ UNCHANGED <<mining, shown>>

AppendTx(t) ==
    /\ ~mining
    /\ \/ status[t] = "UNSEEN" /\ Decide({t}, "PENDING")
       \/ status[t] \in {"SUCCESS", "INVALID"} /\ Decide({t}, "HANDLED")
    /\ UNCHANGED <<height, mining, shown>>

\* The log, the chain and the wallets all go up to the same block.
Show(r) ==
    /\ shown' = [shown EXCEPT ![r] = 2 * height]
    /\ UNCHANGED <<height, status, mining>>

\* The client is done with the answer.
Leave(r) ==
    /\ shown' = [shown EXCEPT ![r] = 0]
    /\ UNCHANGED <<height, status, mining>>

Next ==
    \/ Choose \/ Mine \/ SendBlock
    \/ \E t \in Appenders : AppendTx(t)
    \/ \E r \in Readers : Show(r) \/ Leave(r)

Spec == Init /\ [][Next]_vars
=============================================================================
