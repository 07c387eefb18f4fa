-------------------------------- MODULE Chain --------------------------------
(***************************************************************************)
(* What the network of nodes promises, without messages, logs, side chains *)
(* or statuses: a growing tree of blocks, and at each node a path from the *)
(* genesis block together with the database that path produces.  A node    *)
(* moves along the tree one valid block at a time and never back.          *)
(***************************************************************************)
EXTENDS Integers, Sequences

CONSTANTS
    Node,
    Genesis, GenesisDb,  \* the first block and the database after it
    Fits(_, _, _, _),    \* a block may follow this chain with this database
    After(_, _)          \* the database after one more block

VARIABLES
    blocks,     \* every block mined so far, named by its place
    chain,      \* the main chain of each node
    db          \* the unspent outputs of each node

vars == <<blocks, chain, db>>

Init ==
    /\ blocks = <<Genesis>>
    /\ chain = [n \in Node |-> <<1>>]
    /\ db = [n \in Node |-> GenesisDb]

\* Block b of bs becomes the last one of n.
Grow(n, bs, b) ==
    /\ Fits(bs, chain[n], db[n], bs[b])
    /\ chain' = [chain EXCEPT ![n] = Append(@, b)]
    /\ db' = [db EXCEPT ![n] = After(@, bs[b])]

\* A new block joins the tree and the chain of its miner ...
Mine(n) ==
    /\ Len(blocks') = Len(blocks) + 1
    /\ \A b \in 1..Len(blocks) : blocks'[b] = blocks[b]
    /\ Grow(n, blocks', Len(blocks'))

\* ... and later, by whatever way, those of other nodes.
Accept(n) ==
    /\ blocks' = blocks
    /\ \E b \in 1..Len(blocks) : Grow(n, blocks, b)

Next == \E n \in Node : Mine(n) \/ Accept(n)

Spec == Init /\ [][Next]_vars
=============================================================================
