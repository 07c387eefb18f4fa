------------------------------ MODULE MCMiner ------------------------------
(***************************************************************************)
(* Small instances of Miner: the transactions clerks submit and the nodes. *)
(***************************************************************************)
EXTENDS Miner, Graphs

CONSTANTS k1, k2, kx, m1, m2,           \* keys: users, other users, miners
          post, move, again, rival, spend,  \* transactions
          n1, n2, n3, n4                \* nodes

Input(prev, idx, k) == [prev |-> prev, idx |-> idx, key |-> k, sig |-> k]
Output(value, k) == [value |-> value, addr |-> PKHash(k)]
Tx(type, in, outs, parent) ==
    [type |-> type, ins |-> <<in>>, outs |-> outs, parent |-> parent,
     content |-> IF type \in {"POST", "COMMENT"} THEN "text" ELSE Nil]

\* post: k1 posts.  move and again both spend what post left to k1.  rival: k1
\* spends the output post spends.  spend: the miner m1 spends the reward of a block
\* of one transaction.
AllBodies ==
    [t \in {post, move, again, rival, spend} |->
        CASE t = post    -> Tx("POST", Input(GenesisTx, 1, k1), <<Output(99, k1)>>, Nil)
          [] t = move    -> Tx("TRANSFER", Input(post, 1, k1), <<Output(98, k2)>>, Nil)
          [] t = again   -> Tx("TRANSFER", Input(post, 1, k1), <<Output(97, k1)>>, Nil)
          [] t = rival   -> Tx("TRANSFER", Input(GenesisTx, 1, k1), <<Output(99, k2)>>, Nil)
          [] t = spend   -> Tx("TRANSFER", Input(CoinbaseHash(m1, TX_COINBASE + TX_FEE), 1, m1),
                               <<Output(100, m1)>>, Nil)]

MCBody == [t \in User |-> AllBodies[t]]
MCGenesisKeys == <<k1, k2>> \o [i \in 1..8 |-> kx]
MCMinerKey == [n \in Node |-> IF n = n1 THEN m1 ELSE m2]

\* Each node boots from the one before, as in TestGossip.
MCBoot == [n \in Node |-> CASE n = n1 -> <<>> [] n = n2 -> <<n1>>
                            [] n = n3 -> <<n2>> [] n = n4 -> <<n3>>]

\* Every node has joined and knows every other, and no clerk has called yet.
InitMeshed ==
    /\ blocks = <<GenerateGenesisBlock>>
    /\ node = [n \in Node |-> IF n = n1 THEN bootstrap ELSE [bootstrap EXCEPT !.Log = <<1, 1>>]]
    /\ phase = [n \in Node |-> "up"]
    /\ todo = [n \in Node |-> <<>>] /\ replay = [n \in Node |-> <<>>]
    /\ servers = [n \in Node |-> Node \ {n}]
    /\ closed = [n \in Node |-> {}]
    /\ blockMsgs = {} /\ txMsgs = {}
    /\ handler = [n \in Node |-> [t \in User |-> "none"]]

SpecMeshed == InitMeshed /\ [][Next]_vars
-----------------------------------------------------------------------------
(* Gossip under fairness *)

\* Every running node fires its gossip timer again and again and calls each of
\* its peers, and a call to a node that serves is handled; StartDRNode goes on
\* once it was called.
GossipFairness ==
    /\ \A c, k \in Node : WF_vars(Gossip(c, k))
    /\ \A n \in Node : WF_vars(Dial(n) \/ GetBlockLog(n) \/ replayLog(n) \/ Listen(n))

GossipSpec == Spec /\ GossipFairness

\* A chain of connections between running nodes leads from m to n, each made by
\* either of its ends.
Linked(m, n) ==
    LET linked == {e \in Node \X Node :
                     /\ Running(e[1]) /\ Running(e[2])
                     /\ e[1] \in servers[e[2]] \/ e[2] \in servers[e[1]]}
    IN  ConnectionsIn([node |-> Node, edge |-> linked])[m, n]

\* Nodes that are linked come to know each other directly, also when they were
\* started through different nodes and although the replies of gossip calls are
\* lost: unless nodes in between are killed or crash first.
GossipConnects ==
    \A m, n \in Node :
        m # n => (Linked(m, n) ~> (n \in servers[m] \/ ~Linked(m, n)))
-----------------------------------------------------------------------------
(* What comments of the code say of it, where the code does otherwise. *)

\* mine() is to "validate against the entire blockchain PLUS all transactions
\* currently in txNodes": no block spends an output twice.
BlockSpendsOnce == \A b \in 1..Len(blocks) : ~Conflict(b)

\* The number of blocks from the genesis block to each.
Heights ==
    LET height[b \in 1..Len(blocks)] == IF b = 1 THEN 1 ELSE height[blocks[b].prev] + 1
    IN  height

\* The blocks that n got after their parents, as its log has them.
Connected(n) ==
    FoldLeft(LAMBDA got, b : IF blocks[b].prev \in got THEN got \cup {b} ELSE got,
             {1}, node[n].Log)

\* When a block "has been added to the system", SendBlock is to "see if the main
\* chain has changed": no node has got a chain, each block of it after its parent,
\* that is longer than its main chain.
LongestChain ==
    \A n \in Node : Alive(n) =>
        \A b \in Connected(n) : Heights[b] <= Len(node[n].Blockchain)

\* mine() looks "if we have enough pending transactions to make a block": a node
\* that has them, and goes on running, makes one, so they stop waiting.
Waiting(n) == {t \in User : node[n].PendingTxs[t] = "PENDING"}
EnoughIsMined ==
    \A n \in Node :
        (Running(n) /\ Waiting(n) # {} /\ Cardinality(Waiting(n)) >= Threshold) ~>
            \/ Cardinality(Waiting(n)) < Threshold
            \/ ~Running(n)
            \/ Len(blocks) >= MaxBlocks

FairMeshed ==
    /\ SpecMeshed /\ Fairness
    /\ \A m \in Node \X Node \X User : WF_vars(m \in txMsgs /\ RecvTx(m))
    /\ \A m \in Node \X Node \X (1..MaxBlocks) : WF_vars(m \in blockMsgs /\ RecvBlock(m))
=============================================================================
