------------------------------ MODULE MCClerk ------------------------------
(***************************************************************************)
(* Small instances of Clerk.  The hash of a transaction is the tuple of    *)
(* the fields that are packed into it; User is every transaction that some *)
(* sequence of operations can build.                                       *)
(***************************************************************************)
EXTENDS Clerk

CONSTANTS k1, k2, kx, m1,  \* keys: two users, the other users, a miner
          n1, n2,          \* nodes
          c1, c2,          \* clerks
          Depth            \* bound: operations that build on each other

Hash(tx) == <<tx.outs, tx.type, tx.content, tx.parent, tx.ins>>

Op(type, value, dest, parent) ==
    [type |-> type, value |-> value, dest |-> dest, parent |-> parent, bad |-> FALSE,
     content |-> IF type \in {"POST", "COMMENT"} THEN "text" ELSE Nil]
Bad(op) == [op EXCEPT !.bad = TRUE]

Post == Op("POST", 0, Nil, Nil)
Transfer(value, dest) == Op("TRANSFER", value, dest, Nil)
Comment(parent) == Op("COMMENT", 0, Nil, parent)
Upvote(parent, dest) == Op("UPVOTE", 0, dest, parent)

\* The first transaction of k1, if it is a post.
FirstPost == Hash(Build(k1, Post, <<[prev |-> GenesisTx, idx |-> 1, value |-> GenesisValue]>>))

MCGenesisKeys == <<k1, k2>> \o [i \in 1..8 |-> kx]
MCMinerKey == [n \in Node |-> m1]
MCBoot == [n \in Node |-> IF n = n2 THEN <<n1>> ELSE <<>>]

MCClerkKey == [c \in Clerk |-> IF c = c1 THEN k1 ELSE k2]
AllServers == [c \in Clerk |-> IF n2 \in Node THEN <<n1, n2>> ELSE <<n1>>]
MCClerkPorts == {ToSet(Servers[c]) : c \in Clerk}

\* What one user may try at a node of his own, and what the node must refuse.
OwnOps == [c \in Clerk |->
    {Post, Comment(FirstPost), Upvote(FirstPost, PKHash(k1)), Transfer(95, PKHash(k2)),
     Transfer(99, PKHash(k1)), Upvote(FirstPost, PKHash(k2))}]

PostOnly == [c \in Clerk |-> {Post}]

\* A post, and operations that fail before and after a node sees them.
FewOps == [c \in Clerk |->
    {Post, Transfer(0, PKHash(k2)), Bad(Upvote(FirstPost, PKHash(k1)))}]

\* Every node was started alone; the clerks are made now and their gossip
\* introduces the nodes to each other.
InitApart ==
    /\ blocks = <<GenerateGenesisBlock>>
    /\ node = [n \in Node |-> bootstrap]
    /\ phase = [n \in Node |-> "up"]
    /\ todo = [n \in Node |-> <<>>] /\ replay = [n \in Node |-> <<>>]
    /\ servers = [n \in Node |-> {}]
    /\ closed = [n \in Node |-> {}]
    /\ blockMsgs = {} /\ txMsgs = {}
    /\ handler = [n \in Node |-> [t \in User |-> "none"]]
    /\ clerk = [c \in Clerk |-> InitClerk(c)]

SpecApart == InitApart /\ [][ClerkNext]_cvars
-----------------------------------------------------------------------------
(* User and Body.  The money a chain can leave to the clerks is a set of    *)
(* outputs; each operation on it makes transactions and another such set.   *)

Coin(prev, idx, out) == [prev |-> prev, idx |-> idx, value |-> out.value, addr |-> out.addr]
GenesisCoins ==
    {Coin(GenesisTx, i, [value |-> GenesisValue, addr |-> PKHash(MCGenesisKeys[i])]) :
        i \in DOMAIN MCGenesisKeys}

Wallet(coins, k) ==
    {[prev |-> u.prev, idx |-> u.idx, value |-> u.value] :
        u \in {v \in coins : v.addr = PKHash(k)}}

BuiltFrom(coins) ==
    UNION {UNION {{Build(ClerkKey[c], op, utxos) :
                      utxos \in SetToSeqs(Wallet(coins, ClerkKey[c])) \ {<<>>}} :
                  op \in Ops[c]} : c \in Clerk} \ {Nil}

Spending(coins, tx) ==
    {u \in coins : \A i \in DOMAIN tx.ins : <<u.prev, u.idx>> # <<tx.ins[i].prev, tx.ins[i].idx>>}
    \cup {Coin(Hash(tx), i, tx.outs[i]) : i \in DOMAIN tx.outs}

Reached[d \in 0..Depth] ==
    IF d = 0 THEN {GenesisCoins}
    ELSE Reached[d - 1] \cup
         UNION {{Spending(coins, tx) : tx \in {b \in BuiltFrom(coins) :
                                   /\ validateComponents(b) /\ ValidateStructure(b)
                                   /\ outputSum(b) <= Len(MCGenesisKeys) * GenesisValue}} :
                coins \in Reached[d - 1]}

\* The labels keep TLC from counting the evaluations of these two everywhere.
MCTxs == UNION {BuiltFrom(coins) : coins \in Reached[Depth - 1]}
MCUser == hashes:: {Hash(tx) : tx \in MCTxs}
MCBody == bodies:: [h \in MCUser |-> [type |-> h[2], ins |-> h[5], outs |-> h[1], parent |-> h[4],
                                      content |-> h[3]]]
-----------------------------------------------------------------------------
(* What comments of the code say of it, where the code does otherwise. *)

\* Success in the reply of AppendTx is "whether or not the request was successful"
\* (node/miner.go): after false the transaction is on no main chain.
FalseMeansOffChain ==
    \A c \in Clerk : clerk[c].answer = "false" =>
        \A n \in Node : Sent(c) \cap TxsOf(blocks, node[n].Blockchain) = {}
=============================================================================
