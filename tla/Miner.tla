-------------------------------- MODULE Miner --------------------------------
(***************************************************************************)
(* A network of dreddit nodes (node/miner.go): start-up with the replay of *)
(* a peer's block log, AppendTx with its flooding and its polling loop,    *)
(* mining, delivery of blocks, gossip between nodes and Kill.              *)
(*                                                                         *)
(* Every call to a peer runs in a goroutine of its own, so calls are       *)
(* delivered in any order, or never when their sender or receiver is gone. *)
(***************************************************************************)
EXTENDS DRNode

CONSTANTS
    Node,       \* nodes; a node is its port
    MinerKey,   \* the key whose address is the node's pubHash
    Boot,       \* the servers argument of StartDRNode, for each node
    Threshold,  \* BLOCK_SIZE_THRESHOLD
    Killable,   \* the nodes that the environment may kill, or whose process may end
    ClerkPorts, \* the servers arguments of MakeClerk, as sets of nodes
    MaxBlocks   \* bound: mining stops when so many blocks exist

ASSUME NodeAssumption ==
    /\ MinerKey \in [Node -> Key]
    /\ Boot \in [Node -> Seq(Node)]
    /\ ClerkPorts \subseteq SUBSET Node
    /\ Threshold \in Int
    /\ MaxBlocks \in Nat

VARIABLES
    blocks,     \* every block mined so far; its place here is its hash
    node,       \* the state of each node
    phase,      \* how far StartDRNode is, or whether Kill was called
    todo,       \* the servers StartDRNode has still to dial
    replay,     \* the rest of the log that replayLog goes through
    servers,    \* the peers each node has dialled, its list ports
    closed,     \* those to which Kill closed the connection
    blockMsgs,  \* SendBlock calls <<from, to, block>> not yet handled
    txMsgs,     \* AppendTx calls <<from, to, tx>> between nodes
    handler     \* where the AppendTx handler of a transaction is at a node

vars == <<blocks, node, phase, todo, replay, servers, closed, blockMsgs, txMsgs, handler>>

Init ==
    /\ blocks = <<GenerateGenesisBlock>>
    /\ node = [n \in Node |-> bootstrap]
    /\ phase = [n \in Node |-> "off"]
    /\ todo = [n \in Node |-> <<>>]
    /\ replay = [n \in Node |-> <<>>]
    /\ servers = [n \in Node |-> {}]
    /\ closed = [n \in Node |-> {}]
    /\ blockMsgs = {}
    /\ txMsgs = {}
    /\ handler = [n \in Node |-> [t \in User |-> "none"]]

\* A panic ends the process; Kill ends mining and gossip and closes the outgoing
\* connections, but calls on incoming ones that exist are still served, and a
\* Gossip call among them makes the node dial again.
Alive(n) == phase[n] # "off" /\ ~node[n].panicked
Running(n) == phase[n] = "up" /\ ~node[n].panicked
Serving(n) == phase[n] \in {"up", "killed"} /\ ~node[n].panicked
-----------------------------------------------------------------------------
(* StartDRNode *)

StartDRNode(n) ==
    /\ phase[n] = "off"
    /\ node' = [node EXCEPT ![n] = bootstrap]
    /\ phase' = [phase EXCEPT ![n] = "dial"]
    /\ todo' = [todo EXCEPT ![n] = Boot[n]]
    /\ UNCHANGED <<blocks, replay, servers, closed, blockMsgs, txMsgs, handler>>

\* Faulty variant: the server is taken off the list before it is asked.
DialPopping(n) ==
    /\ phase[n] = "dial" /\ Alive(n)
    /\ replay[n] = <<>> /\ todo[n] # <<>>
    /\ LET s == Head(todo[n])
       IN  IF Running(s)
           THEN /\ servers' = [servers EXCEPT ![n] = @ \cup {s}]
                /\ phase' = [phase EXCEPT ![n] =
                                IF Len(node[n].Blockchain) = 1 THEN "fetch" ELSE @]
           ELSE UNCHANGED <<servers, phase>>
    /\ todo' = [todo EXCEPT ![n] = Tail(@)]
    /\ UNCHANGED <<blocks, node, replay, closed, blockMsgs, txMsgs, handler>>

\* While the chain is the genesis block, each server that answers is asked for
\* its log.
Dial(n) ==
    /\ phase[n] = "dial" /\ Alive(n)
    /\ replay[n] = <<>> /\ todo[n] # <<>>
    /\ LET s == Head(todo[n])
           asks == Len(node[n].Blockchain) = 1
       IN  IF Running(s)
           THEN /\ servers' = [servers EXCEPT ![n] = @ \cup {s}]
                /\ phase' = [phase EXCEPT ![n] = IF asks THEN "fetch" ELSE @]
                /\ todo' = [todo EXCEPT ![n] = IF asks THEN @ ELSE Tail(@)]
           ELSE /\ todo' = [todo EXCEPT ![n] = Tail(@)]
                /\ UNCHANGED <<servers, phase>>
    /\ UNCHANGED <<blocks, node, replay, closed, blockMsgs, txMsgs, handler>>

\* The call fails if the server crashed since it was dialled.
GetBlockLog(n) ==
    /\ phase[n] = "fetch"
    /\ LET s == Head(todo[n])
       IN  IF Serving(s)
           THEN /\ node' = [node EXCEPT ![n].Log = node[s].Log]
                /\ replay' = [replay EXCEPT ![n] = node[s].Log]
           ELSE UNCHANGED <<node, replay>>
    /\ todo' = [todo EXCEPT ![n] = Tail(@)]
    /\ phase' = [phase EXCEPT ![n] = "dial"]
    /\ UNCHANGED <<blocks, servers, closed, blockMsgs, txMsgs, handler>>

\* replayLog handles the log it was given, block by block; SendBlock appends
\* each of them to the log once more.
replayLog(n) ==
    /\ replay[n] # <<>> /\ Alive(n)
    /\ node' = [node EXCEPT ![n] = SendBlock(blocks, @, Head(replay[n]))]
    /\ replay' = [replay EXCEPT ![n] = Tail(@)]
    /\ UNCHANGED <<blocks, phase, todo, servers, closed, blockMsgs, txMsgs, handler>>

\* net.Listen, after which peers and clerks can reach the node.
Listen(n) ==
    /\ phase[n] = "dial" /\ Alive(n)
    /\ replay[n] = <<>> /\ todo[n] = <<>>
    /\ phase' = [phase EXCEPT ![n] = "up"]
    /\ UNCHANGED <<blocks, node, todo, replay, servers, closed, blockMsgs, txMsgs, handler>>

Kill(n) ==
    /\ n \in Killable
    /\ Running(n)
    /\ phase' = [phase EXCEPT ![n] = "killed"]
    /\ closed' = [closed EXCEPT ![n] = servers[n]]
    /\ UNCHANGED <<blocks, node, todo, replay, servers, blockMsgs, txMsgs, handler>>

\* The process ends, at any moment: what clerks and StartDRNode are ready for
\* when they go on to the next server after an error.
Crash(n) ==
    /\ n \in Killable
    /\ Alive(n)
    /\ node' = [node EXCEPT ![n].panicked = TRUE]
    /\ UNCHANGED <<blocks, phase, todo, replay, servers, closed, blockMsgs, txMsgs, handler>>
-----------------------------------------------------------------------------
(* Gossip *)

\* Faulty variant: the port of the caller is not among the peers it sends.
NewPeersNoCaller(c, k) ==
    IF Running(c) /\ k \in servers[c]
    THEN {p \in servers[c] \ (servers[k] \cup {k}) : Running(p)}
    ELSE {}

\* The peers merge would dial at k on a Gossip call from c, whose reply c drops
\* (its channel is never made).
NewPeers(c, k) ==
    IF Running(c) /\ k \in servers[c]
    THEN {p \in (servers[c] \cup {c}) \ (servers[k] \cup {k}) : Running(p)}
    ELSE {}

Gossip(c, k) ==
    /\ Serving(k)
    /\ NewPeers(c, k) # {}
    /\ servers' = [servers EXCEPT ![k] = @ \cup NewPeers(c, k)]
    /\ UNCHANGED <<blocks, node, phase, todo, replay, closed, blockMsgs, txMsgs, handler>>

\* A clerk gossips too, with its list ps and a port "-1" nobody listens on.
ClerkPeers(ps, k) == {p \in ps \ (servers[k] \cup {k}) : Running(p)}

ClerkGossip(ps, k) ==
    /\ Serving(k)
    /\ ClerkPeers(ps, k) # {}
    /\ servers' = [servers EXCEPT ![k] = @ \cup ClerkPeers(ps, k)]
    /\ UNCHANGED <<blocks, node, phase, todo, replay, closed, blockMsgs, txMsgs, handler>>

\* AppendTx and mine() read the peer list without peermu: while merge grows it
\* they may see a slice whose new element is not there yet, and crash on it.
Torn(n) ==
    IF \/ \E c \in Node : NewPeers(c, n) # {}
       \/ \E ps \in ClerkPorts : n \in ps /\ ClerkPeers(ps, n) # {}
    THEN BOOLEAN ELSE {FALSE}
-----------------------------------------------------------------------------
(* AppendTx *)

\* Faulty variant: a transaction that was not mined may be tried again.
AppendTxRetrying(n, t) ==
    IF node[n].PendingTxs[t] \notin {"PENDING", "SUCCESS"} /\ validateComponents(Body[t])
    THEN /\ node' = [node EXCEPT ![n].PendingTxs[t] = "PENDING", ![n].numPending = @ + 1]
         /\ handler' = [handler EXCEPT ![n][t] = "flood"]
    ELSE UNCHANGED <<node, handler>>

\* The section under mu.  A transaction that was seen before, or is malformed,
\* is answered with false at once and changes nothing.
AppendTx(n, t) ==
    IF node[n].PendingTxs[t] = "UNSEEN" /\ validateComponents(Body[t])
    THEN /\ \E torn \in Torn(n) :
              node' = [node EXCEPT ![n].PendingTxs[t] = "PENDING",
                                   ![n].numPending = @ + 1,
                                   ![n].panicked = torn]
         /\ handler' = [handler EXCEPT ![n][t] = "flood"]
    ELSE UNCHANGED <<node, handler>>

\* A clerk calls a node.
Submit(n, t) ==
    /\ Serving(n)
    /\ node[n].PendingTxs[t] = "UNSEEN" /\ validateComponents(Body[t])
    /\ AppendTx(n, t)
    /\ UNCHANGED <<blocks, phase, todo, replay, servers, closed, blockMsgs, txMsgs>>

\* A peer that floods calls a node.
RecvTx(m) ==
    /\ Serving(m[2])
    /\ AppendTx(m[2], m[3])
    /\ txMsgs' = txMsgs \ {m}
    /\ UNCHANGED <<blocks, phase, todo, replay, servers, closed, blockMsgs>>

Flood(n, t) ==
    /\ Serving(n) /\ handler[n][t] = "flood"
    /\ txMsgs' = txMsgs \cup {<<n, s, t>> : s \in servers[n] \ closed[n]}
    /\ handler' = [handler EXCEPT ![n][t] = "poll"]
    /\ UNCHANGED <<blocks, node, phase, todo, replay, servers, closed, blockMsgs>>

\* Faulty variant: the loop looks for success only.
PollSuccessOnly(n, t) ==
    /\ Serving(n) /\ handler[n][t] = "poll"
    /\ node[n].PendingTxs[t] = "SUCCESS"
    /\ handler' = [handler EXCEPT ![n][t] = "true"]
    /\ node' = [node EXCEPT ![n].PendingTxs[t] = "HANDLED"]
    /\ UNCHANGED <<blocks, phase, todo, replay, servers, closed, blockMsgs, txMsgs>>

\* The turn of the polling loop that finds an outcome; handler is then the
\* reply's Success.
Poll(n, t) ==
    /\ Serving(n) /\ handler[n][t] = "poll"
    /\ node[n].PendingTxs[t] \in {"SUCCESS", "INVALID"}
    /\ handler' = [handler EXCEPT ![n][t] =
                     IF node[n].PendingTxs[t] = "SUCCESS" THEN "true" ELSE "false"]
    /\ node' = [node EXCEPT ![n].PendingTxs[t] = "HANDLED"]
    /\ UNCHANGED <<blocks, phase, todo, replay, servers, closed, blockMsgs, txMsgs>>
-----------------------------------------------------------------------------
(* Blocks *)

\* mine() finds enough transactions.
CanMine(n) ==
    /\ Running(n)
    /\ Len(blocks) < MaxBlocks
    /\ node[n].numPending >= Threshold

\* A turn of mine().  The map PendingTxs is ranged over in any order.
Mine(n) ==
    /\ CanMine(n)
    /\ \E txs \in SetToSeqs(selected(blocks, node[n])), torn \in Torn(n) :
          LET b == Len(blocks) + 1
              bs == Append(blocks, GenerateBlock(tip(node[n]), txs, MinerKey[n]))
              mined == mine(bs, node[n], b)
          IN  /\ blocks' = bs
              /\ node' = [node EXCEPT ![n] = [mined EXCEPT !.panicked = @ \/ torn]]
              /\ blockMsgs' = blockMsgs \cup {<<n, s, b>> : s \in servers[n]}
    /\ UNCHANGED <<phase, todo, replay, servers, closed, txMsgs, handler>>

RecvBlock(m) ==
    /\ Serving(m[2])
    /\ node' = [node EXCEPT ![m[2]] = SendBlock(blocks, @, m[3])]
    /\ blockMsgs' = blockMsgs \ {m}
    /\ UNCHANGED <<blocks, phase, todo, replay, servers, closed, txMsgs, handler>>

\* What the nodes do, and what becomes of them.
NodesNext ==
    \/ \E n \in Node : \/ StartDRNode(n) \/ Dial(n) \/ GetBlockLog(n)
                       \/ replayLog(n) \/ Listen(n) \/ Kill(n) \/ Crash(n) \/ Mine(n)
    \/ \E c, k \in Node : Gossip(c, k)
    \/ \E n \in Node, t \in User : Flood(n, t) \/ Poll(n, t)
    \/ \E m \in txMsgs : RecvTx(m)
    \/ \E m \in blockMsgs : RecvBlock(m)

\* What clerks ask of them.  A clerk knows those of its servers that answered
\* when it was made.
ClerksNext ==
    \/ \E n \in Node, t \in User : Submit(n, t)
    \/ \E S \in ClerkPorts : \E ps \in SUBSET S : \E k \in ps : ClerkGossip(ps, k)

Next == NodesNext \/ ClerksNext

Spec == Init /\ [][Next]_vars
-----------------------------------------------------------------------------
(* Properties *)

\* A node that refers to the first len blocks only.
IsNode(st, len) ==
    /\ st = [Blockchain |-> st.Blockchain, SideChains |-> st.SideChains,
             OrphanChains |-> st.OrphanChains, tree |-> st.tree, Log |-> st.Log,
             Utxo |-> st.Utxo, PendingTxs |-> st.PendingTxs,
             numPending |-> st.numPending, panicked |-> st.panicked]
    /\ st.Blockchain \in Seq(1..len) /\ st.Blockchain # <<>>
    /\ st.Log \in Seq(1..len)
    /\ st.PendingTxs \in [User -> Status]
    /\ st.numPending \in Int
    /\ st.panicked \in BOOLEAN

\* A block at place b, after its parent.
IsBlock(block, b) ==
    /\ block = Block(block.prev, block.txs)
    /\ block.prev \in 0..(b - 1)
    /\ block.txs \in Seq(TxHash)

BlocksOK ==
    /\ Len(blocks) \in Nat /\ blocks = [b \in 1..Len(blocks) |-> blocks[b]]
    /\ \A b \in 1..Len(blocks) : IsBlock(blocks[b], b)

NodesOK ==
    /\ node = [n \in Node |-> node[n]]
    /\ \A n \in Node : IsNode(node[n], Len(blocks))

NetworkOK ==
    /\ phase \in [Node -> {"off", "dial", "fetch", "up", "killed"}]
    /\ todo \in [Node -> Seq(Node)]
    /\ \A n \in Node : phase[n] = "fetch" => todo[n] # <<>>
    /\ replay \in [Node -> Seq(1..Len(blocks))]
    /\ servers \in [Node -> SUBSET Node]
    /\ closed \in [Node -> SUBSET Node]
    /\ blockMsgs \subseteq Node \X Node \X (1..Len(blocks))
    /\ txMsgs \subseteq Node \X Node \X User
    /\ handler \in [Node -> [User -> {"none", "flood", "poll", "true", "false"}]]

\* The shape of the state: the header of a block belongs to its transactions and
\* its parent is older, every block a node, a log or a call refers to has been
\* mined, and a node that waits for a log knows whose.
TypeOK == BlocksOK /\ NodesOK /\ NetworkOK

\* Two nodes with the same last block have the same chain and the same database
\* of unspent outputs, whichever of mine, SendBlock and replayLog brought each
\* block in and whatever else the node received in between.
TipDeterminesLedger ==
    \A m, n \in Node :
        (Alive(m) /\ Alive(n) /\ tip(node[m]) = tip(node[n])) =>
            /\ node[m].Blockchain = node[n].Blockchain
            /\ node[m].Utxo = node[n].Utxo

\* A block on its way to a node whose chain it extends passes ValidateBlock and
\* validateBlockTxs there: what mine() checks suffices for SendBlock.
ExtendingBlockAccepted ==
    \A m \in blockMsgs :
        (Alive(m[2]) /\ blocks[m[3]].prev = tip(node[m[2]])) =>
            /\ ValidateBlock(blocks[m[3]])
            /\ validateBlockTxs(blocks, node[m[2]], blocks[m[3]])

\* A node reports success, or is about to, only for a transaction that is on its
\* main chain.
SuccessOnChain ==
    \A n \in Node : \A t \in User :
        (node[n].PendingTxs[t] = "SUCCESS" \/ handler[n][t] = "true") =>
            t \in TxsOf(blocks, node[n].Blockchain)

\* What a node has decided of a transaction stands: sent again by a clerk or a
\* peer it is neither pending nor answered anew, though its inputs may have arrived
\* since it was rejected.  Only a block changes a decision, to success.
DecisionStands ==
    [][\A n \in Node, t \in User :
          node[n].PendingTxs[t] \in {"INVALID", "SUCCESS", "HANDLED"} =>
             /\ node'[n].PendingTxs[t] \in {node[n].PendingTxs[t], "SUCCESS", "HANDLED"}
             /\ handler[n][t] \in {"true", "false"} => handler'[n][t] = handler[n][t]]_vars

\* What a transaction of block b spends.
Outpoints(b) ==
    UNION {{<<i.prev, i.idx>> : i \in ToSet(Contents(h).ins)} : h \in ToSet(blocks[b].txs)}

\* Block b spends an output twice: two of its inputs name one.
Conflict(b) ==
    LET ins(p) == Contents(blocks[b].txs[p]).ins
        places == UNION {{<<p, i>> : i \in DOMAIN ins(p)} : p \in DOMAIN blocks[b].txs}
    IN  \E x, y \in places :
            /\ x # y
            /\ ins(x[1])[x[2]].prev = ins(y[1])[y[2]].prev
            /\ ins(x[1])[x[2]].idx = ins(y[1])[y[2]].idx

\* What a block of a main chain spends no later block spends again, unless the
\* transaction that made the output was put on the chain again in between (two
\* coinbases of one miner are the same transaction when their blocks have the same
\* length).  It says nothing of two transactions of one block: those the code lets
\* spend one output together (see BlockSpendsOnce in MCMiner).
NeverSpentLater ==
    \A n \in Node : LET chain == node[n].Blockchain IN
        \A i, j \in DOMAIN chain :
            i < j => \A o \in Outpoints(chain[i]) \cap Outpoints(chain[j]) :
                        \E k \in i..(j - 1) : o[1] \in ToSet(blocks[chain[k]].txs)

\* updateUtxoDb finds no entry, and ends the process, only for a block that spends
\* an output twice: no other run of blocks, rejections and repeated coinbases
\* leaves the database behind what was validated.  It is about a node without
\* peers that nothing else ends.
PanicsOnConflict ==
    \A n \in Node : node[n].panicked => Conflict(tip(node[n]))

\* The database is "derived from the blockchain" (utxodb.go): a wallet is what the
\* main chain paid to the key and spent nowhere, through blocks mined, received
\* and replayed.  The exception are coinbases that are on the chain twice, of which
\* the database has one entry.
WalletFromChain ==
    \A n \in Node : Alive(n) =>
        LET chain == node[n].Blockchain
            places == UNION {{<<i, p, blocks[chain[i]].txs[p]>> : p \in DOMAIN blocks[chain[i]].txs} :
                             i \in DOMAIN chain}
            txs == {a[3] : a \in places}
            once == {a[3] : a \in {b \in places : \A c \in places : c[3] = b[3] => c = b}}
            spent == UNION {Outpoints(b) : b \in ToSet(chain)}
            paid(k) == UNION {{[prev |-> h, idx |-> i, value |-> Contents(h).outs[i].value] :
                                 i \in {j \in DOMAIN Contents(h).outs :
                                           /\ Contents(h).outs[j].addr = PKHash(k)
                                           /\ <<h, j>> \notin spent}} : h \in once}
        IN  \A k \in Key : LET wallet == GetUnspentTxs(node[n].Utxo, PKHash(k)) IN
               /\ {u \in wallet : u.prev \in once} = paid(k)
               /\ \A u \in wallet : u.prev \in txs

\* A block passes the validations of a node with this chain and database.
Fits(bs, chain, db, block) ==
    LET at == [Blockchain |-> chain, Utxo |-> db]
    IN  block.prev = tip(at) /\ ValidateBlock(block) /\ validateBlockTxs(bs, at, block)

After(db, block) == updateAll(db, block.txs).db

ledger == INSTANCE Chain WITH
    Genesis <- GenerateGenesisBlock, GenesisDb <- GenesisUtxo,
    chain <- [n \in Node |-> node[n].Blockchain],
    db <- [n \in Node |-> node[n].Utxo]

\* Mining, delivery in any order, replay, gossip, crashes and Kill together
\* implement the append-only ledger of Chain.
ImplementsChain == ledger!Spec

\* The fairness of one node on its own: the goroutines mine() and those of the
\* AppendTx handlers loop with a sleep and are always scheduled again, and every
\* lock they wait for is released.
Fairness ==
    \A n \in Node :
        /\ []<>~CanMine(n) \/ []<><<Mine(n)>>_vars
        /\ \A t \in User : WF_vars(Flood(n, t)) /\ WF_vars(Poll(n, t))

FairSpec == Spec /\ Fairness

\* Every call of AppendTx that is not refused at once is answered, for a node
\* without peers and a threshold of one: unless the node panics or is killed, or
\* the bound on mining is reached while the transaction waits.
Answered ==
    \A n \in Node : \A t \in User :
        handler[n][t] = "flood" ~>
            \/ handler[n][t] \in {"true", "false"}
            \/ ~Running(n)
            \/ Len(blocks) >= MaxBlocks /\ node[n].PendingTxs[t] = "PENDING"

\* Every transaction that waits at a node is counted in numPending.  It holds for
\* a node without peers; a block of a peer is subtracted whether or not its
\* transactions were waiting here.
PendingCounted ==
    \A n \in Node : Alive(n) =>
        node[n].numPending >= Cardinality({t \in User : node[n].PendingTxs[t] = "PENDING"})
=============================================================================
