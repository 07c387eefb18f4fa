---------------------------- MODULE LedgerProofs ----------------------------
(***************************************************************************)
(* What the main chain of a node and its database say of each other, for   *)
(* any nodes, transactions, keys and bounds.                               *)
(***************************************************************************)
EXTENDS MinerProofs

\* A step that leaves the chain and the database of a node alone; no panic is
\* recovered from.
Idle(st, new) ==
    /\ new.Blockchain = st.Blockchain /\ new.Utxo = st.Utxo
    /\ st.panicked => new.panicked
    /\ \A t \in User : new.PendingTxs[t] = "SUCCESS" => st.PendingTxs[t] = "SUCCESS"

\* A step that makes b, which passes both validations, the tip of a node; the
\* node panics when the update of its database does.
Accepts(bs, st, new, b) ==
    /\ bs[b].prev = tip(st)
    /\ ~st.panicked
    /\ new.panicked \/ updateAll(st.Utxo, bs[b].txs).ok
    /\ ValidateBlock(bs[b]) /\ validateBlockTxs(bs, st, bs[b])
    /\ new.Blockchain = Append(st.Blockchain, b)
    /\ new.Utxo = updateAll(st.Utxo, bs[b].txs).db
    /\ \A t \in User : new.PendingTxs[t] = "SUCCESS" =>
                         st.PendingTxs[t] = "SUCCESS" \/ t \in ToSet(bs[b].txs)
-----------------------------------------------------------------------------
(* SendBlock and mine. *)

\* The fields of a record of a node.
LEMMA RecFields ==
    ASSUME NEW chain, NEW log, NEW utxo, NEW status, NEW num, NEW panicked
    PROVE  LET st == Rec(chain, log, utxo, status, num, panicked)
           IN  /\ st.Blockchain = chain /\ st.Log = log /\ st.Utxo = utxo
               /\ st.PendingTxs = status /\ st.numPending = num /\ st.panicked = panicked
BY DEF Rec

\* The ledger and the successes of a node that accepted a block.
LEMMA ExtendedFields ==
    ASSUME NEW st, NEW log, NEW status, NEW b, NEW txs, NEW new,
           new = Extended(st, log, status, b, txs)
    PROVE  /\ new.Blockchain = Append(st.Blockchain, b)
           /\ new.Utxo = updateAll(st.Utxo, txs).db
           /\ new.panicked = ~updateAll(st.Utxo, txs).ok
           /\ \A t \in User : new.PendingTxs[t] = "SUCCESS" =>
                                status[t] = "SUCCESS" \/ t \in ToSet(txs)
<1>1. /\ new.Blockchain = Append(st.Blockchain, b)
      /\ new.Utxo = updateAll(st.Utxo, txs).db
      /\ new.panicked = ~updateAll(st.Utxo, txs).ok
      /\ new.PendingTxs = Confirmed(status, txs)
  BY DEF Extended, Rec
<1> QED
  BY <1>1 DEF Confirmed

\* SendBlock leaves the ledger alone or accepts its block.
LEMMA SendBlockChange ==
    ASSUME NEW bs, NEW st, NEW b, Plain(st), ~st.panicked
    PROVE  LET new == SendBlock(bs, st, b) IN Idle(st, new) \/ Accepts(bs, st, new, b)
<1> DEFINE log == Append(st.Log, b)
<1>1. PICK new : new = SendBlock(bs, st, b)
  OBVIOUS
<1>2. CASE new = Rec(st.Blockchain, log, st.Utxo, st.PendingTxs, st.numPending, st.panicked)
  <2>1. new.Blockchain = st.Blockchain /\ new.Utxo = st.Utxo /\ new.PendingTxs = st.PendingTxs
    BY <1>2, RecFields
  <2> QED
    BY <1>1, <2>1 DEF Idle
<1>3. CASE /\ bs[b].prev = tip(st)
           /\ ValidateBlock(bs[b]) /\ validateBlockTxs(bs, st, bs[b])
           /\ new = Extended(st, log, st.PendingTxs, b, bs[b].txs)
  <2>1. PICK txs, status : txs = bs[b].txs /\ status = st.PendingTxs
    OBVIOUS
  <2>2. /\ new.Blockchain = Append(st.Blockchain, b)
        /\ new.Utxo = updateAll(st.Utxo, txs).db
        /\ new.panicked = ~updateAll(st.Utxo, txs).ok
        /\ \A t \in User : new.PendingTxs[t] = "SUCCESS" =>
                             status[t] = "SUCCESS" \/ t \in ToSet(txs)
    BY <1>3, <2>1, ExtendedFields
  <2> QED
    BY <1>1, <1>3, <2>1, <2>2 DEF Accepts
<1> QED
  BY <1>1, <1>2, <1>3, SendBlockCases

\* Blocks mined later do not change the transactions of a chain.
LEMMA TxsOfLater ==
    ASSUME NEW len \in Nat, NEW bs, NEW more, \A i \in 1..len : more[i] = bs[i],
           NEW chain \in Seq(1..len)
    PROVE  TxsOf(more, chain) = TxsOf(bs, chain)
<1>1. \A i \in DOMAIN chain : chain[i] \in 1..len
  OBVIOUS
<1>2. \A i \in DOMAIN chain : more[chain[i]] = bs[chain[i]]
  BY <1>1
<1> QED
  BY <1>2 DEF TxsOf

\* What mine() checks suffices for SendBlock: the block of a miner passes both
\* validations at its own node.
LEMMA MinedBlockValid ==
    ASSUME NEW bs, NEW st, NEW k \in Key, NEW txs \in SetToSeqs(selected(bs, st)),
           NEW block, block = GenerateBlock(tip(st), txs, k)
    PROVE  ValidateBlock(block) /\ validateBlockTxs(bs, st, block)
<1> DEFINE cb == MakeCoinbaseTx(txs, k)
           all == Append(txs, cb)
           c == Contents(cb)
<1>1. selected(bs, st) \in SUBSET User
  BY DEF selected
<1>2. txs \in Seq(selected(bs, st)) /\ Len(txs) \in Nat /\ Len(txs) <= Cardinality(User)
  BY <1>1, SelectedSeq
<1>3. /\ CoinbaseValue(Len(txs)) = TX_COINBASE + Len(txs) * TX_FEE
      /\ cb = <<PKHash(k), CoinbaseValue(Len(txs))>>
      /\ cb \notin User /\ cb # GenesisTx
  BY <1>2, CoinbaseOf
<1>4. c = [type |-> "COINBASE", ins |-> <<>>, parent |-> Nil, content |-> Nil,
           outs |-> <<[value |-> CoinbaseValue(Len(txs)), addr |-> PKHash(k)]>>]
  <2>1. cb[1] = PKHash(k) /\ cb[2] = CoinbaseValue(Len(txs))
    BY <1>3
  <2> HIDE DEF cb
  <2> QED
    BY <1>3, <2>1, Zenon DEF Contents
<1>5. /\ block.txs = all /\ block.bits = DIFFICULTY
      /\ block.root = BuildMerkleTreeStore(all)
  BY DEF GenerateBlock, Block
<1> HIDE DEF cb
<1>6. /\ Len(all) = Len(txs) + 1 /\ all[Len(all)] = cb /\ all # <<>>
      /\ DOMAIN all = 1..(Len(txs) + 1)
      /\ \A i \in 1..Len(txs) : all[i] \in selected(bs, st)
  <2>1. PICK S : S = selected(bs, st)
    OBVIOUS
  <2>2. txs \in Seq(S)
    BY <1>2, <2>1
  <2>3. /\ Len(all) = Len(txs) + 1 /\ all[Len(all)] = cb
        /\ DOMAIN all = 1..(Len(txs) + 1)
        /\ \A i \in 1..Len(txs) : all[i] \in S
    BY <2>2
  <2>4. Len(all) # Len(<<>>)
    BY <1>2, <2>3
  <2>5. all # <<>>
    BY <2>4, Zenon
  <2> QED
    BY <2>1, <2>3, <2>5
<1> HIDE DEF all
<1>7. \A h \in selected(bs, st) :
        Contents(h).type # "COINBASE" /\ ValidateStructure(Contents(h)) /\ validTx(bs, st, h)
  <2> SUFFICES ASSUME NEW h \in selected(bs, st)
               PROVE  Contents(h).type # "COINBASE" /\ ValidateStructure(Contents(h))
                      /\ validTx(bs, st, h)
    OBVIOUS
  <2>1. h \in User /\ validTx(bs, st, h)
    BY DEF selected
  <2>2. Contents(h).type # "COINBASE"
    BY <2>1, BodyAssumption DEF Contents
  <2>3. ValidateStructure(Contents(h))
    BY <2>1 DEF validTx, validateTransaction
  <2> QED
    BY <2>1, <2>2, <2>3
<1>8. c.type = "COINBASE" /\ c.ins = <<>> /\ Len(c.outs) = 1 /\ c.parent = Nil /\ c.content = Nil
      /\ c.outs[1].value = CoinbaseValue(Len(txs))
  BY <1>4
<1> HIDE DEF c
<1>9. ValidateBlock(block)
  <2>1. VerifyCoinbaseTx(Contents(all[Len(all)]))
    BY <1>6, <1>8 DEF VerifyCoinbaseTx, c
  <2>2. \A i \in 1..(Len(all) - 1) : Contents(all[i]).type # "COINBASE"
    BY <1>2, <1>6, <1>7
  <2> QED
    BY <1>5, <1>6, <2>1, <2>2 DEF ValidateBlock
<1>10. validateBlockTxs(bs, st, block)
  <2> SUFFICES ASSUME NEW i \in DOMAIN all
               PROVE  IF Contents(all[i]).type # "COINBASE"
                      THEN ValidateStructure(Contents(all[i])) /\ validTx(bs, st, all[i])
                      ELSE Contents(all[i]).outs[1].value = CoinbaseValue(Len(all) - 1)
    BY <1>5 DEF validateBlockTxs
  <2>1. CASE i \in 1..Len(txs)
    BY <1>6, <1>7, <2>1
  <2>2. CASE i = Len(txs) + 1
    <3>1. Contents(all[i]) = c /\ Len(all) - 1 = Len(txs)
      BY <1>2, <1>6, <2>2 DEF c
    <3> QED
      BY <1>8, <3>1
  <2> QED
    BY <1>2, <1>6, <2>1, <2>2
<1> QED
  BY <1>9, <1>10

\* validateBlockTxs looks at the chain and the database only.
LEMMA ValidAlike ==
    ASSUME NEW bs, NEW more, NEW st, NEW other, NEW block,
           other.Blockchain = st.Blockchain, other.Utxo = st.Utxo,
           TxsOf(more, st.Blockchain) = TxsOf(bs, st.Blockchain),
           validateBlockTxs(bs, st, block)
    PROVE  validateBlockTxs(more, other, block)
<1>1. \A h : validTx(more, other, h) <=> validTx(bs, st, h)
  BY DEF validTx
<1> QED
  BY <1>1, Zenon DEF validateBlockTxs
-----------------------------------------------------------------------------
(* The steps of the network, as changes of one node. *)

\* A node that was not started has no state yet.
Fresh == \A n \in Node : phase[n] = "off" => node[n] = bootstrap

\* Every node is idle, except for one that may accept a block that exists.
Moves ==
    /\ blocks' = blocks
    /\ \/ \A n \in Node : Idle(node[n], node'[n])
       \/ \E n \in Node :
             /\ \A m \in Node \ {n} : Idle(node[m], node'[m])
             /\ \E b \in 1..Len(blocks) : Accepts(blocks, node[n], node'[n], b)

\* The block of a miner joins the blocks and its own chain.
Mines(n) ==
    /\ \A m \in Node \ {n} : node'[m] = node[m]
    /\ Len(blocks') = Len(blocks) + 1
    /\ \A i \in 1..Len(blocks) : blocks'[i] = blocks[i]
    /\ Accepts(blocks', node[n], node'[n], Len(blocks) + 1)
    /\ handler' = handler

\* A node rebuilt with its own chain and database is idle.
LEMMA IdleRec ==
    ASSUME NEW st, NEW status, NEW log, NEW num, NEW panicked, NEW new,
           new = Rec(st.Blockchain, log, st.Utxo, status, num, panicked),
           st.panicked => panicked,
           \A t \in User : status[t] = "SUCCESS" => st.PendingTxs[t] = "SUCCESS"
    PROVE  Idle(st, new)
BY DEF Idle, Rec

\* A turn of mine() adds one block, valid at the node of its miner.
LEMMA MineMines ==
    ASSUME Shape, NEW n \in Node, Mine(n)
    PROVE  Mines(n)
<1> DEFINE st == node[n]
           b == Len(blocks) + 1
<1>1. BlocksOK /\ NodesOK /\ ForkStoresEmpty
  BY DEF Shape, TypeOK
<1>2. PICK txs \in Seq(User), torn \in BOOLEAN :
         LET all == Append(txs, MakeCoinbaseTx(txs, MinerKey[n]))
             new == Extended(st, Append(st.Log, b), Sifted(blocks', st), b, all)
         IN  /\ txs \in SetToSeqs(selected(blocks, st))
             /\ blocks' = Append(blocks, Block(tip(st), all))
             /\ node' = [node EXCEPT ![n] = [new EXCEPT !.panicked = @ \/ torn]]
             /\ handler' = handler
  BY <1>1, MineStep
<1> DEFINE all == Append(txs, MakeCoinbaseTx(txs, MinerKey[n]))
           block == Block(tip(st), all)
           log == Append(st.Log, b)
           new == Extended(st, log, Sifted(blocks', st), b, all)
<1>3. /\ Len(blocks') = b /\ blocks'[b] = block
      /\ \A i \in 1..Len(blocks) : blocks'[i] = blocks[i]
  <2>1. blocks \in Seq({blocks[i] : i \in 1..Len(blocks)}) /\ blocks' = Append(blocks, block)
    BY <1>1, <1>2 DEF BlocksOK
  <2> HIDE DEF block
  <2> QED
    BY <2>1
<1>4. ValidateBlock(block) /\ validateBlockTxs(blocks, st, block)
  <2>1. MinerKey[n] \in Key
    BY NodeAssumption
  <2>2. block = GenerateBlock(tip(st), txs, MinerKey[n])
    BY DEF GenerateBlock
  <2> HIDE DEF block, st
  <2> QED
    BY <1>2, <2>1, <2>2, MinedBlockValid
<1>5. validateBlockTxs(blocks', st, block)
  <2>1. st.Blockchain \in Seq(1..Len(blocks)) /\ Len(blocks) \in Nat
    BY <1>1 DEF NodesOK, IsNode, BlocksOK
  <2>2. TxsOf(blocks', st.Blockchain) = TxsOf(blocks, st.Blockchain)
    <3>1. PICK len, bs, more, chain : /\ len = Len(blocks) /\ bs = blocks /\ more = blocks'
                                      /\ chain = st.Blockchain
      OBVIOUS
    <3>2. len \in Nat /\ chain \in Seq(1..len) /\ \A i \in 1..len : more[i] = bs[i]
      BY <1>3, <2>1, <3>1
    <3>3. TxsOf(more, chain) = TxsOf(bs, chain)
      BY ONLY <3>2, TxsOfLater
    <3> QED
      BY <3>1, <3>3
  <2> HIDE DEF block, st
  <2> QED
    BY <1>4, <2>2, ValidAlike
<1>6. block.prev = tip(st) /\ block.txs = all
  BY DEF Block
<1> HIDE DEF all, block
<1>7. /\ new.Blockchain = Append(st.Blockchain, b)
      /\ new.Utxo = updateAll(st.Utxo, all).db
      /\ new.panicked = ~updateAll(st.Utxo, all).ok
      /\ \A t \in User : new.PendingTxs[t] = "SUCCESS" =>
                           Sifted(blocks', st)[t] = "SUCCESS" \/ t \in ToSet(all)
  BY ExtendedFields
<1>8. \A t \in User : Sifted(blocks', st)[t] = "SUCCESS" => st.PendingTxs[t] = "SUCCESS"
  BY DEF Sifted
<1> HIDE DEF new
<1>9. /\ \A m \in Node \ {n} : node'[m] = node[m]
      /\ node'[n] = [new EXCEPT !.panicked = @ \/ torn]
  BY <1>1, <1>2 DEF NodesOK, new, all
<1>10. /\ node'[n].Blockchain = new.Blockchain /\ node'[n].Utxo = new.Utxo
       /\ node'[n].PendingTxs = new.PendingTxs
       /\ new.panicked => node'[n].panicked
  <2>1. new = Rec(new.Blockchain, new.Log, new.Utxo, new.PendingTxs, new.numPending, new.panicked)
    BY DEF new, Extended, Rec
  <2> QED
    BY <1>9, <2>1 DEF Rec
<1>11. Accepts(blocks', st, node'[n], b)
  <2>1. ~st.panicked
    BY DEF Mine, CanMine, Running
  <2> QED
    BY <1>3, <1>4, <1>5, <1>6, <1>7, <1>8, <1>10, <2>1 DEF Accepts
<1> QED
  BY <1>2, <1>3, <1>9, <1>11 DEF Mines

\* The answer "true" is given to a transaction whose status was a success.
Answers ==
    \A n \in Node : \A t \in User :
        handler'[n][t] = "true" => handler[n][t] = "true" \/ node[n].PendingTxs[t] = "SUCCESS"

\* A step that changes one node and nothing of what AppendTx handlers answer.
LEMMA OneMoves ==
    ASSUME Shape, NEW n \in Node, NEW new, node' = [node EXCEPT ![n] = new], blocks' = blocks,
           \/ Idle(node[n], new)
           \/ \E b \in 1..Len(blocks) : Accepts(blocks, node[n], new, b)
    PROVE  Moves
<1>1. node = [m \in Node |-> node[m]]
  BY DEF Shape, TypeOK, NodesOK
<1>2. node'[n] = new /\ \A m \in Node \ {n} : node'[m] = node[m]
  BY <1>1
<1>3. \A m \in Node : Idle(node[m], node[m])
  BY DEF Idle
<1> QED
  BY <1>2, <1>3 DEF Moves

\* A step that changes no node.
LEMMA StillMoves ==
    ASSUME UNCHANGED <<blocks, node>>
    PROVE  Moves
BY DEF Moves, Idle

\* AppendTx leaves the ledger alone and answers nothing.
LEMMA AppendTxMoves ==
    ASSUME Shape, NEW n \in Node, NEW t \in User, AppendTx(n, t), blocks' = blocks,
           ~node[n].panicked
    PROVE  Moves /\ Answers
<1> DEFINE st == node[n]
           status == [st.PendingTxs EXCEPT ![t] = "PENDING"]
<1>1. /\ Plain(st) /\ st.PendingTxs \in [User -> Status] /\ node = [m \in Node |-> node[m]]
      /\ handler \in [Node -> [User -> {"none", "flood", "poll", "true", "false"}]]
  BY GoodIsPlain DEF Shape, TypeOK, BlocksOK, NodesOK, NetworkOK, ForkStoresEmpty, Good, IsNode
<1>2. CASE UNCHANGED <<node, handler>>
  BY <1>2, StillMoves DEF Answers
<1>3. CASE /\ handler' = [handler EXCEPT ![n][t] = "flood"]
           /\ \E torn \in BOOLEAN :
                node' = [node EXCEPT ![n] =
                           Rec(st.Blockchain, st.Log, st.Utxo, status, st.numPending + 1, torn)]
  <2>1. PICK new :
          /\ node' = [node EXCEPT ![n] = new]
          /\ \E torn \in BOOLEAN :
                new = Rec(st.Blockchain, st.Log, st.Utxo, status, st.numPending + 1, torn)
    BY <1>3
  <2>2. \A u \in User : status[u] = "SUCCESS" => st.PendingTxs[u] = "SUCCESS"
    BY <1>1
  <2>3. Idle(st, new)
    <3>1. PICK torn :
            new = Rec(st.Blockchain, st.Log, st.Utxo, status, st.numPending + 1, torn)
      BY <2>1
    <3>2. ~st.panicked
      OBVIOUS
    <3> HIDE DEF st, status
    <3> QED
      BY <2>2, <3>1, <3>2, IdleRec
  <2>4. Moves
    BY <2>1, <2>3, OneMoves
  <2>5. Answers
    BY <1>1, <1>3 DEF Answers
  <2> QED
    BY <2>4, <2>5
<1> QED
  BY <1>1, <1>2, <1>3, AppendTxCases

\* Every step mines a block or moves along blocks that exist.
LEMMA StepMoves ==
    ASSUME Shape, Fresh, [Next]_vars
    PROVE  ((\E n \in Node : Mines(n)) \/ Moves) /\ Answers
<1>1. /\ \A n \in Node : Plain(node[n]) /\ node[n].PendingTxs \in [User -> Status]
      /\ node = [m \in Node |-> node[m]] /\ NetworkOK
  BY GoodIsPlain DEF Shape, TypeOK, BlocksOK, NodesOK, ForkStoresEmpty, Good, IsNode
<1>2. handler' = handler => Answers
  BY DEF Answers
<1>3. ASSUME NEW n \in Node, StartDRNode(n) PROVE Moves /\ Answers
  <2>1. Idle(node[n], bootstrap)
    BY <1>3 DEF StartDRNode, Fresh, Idle
  <2> QED
    BY <1>2, <1>3, <2>1, OneMoves DEF StartDRNode
<1>4. ASSUME NEW n \in Node, Dial(n) \/ Listen(n) \/ Kill(n) PROVE Moves /\ Answers
  BY <1>2, <1>4, StillMoves DEF Dial, Listen, Kill
<1>5. ASSUME NEW n \in Node, GetBlockLog(n) PROVE Moves /\ Answers
  <2> DEFINE s == Head(todo[n])
             st == node[n]
  <2>1. CASE node' = node
    BY <1>2, <1>5, <2>1, StillMoves DEF GetBlockLog
  <2>2. CASE node' = [node EXCEPT ![n].Log = node[s].Log]
    <3>1. PICK new, log : new = [st EXCEPT !.Log = log] /\ log = node[s].Log
      OBVIOUS
    <3>2. node' = [node EXCEPT ![n] = new]
      BY <2>2, <3>1
    <3>3. new = Rec(st.Blockchain, log, st.Utxo, st.PendingTxs, st.numPending, st.panicked)
      BY <1>1, <3>1, SetLog
    <3>4. Idle(st, new)
      BY <3>3, IdleRec
    <3> QED
      BY <1>2, <1>5, <3>2, <3>4, OneMoves DEF GetBlockLog
  <2> QED
    BY <1>5, <2>1, <2>2 DEF GetBlockLog
<1>6. ASSUME NEW n \in Node, NEW b \in 1..Len(blocks), UNCHANGED <<blocks, handler>>,
             node' = [node EXCEPT ![n] = SendBlock(blocks, node[n], b)], ~node[n].panicked
      PROVE  Moves /\ Answers
  <2>1. PICK new : new = SendBlock(blocks, node[n], b)
    OBVIOUS
  <2>2. Idle(node[n], new) \/ Accepts(blocks, node[n], new, b)
    BY <1>1, <1>6, <2>1, SendBlockChange
  <2> QED
    BY <1>2, <1>6, <2>1, <2>2, OneMoves
<1>7. ASSUME NEW n \in Node, replayLog(n) PROVE Moves /\ Answers
  <2>1. replay[n] \in Seq(1..Len(blocks)) /\ replay[n] # <<>>
    BY <1>1, <1>7 DEF replayLog, NetworkOK
  <2>2. Head(replay[n]) \in 1..Len(blocks)
    BY <2>1, HeadTail
  <2> QED
    BY <1>6, <1>7, <2>2 DEF replayLog, Alive
<1>8. ASSUME NEW m \in blockMsgs, RecvBlock(m) PROVE Moves /\ Answers
  <2>1. m[2] \in Node /\ m[3] \in 1..Len(blocks)
    BY <1>1 DEF NetworkOK
  <2> QED
    BY <1>6, <1>8, <2>1 DEF RecvBlock, Serving
<1>9. ASSUME NEW c \in Node, NEW k \in Node, Gossip(c, k) PROVE Moves /\ Answers
  BY <1>2, <1>9, StillMoves DEF Gossip
<1>16. ASSUME NEW S \in ClerkPorts, NEW ps \in SUBSET S, NEW k \in ps, ClerkGossip(ps, k)
       PROVE  Moves /\ Answers
  BY <1>2, <1>16, StillMoves DEF ClerkGossip
<1>17. ASSUME NEW n \in Node, Crash(n) PROVE Moves /\ Answers
  <2> DEFINE st == node[n]
  <2>1. PICK new : new = [st EXCEPT !.panicked = TRUE]
    OBVIOUS
  <2>2. node' = [node EXCEPT ![n] = new] /\ blocks' = blocks
    BY <1>17, <2>1 DEF Crash
  <2>3. new = Rec(st.Blockchain, st.Log, st.Utxo, st.PendingTxs, st.numPending, TRUE)
    BY <1>1, <2>1, SetPanicked
  <2>4. Idle(st, new)
    <3> HIDE DEF st
    <3> QED
      BY <2>3, IdleRec
  <2>5. Answers
    BY <1>2, <1>17 DEF Crash
  <2> QED
    BY <2>2, <2>4, <2>5, OneMoves
<1>10. ASSUME NEW n \in Node, NEW t \in User, Submit(n, t) PROVE Moves /\ Answers
  BY <1>10, AppendTxMoves DEF Submit, Serving
<1>11. ASSUME NEW m \in txMsgs, RecvTx(m) PROVE Moves /\ Answers
  <2>1. m[2] \in Node /\ m[3] \in User
    BY <1>1 DEF NetworkOK
  <2> QED
    BY <1>11, <2>1, AppendTxMoves DEF RecvTx, Serving
<1>12. ASSUME NEW n \in Node, NEW t \in User, Flood(n, t) PROVE Moves /\ Answers
  <2>1. Answers
    BY <1>1, <1>12 DEF Flood, NetworkOK, Answers
  <2> QED
    BY <1>12, <2>1, StillMoves DEF Flood
<1>13. ASSUME NEW n \in Node, NEW t \in User, Poll(n, t) PROVE Moves /\ Answers
  <2> DEFINE st == node[n]
             status == [st.PendingTxs EXCEPT ![t] = "HANDLED"]
  <2>1. PICK new : new = [st EXCEPT !.PendingTxs = status]
    OBVIOUS
  <2>2. node' = [node EXCEPT ![n] = new] /\ blocks' = blocks
    BY <1>13, <2>1 DEF Poll
  <2>3. new = Rec(st.Blockchain, st.Log, st.Utxo, status, st.numPending, st.panicked)
    BY <1>1, <2>1, SetStatus
  <2>4. \A u \in User : status[u] = "SUCCESS" => st.PendingTxs[u] = "SUCCESS"
    BY <1>1
  <2>5. Idle(st, new)
    <3> HIDE DEF st, status
    <3> QED
      BY <2>3, <2>4, IdleRec
  <2>6. Answers
    <3>1. handler' = [handler EXCEPT ![n][t] =
                        IF st.PendingTxs[t] = "SUCCESS" THEN "true" ELSE "false"]
      BY <1>13 DEF Poll
    <3>2. handler \in [Node -> [User -> {"none", "flood", "poll", "true", "false"}]]
      BY <1>1 DEF NetworkOK
    <3> QED
      BY <3>1, <3>2 DEF Answers
  <2> QED
    BY <2>2, <2>5, <2>6, OneMoves
<1>14. ASSUME NEW n \in Node, Mine(n) PROVE Mines(n) /\ Answers
  BY <1>2, <1>14, MineMines DEF Mines
<1>15. CASE UNCHANGED vars
  BY <1>2, <1>15, StillMoves DEF vars
<1> QED
  BY <1>3, <1>4, <1>5, <1>7, <1>8, <1>9, <1>10, <1>11, <1>12, <1>13, <1>14, <1>15,
     <1>16, <1>17 DEF Next, NodesNext, ClerksNext

\* Nothing reaches a node before StartDRNode.
LEMMA FreshStep ==
    ASSUME Shape, Fresh, [Next]_vars
    PROVE  Fresh'
<1> SUFFICES ASSUME NEW n \in Node, phase'[n] = "off"
             PROVE  phase[n] = "off" /\ node'[n] = node[n]
  BY DEF Fresh
<1>1. phase = [m \in Node |-> phase[m]] /\ node = [m \in Node |-> node[m]]
  BY DEF Shape, TypeOK, NodesOK, NetworkOK
<1>2. txMsgs \subseteq Node \X Node \X User /\ blockMsgs \subseteq Node \X Node \X (1..Len(blocks))
  BY DEF Shape, TypeOK, NetworkOK
<1>3. ASSUME NEW m \in Node, StartDRNode(m) \/ Dial(m) \/ GetBlockLog(m) \/ replayLog(m)
             \/ Listen(m) \/ Kill(m) \/ Crash(m)
      PROVE  phase[n] = "off" /\ node'[n] = node[n]
  BY <1>1, <1>3 DEF StartDRNode, Dial, GetBlockLog, replayLog, Listen, Kill, Crash, Alive, Running
<1>4. ASSUME NEW m \in Node, Mine(m) PROVE phase[n] = "off" /\ node'[n] = node[n]
  <2>1. Mines(m) /\ Running(m) /\ phase' = phase
    BY <1>4, MineMines DEF Mine, CanMine
  <2> QED
    BY <2>1 DEF Mines, Running
<1>5. ASSUME NEW m \in Node, NEW t \in User, AppendTx(m, t), Serving(m), phase' = phase
      PROVE  phase[n] = "off" /\ node'[n] = node[n]
  BY <1>1, <1>5 DEF AppendTx, Serving
<1>6. ASSUME NEW m \in Node, NEW t \in User, Submit(m, t) \/ Flood(m, t) \/ Poll(m, t)
      PROVE  phase[n] = "off" /\ node'[n] = node[n]
  <2>1. CASE Submit(m, t)
    BY <1>5, <2>1 DEF Submit
  <2>2. CASE Flood(m, t) \/ Poll(m, t)
    BY <1>1, <2>2 DEF Flood, Poll, Serving
  <2> QED
    BY <1>6, <2>1, <2>2
<1>7. ASSUME NEW m \in txMsgs, RecvTx(m) PROVE phase[n] = "off" /\ node'[n] = node[n]
  BY <1>2, <1>5, <1>7 DEF RecvTx
<1>8. ASSUME NEW m \in blockMsgs, RecvBlock(m) PROVE phase[n] = "off" /\ node'[n] = node[n]
  BY <1>1, <1>2, <1>8 DEF RecvBlock, Serving
<1>9. ASSUME NEW c \in Node, NEW k \in Node, Gossip(c, k)
      PROVE  phase[n] = "off" /\ node'[n] = node[n]
  BY <1>9 DEF Gossip
<1>10. CASE UNCHANGED vars
  BY <1>10 DEF vars
<1>11. ASSUME NEW S \in ClerkPorts, NEW ps \in SUBSET S, NEW k \in ps, ClerkGossip(ps, k)
       PROVE  phase[n] = "off" /\ node'[n] = node[n]
  BY <1>11 DEF ClerkGossip
<1> QED
  BY <1>3, <1>4, <1>6, <1>7, <1>8, <1>9, <1>10, <1>11 DEF Next, NodesNext, ClerksNext
-----------------------------------------------------------------------------
(* Theorems about the main chain of each node. *)

\* At first no node has been started.
LEMMA FreshInit == Init => Fresh
BY DEF Init, Fresh

\* The two facts every step below starts from.
LEMMA FreshInvariant == Spec => [](Shape /\ Fresh)
<1>1. Init => Shape /\ Fresh
  BY ShapeInit, FreshInit
<1>2. Shape /\ Fresh /\ [Next]_vars => (Shape /\ Fresh)'
  BY ShapeStep, FreshStep
<1> QED
  BY <1>1, <1>2, PTL DEF Spec

\* The transactions of a chain with one more block.
LEMMA TxsOfAppend ==
    ASSUME NEW bs, NEW S, NEW chain \in Seq(S), NEW b
    PROVE  TxsOf(bs, Append(chain, b)) = TxsOf(bs, chain) \cup ToSet(bs[b].txs)
<1>1. PICK T : T = S \cup {b}
  OBVIOUS
<1>2. PICK more : more = Append(chain, b)
  OBVIOUS
<1>3. /\ DOMAIN more = 1..(Len(chain) + 1) /\ DOMAIN chain = 1..Len(chain)
      /\ Len(chain) \in Nat /\ more[Len(chain) + 1] = b
      /\ \A i \in 1..Len(chain) : more[i] = chain[i]
  <2>1. chain \in Seq(T) /\ b \in T
    BY <1>1
  <2> QED
    BY <1>2, <2>1
<1>4. DOMAIN more = DOMAIN chain \cup {Len(chain) + 1}
  BY <1>3
<1> QED
  BY <1>2, <1>3, <1>4 DEF TxsOf

\* No step reports, or is about to report, a success that is not on the chain.
LEMMA SuccessStep ==
    ASSUME Shape, Fresh, SuccessOnChain, [Next]_vars
    PROVE  SuccessOnChain'
<1> SUFFICES ASSUME NEW n \in Node, NEW t \in User,
                    node'[n].PendingTxs[t] = "SUCCESS" \/ handler'[n][t] = "true"
             PROVE  t \in TxsOf(blocks', node'[n].Blockchain)
  BY DEF SuccessOnChain
<1> DEFINE chain == node[n].Blockchain
<1>1. chain \in Seq(1..Len(blocks)) /\ Len(blocks) \in Nat
  BY DEF Shape, TypeOK, BlocksOK, NodesOK, IsNode
<1>2. handler'[n][t] = "true" => handler[n][t] = "true" \/ node[n].PendingTxs[t] = "SUCCESS"
  BY StepMoves DEF Answers
<1>3. \A i \in 1..Len(blocks) : blocks'[i] = blocks[i]
  BY StepMoves DEF Mines, Moves
<1>4. TxsOf(blocks', chain) = TxsOf(blocks, chain)
  BY <1>1, <1>3, TxsOfLater
<1>5. \/ /\ node'[n].Blockchain = chain
         /\ node'[n].PendingTxs[t] = "SUCCESS" => node[n].PendingTxs[t] = "SUCCESS"
      \/ \E b : /\ node'[n].Blockchain = Append(chain, b)
                /\ node'[n].PendingTxs[t] = "SUCCESS" =>
                      node[n].PendingTxs[t] = "SUCCESS" \/ t \in ToSet(blocks'[b].txs)
  <2>1. Idle(node[n], node'[n]) \/ \E b : Accepts(blocks', node[n], node'[n], b)
    <3>1. ASSUME NEW m \in Node, Mines(m)
          PROVE  node'[n] = node[n] \/ \E b : Accepts(blocks', node[n], node'[n], b)
      BY <3>1 DEF Mines
    <3>2. node'[n] = node[n] => Idle(node[n], node'[n])
      BY DEF Idle
    <3>3. CASE Moves
      BY <3>3 DEF Moves
    <3> QED
      BY <3>1, <3>2, <3>3, StepMoves
  <2> QED
    BY <2>1 DEF Idle, Accepts
<1>6. (node[n].PendingTxs[t] = "SUCCESS" \/ handler[n][t] = "true") => t \in TxsOf(blocks', chain)
  BY <1>4 DEF SuccessOnChain
<1>7. \A b : TxsOf(blocks', Append(chain, b)) = TxsOf(blocks', chain) \cup ToSet(blocks'[b].txs)
  BY <1>1, TxsOfAppend
<1> HIDE DEF chain
<1> QED
  BY <1>2, <1>5, <1>6, <1>7

\* No node reports success for a transaction that is not on its main chain, and
\* the chain keeps it: blocks of peers, double deliveries and late polls included.
THEOREM SuccessIsFinal == Spec => []SuccessOnChain
<1>1. Init => SuccessOnChain
  BY DEF Init, SuccessOnChain, bootstrap
<1>2. Shape /\ Fresh /\ SuccessOnChain /\ [Next]_vars => SuccessOnChain'
  BY SuccessStep
<1> QED
  BY <1>1, <1>2, FreshInvariant, PTL DEF Spec
-----------------------------------------------------------------------------
(* The ledger: what every block stands for, wherever it is accepted. *)

\* L[b] is the chain that ends in b and the database after it.
IsLedger(L, bs, len) ==
    /\ bs[1].prev = 0
    /\ \A b \in 1..len : L[b].Blockchain \in Seq(1..len)
    /\ \A b \in 2..len :
          LET p == bs[b].prev
          IN  /\ p \in 1..len
              /\ L[b].Blockchain = Append(L[p].Blockchain, b)
              /\ L[b].Utxo = updateAll(L[p].Utxo, bs[b].txs).db
              /\ ValidateBlock(bs[b]) /\ validateBlockTxs(bs, L[p], bs[b])

\* The node is where its last block says.
AtTip(L, st) == st.Blockchain = L[tip(st)].Blockchain /\ st.Utxo = L[tip(st)].Utxo

Ledgered == \E L : IsLedger(L, blocks, Len(blocks)) /\ \A n \in Node : AtTip(L, node[n])

\* At first every node is at the genesis block.
LEMMA LedgerInit == Init => Ledgered
<1> SUFFICES ASSUME Init PROVE Ledgered
  OBVIOUS
<1> DEFINE first == [Blockchain |-> <<1>>, Utxo |-> GenesisUtxo]
           L == [b \in 1..1 |-> first]
<1>1. Len(blocks) = 1 /\ blocks[1] = Block(0, <<GenesisTx>>)
  BY DEF Init, GenerateGenesisBlock
<1>2. blocks[1].prev = 0
  BY <1>1 DEF Block
<1>3. L[1].Blockchain = <<1>> /\ L[1].Utxo = GenesisUtxo
  OBVIOUS
<1> HIDE DEF L
<1>4. IsLedger(L, blocks, 1)
  <2>1. <<1>> \in Seq(1..1) /\ 1..1 = {1} /\ 2..1 = {}
    OBVIOUS
  <2> QED
    BY <1>2, <1>3, <2>1 DEF IsLedger
<1>5. \A n \in Node : AtTip(L, node[n])
  BY <1>3 DEF Init, bootstrap, AtTip, tip
<1> QED
  BY <1>1, <1>4, <1>5 DEF Ledgered

\* A node that moves on is where the new tip says.
LEMMA AcceptsAtTip ==
    ASSUME NEW S, NEW bs, NEW st, NEW new, NEW b, NEW L, st.Blockchain \in Seq(S),
           AtTip(L, st), Accepts(bs, st, new, b),
           L[b].Blockchain = Append(L[tip(st)].Blockchain, b),
           L[b].Utxo = updateAll(L[tip(st)].Utxo, bs[b].txs).db
    PROVE  AtTip(L, new)
<1>1. new.Blockchain = Append(st.Blockchain, b)
  BY DEF Accepts
<1>2. tip(new) = b
  <2>1. PICK chain : chain = st.Blockchain
    OBVIOUS
  <2>2. PICK more, T : more = Append(chain, b) /\ T = S \cup {b}
    OBVIOUS
  <2>3. chain \in Seq(T) /\ b \in T
    BY <2>1, <2>2
  <2>4. more[Len(more)] = b
    BY <2>2, <2>3
  <2> QED
    BY <1>1, <2>1, <2>2, <2>4 DEF tip
<1> QED
  BY <1>1, <1>2 DEF AtTip, Accepts

\* Accepting a block that exists takes a node to where the ledger says.
LEMMA LedgerMoves ==
    ASSUME Shape, Ledgered, Moves
    PROVE  Ledgered'
<1>1. PICK L : IsLedger(L, blocks, Len(blocks)) /\ \A n \in Node : AtTip(L, node[n])
  BY DEF Ledgered
<1>2. ASSUME NEW n \in Node PROVE AtTip(L, node'[n])
  <2>1. /\ node[n].Blockchain \in Seq(1..Len(blocks)) /\ node[n].Blockchain # <<>>
        /\ Len(blocks) \in Nat
    BY DEF Shape, TypeOK, BlocksOK, NodesOK, IsNode
  <2>2. CASE Idle(node[n], node'[n])
    BY <1>1, <2>2 DEF Idle, AtTip, tip
  <2>3. ASSUME NEW b \in 1..Len(blocks), Accepts(blocks, node[n], node'[n], b)
        PROVE  AtTip(L, node'[n])
    <3>1. blocks[b].prev = tip(node[n])
      BY <2>3 DEF Accepts
    <3>2. tip(node[n]) \in 1..Len(blocks)
      BY <2>1 DEF tip
    <3>3. b \in 2..Len(blocks)
      BY <1>1, <2>1, <3>1, <3>2 DEF IsLedger
    <3>4. /\ L[b].Blockchain = Append(L[tip(node[n])].Blockchain, b)
          /\ L[b].Utxo = updateAll(L[tip(node[n])].Utxo, blocks[b].txs).db
      BY <1>1, <3>1, <3>3 DEF IsLedger
    <3> QED
      BY <1>1, <2>1, <2>3, <3>4, AcceptsAtTip
  <2> QED
    BY <2>2, <2>3 DEF Moves
<1>3. IsLedger(L, blocks', Len(blocks'))
  BY <1>1 DEF Moves
<1> QED
  BY <1>2, <1>3 DEF Ledgered

\* A mined block is one more entry of the ledger.
LEMMA LedgerMines ==
    ASSUME Shape, Ledgered, NEW n \in Node, Mines(n)
    PROVE  Ledgered'
<1> DEFINE len == Len(blocks)
           b == len + 1
           st == node[n]
<1>1. PICK L : IsLedger(L, blocks, len) /\ \A m \in Node : AtTip(L, node[m])
  BY DEF Ledgered
<1>2. /\ len \in Nat
      /\ \A m \in Node : node[m].Blockchain \in Seq(1..len) /\ node[m].Blockchain # <<>>
  BY DEF Shape, TypeOK, BlocksOK, NodesOK, IsNode
<1>3. \A m \in Node : tip(node[m]) \in 1..len
  BY <1>2 DEF tip
<1> DEFINE M == [i \in 1..b |-> IF i = b THEN node'[n] ELSE L[i]]
<1>4. M[b] = node'[n] /\ \A i \in 1..len : M[i] = L[i]
  BY <1>2
<1> HIDE DEF M
<1>5. /\ Accepts(blocks', st, node'[n], b) /\ Len(blocks') = b
      /\ \A i \in 1..len : blocks'[i] = blocks[i]
  BY DEF Mines
<1>6. /\ M[b].Blockchain = Append(M[tip(st)].Blockchain, b)
      /\ M[b].Utxo = updateAll(M[tip(st)].Utxo, blocks'[b].txs).db
      /\ blocks'[b].prev = tip(st)
      /\ ValidateBlock(blocks'[b]) /\ validateBlockTxs(blocks', st, blocks'[b])
  BY <1>1, <1>3, <1>4, <1>5 DEF Accepts, AtTip
<1>7. \A i \in 1..len : M[i].Blockchain \in Seq(1..len)
  BY <1>1, <1>4 DEF IsLedger
<1>8. \A s \in Seq(1..len) : s \in Seq(1..b) /\ Append(s, b) \in Seq(1..b)
  BY <1>2
<1>9. ASSUME NEW i \in 1..len
      PROVE  TxsOf(blocks', M[i].Blockchain) = TxsOf(blocks, M[i].Blockchain)
  <2>1. PICK chain \in Seq(1..len) : chain = M[i].Blockchain
    BY <1>7
  <2>2. len \in Nat /\ \A j \in 1..len : blocks'[j] = blocks[j]
    BY <1>2, <1>5
  <2> HIDE DEF len
  <2> QED
    BY <2>1, <2>2, TxsOfLater
<1>10. IsLedger(M, blocks', b)
  <2>1. blocks'[1].prev = 0
    <3>1. 1 \in 1..len
      BY <1>2, <1>3
    <3> QED
      BY <1>1, <1>5, <3>1 DEF IsLedger
  <2>2. \A i \in 1..b : M[i].Blockchain \in Seq(1..b)
    <3>1. M[b].Blockchain \in Seq(1..b)
      BY <1>3, <1>6, <1>7, <1>8
    <3> QED
      BY <1>2, <1>7, <1>8, <3>1
  <2>3. ASSUME NEW i \in 2..b
        PROVE  LET p == blocks'[i].prev
               IN  /\ p \in 1..b
                   /\ M[i].Blockchain = Append(M[p].Blockchain, i)
                   /\ M[i].Utxo = updateAll(M[p].Utxo, blocks'[i].txs).db
                   /\ ValidateBlock(blocks'[i]) /\ validateBlockTxs(blocks', M[p], blocks'[i])
    <3>1. CASE i = b
      <4>1. M[tip(st)].Blockchain = st.Blockchain /\ M[tip(st)].Utxo = st.Utxo
        BY <1>1, <1>3, <1>4 DEF AtTip
      <4>2. TxsOf(blocks', st.Blockchain) = TxsOf(blocks', st.Blockchain)
        OBVIOUS
      <4>3. validateBlockTxs(blocks', M[tip(st)], blocks'[b])
        <5>1. PICK other : other = M[tip(st)]
          OBVIOUS
        <5> QED
          BY <1>6, <4>1, <4>2, <5>1, ValidAlike
      <4>4. tip(st) \in 1..b
        BY <1>2, <1>3
      <4> QED
        BY <1>6, <3>1, <4>3, <4>4
    <3>2. CASE i \in 2..len
      <4> DEFINE p == blocks[i].prev
      <4>1. /\ p \in 1..len /\ i \in 1..len
            /\ L[i].Blockchain = Append(L[p].Blockchain, i)
            /\ L[i].Utxo = updateAll(L[p].Utxo, blocks[i].txs).db
            /\ ValidateBlock(blocks[i]) /\ validateBlockTxs(blocks, L[p], blocks[i])
        BY <1>1, <3>2 DEF IsLedger
      <4>2. blocks'[i] = blocks[i] /\ M[i] = L[i] /\ M[p] = L[p] /\ p \in 1..b
        BY <1>2, <1>4, <1>5, <4>1
      <4>3. validateBlockTxs(blocks', L[p], blocks[i])
        <5>1. PICK other : other = L[p]
          OBVIOUS
        <5>2. TxsOf(blocks', other.Blockchain) = TxsOf(blocks, other.Blockchain)
          BY <1>9, <4>1, <4>2, <5>1
        <5>3. validateBlockTxs(blocks, other, blocks[i])
          BY <4>1, <5>1
        <5>4. validateBlockTxs(blocks', other, blocks[i])
          BY ONLY <5>2, <5>3, ValidAlike
        <5> QED
          BY <5>1, <5>4
      <4> QED
        BY <4>1, <4>2, <4>3
    <3> QED
      BY <1>2, <3>1, <3>2
  <2> QED
    BY <2>1, <2>2, <2>3 DEF IsLedger
<1>11. ASSUME NEW m \in Node PROVE AtTip(M, node'[m])
  <2>1. CASE m = n
    <3>1. AtTip(M, st)
      BY <1>1, <1>3, <1>4 DEF AtTip
    <3> QED
      BY <1>2, <1>5, <1>6, <2>1, <3>1, AcceptsAtTip
  <2>2. CASE m # n
    <3>1. node'[m] = node[m]
      BY <2>2 DEF Mines
    <3> QED
      BY <1>1, <1>3, <1>4, <3>1 DEF AtTip
  <2> QED
    BY <2>1, <2>2
<1> QED
  BY <1>5, <1>10, <1>11 DEF Ledgered

\* In every state there is one ledger for all nodes.
LEMMA LedgerInvariant == Spec => [](Shape /\ Fresh /\ Ledgered)
<1>1. Init => Ledgered
  BY LedgerInit
<1>2. Shape /\ Fresh /\ Ledgered /\ [Next]_vars => Ledgered'
  BY StepMoves, LedgerMoves, LedgerMines
<1> QED
  BY <1>1, <1>2, FreshInvariant, PTL DEF Spec

\* The last block of a node determines its chain and its database, at any number
\* of nodes: mine, SendBlock and replayLog compute the same ledger.
THEOREM LedgerDetermined == Spec => []TipDeterminesLedger
<1>1. Ledgered => TipDeterminesLedger
  BY DEF Ledgered, AtTip, TipDeterminesLedger
<1> QED
  BY <1>1, LedgerInvariant, PTL

\* A block that extends the chain of a node is accepted there, whoever mined it
\* and whatever the node did before.
THEOREM ExtensionAccepted == Spec => []ExtendingBlockAccepted
<1>1. ASSUME Shape, Ledgered, NEW m \in blockMsgs, blocks[m[3]].prev = tip(node[m[2]])
      PROVE  ValidateBlock(blocks[m[3]]) /\ validateBlockTxs(blocks, node[m[2]], blocks[m[3]])
  <2> DEFINE b == m[3]
             st == node[m[2]]
  <2>1. PICK L : IsLedger(L, blocks, Len(blocks)) /\ \A n \in Node : AtTip(L, node[n])
    BY <1>1 DEF Ledgered
  <2>2. m[2] \in Node /\ b \in 1..Len(blocks) /\ Len(blocks) \in Nat
    BY <1>1 DEF Shape, TypeOK, BlocksOK, NetworkOK
  <2>3. tip(st) \in 1..Len(blocks)
    <3>1. PICK chain : chain = st.Blockchain
      OBVIOUS
    <3>2. chain \in Seq(1..Len(blocks)) /\ chain # <<>>
      BY <1>1, <2>2, <3>1 DEF Shape, TypeOK, NodesOK, IsNode
    <3>3. Len(chain) \in DOMAIN chain
      BY <3>2
    <3> QED
      BY <3>1, <3>2, <3>3 DEF tip
  <2>4. b \in 2..Len(blocks)
    BY <1>1, <2>1, <2>2, <2>3 DEF IsLedger
  <2>5. ValidateBlock(blocks[b]) /\ validateBlockTxs(blocks, L[tip(st)], blocks[b])
    BY <1>1, <2>1, <2>4 DEF IsLedger
  <2>6. st.Blockchain = L[tip(st)].Blockchain /\ st.Utxo = L[tip(st)].Utxo
    BY <2>1, <2>2 DEF AtTip
  <2>7. validateBlockTxs(blocks, st, blocks[b])
    <3>1. PICK at : at = L[tip(st)]
      OBVIOUS
    <3>2. TxsOf(blocks, at.Blockchain) = TxsOf(blocks, at.Blockchain)
      OBVIOUS
    <3> QED
      BY <2>5, <2>6, <3>1, <3>2, ValidAlike
  <2> QED
    BY <2>5, <2>7
<1>2. Shape /\ Ledgered => ExtendingBlockAccepted
  BY <1>1 DEF ExtendingBlockAccepted
<1> QED
  BY <1>2, LedgerInvariant, PTL
-----------------------------------------------------------------------------
(* What a node has decided stands. *)

Decided == {"INVALID", "SUCCESS", "HANDLED"}

\* A node that takes no decision back.
Stands(st, new) ==
    \A t \in User : st.PendingTxs[t] \in Decided =>
                      new.PendingTxs[t] \in {st.PendingTxs[t], "SUCCESS", "HANDLED"}

\* A step in which no node does, and no answer is replaced.
AllStand ==
    /\ \A n \in Node : Stands(node[n], node'[n])
    /\ \A n \in Node, t \in User :
          node[n].PendingTxs[t] \in Decided /\ handler[n][t] \in {"true", "false"} =>
             handler'[n][t] = handler[n][t]

\* A block changes decisions to success only.
LEMMA ConfirmedStands ==
    ASSUME NEW st, NEW new, NEW status, NEW txs, new.PendingTxs = Confirmed(status, txs),
           \A t \in User : st.PendingTxs[t] \in Decided => status[t] = st.PendingTxs[t]
    PROVE  Stands(st, new)
BY DEF Stands, Confirmed

\* mine() rejects only what is pending.
LEMMA SiftedStands ==
    ASSUME NEW bs, NEW st, NEW t \in User, st.PendingTxs[t] \in Decided
    PROVE  Sifted(bs, st)[t] = st.PendingTxs[t]
BY DEF Sifted, rejected, Decided

\* A step of one node that takes no decision back.
LEMMA OneStands ==
    ASSUME Shape, NEW n \in Node, NEW new, node' = [node EXCEPT ![n] = new],
           Stands(node[n], new), handler' = handler
    PROVE  AllStand
<1>1. node = [m \in Node |-> node[m]]
  BY DEF Shape, TypeOK, NodesOK
<1>2. node'[n] = new /\ \A m \in Node \ {n} : node'[m] = node[m]
  BY <1>1
<1>3. \A m \in Node : Stands(node[m], node[m])
  BY DEF Stands
<1> QED
  BY <1>2, <1>3 DEF AllStand

\* AppendTx touches only what it has not seen.
LEMMA AppendTxStands ==
    ASSUME Shape, NEW n \in Node, NEW t \in User, AppendTx(n, t)
    PROVE  AllStand
<1> DEFINE st == node[n]
           status == [st.PendingTxs EXCEPT ![t] = "PENDING"]
<1>1. /\ Plain(st) /\ st.PendingTxs \in [User -> Status] /\ node = [m \in Node |-> node[m]]
      /\ handler \in [Node -> [User -> {"none", "flood", "poll", "true", "false"}]]
  BY GoodIsPlain DEF Shape, TypeOK, BlocksOK, NodesOK, NetworkOK, ForkStoresEmpty, Good, IsNode
<1>2. CASE UNCHANGED <<node, handler>>
  BY <1>2 DEF AllStand, Stands
<1>3. CASE /\ st.PendingTxs[t] = "UNSEEN"
           /\ handler' = [handler EXCEPT ![n][t] = "flood"]
           /\ \E torn \in BOOLEAN :
                node' = [node EXCEPT ![n] =
                           Rec(st.Blockchain, st.Log, st.Utxo, status, st.numPending + 1, torn)]
  <2>1. PICK torn, new :
          /\ new = Rec(st.Blockchain, st.Log, st.Utxo, status, st.numPending + 1, torn)
          /\ node' = [node EXCEPT ![n] = new]
    BY <1>3
  <2>2. new.PendingTxs = status
    BY <2>1, RecFields
  <2>3. Stands(st, new)
    BY <1>1, <1>3, <2>2 DEF Stands, Decided
  <2>4. \A m \in Node : Stands(node[m], node'[m])
    <3>1. node'[n] = new /\ \A m \in Node \ {n} : node'[m] = node[m]
      BY <1>1, <2>1
    <3>2. \A m \in Node : Stands(node[m], node[m])
      BY DEF Stands
    <3> QED
      BY <2>3, <3>1, <3>2
  <2>5. \A m \in Node, u \in User :
          node[m].PendingTxs[u] \in Decided => handler'[m][u] = handler[m][u]
    BY <1>1, <1>3 DEF Decided
  <2> QED
    BY <2>4, <2>5 DEF AllStand
<1> QED
  BY <1>1, <1>2, <1>3, AppendTxCases

\* No step takes a decision back.
LEMMA StepStands ==
    ASSUME Shape, Fresh, [Next]_vars
    PROVE  AllStand
<1>1. /\ \A n \in Node : Plain(node[n]) /\ node[n].PendingTxs \in [User -> Status]
      /\ node = [m \in Node |-> node[m]] /\ NetworkOK
      /\ BlocksOK /\ NodesOK /\ ForkStoresEmpty
  BY GoodIsPlain DEF Shape, TypeOK, BlocksOK, NodesOK, ForkStoresEmpty, Good, IsNode
<1>2. ASSUME UNCHANGED <<node, handler>> PROVE AllStand
  BY <1>2 DEF AllStand, Stands
<1>3. ASSUME NEW n \in Node, StartDRNode(n) PROVE AllStand
  <2>1. node[n] = bootstrap /\ Stands(bootstrap, bootstrap)
    BY <1>3 DEF StartDRNode, Fresh, Stands
  <2> QED
    BY <1>3, <2>1, OneStands DEF StartDRNode
<1>4. ASSUME NEW n \in Node, Dial(n) \/ Listen(n) \/ Kill(n) PROVE AllStand
  BY <1>2, <1>4 DEF Dial, Listen, Kill
<1>5. ASSUME NEW n \in Node, GetBlockLog(n) PROVE AllStand
  <2> DEFINE s == Head(todo[n])
             st == node[n]
  <2>1. CASE node' = node
    BY <1>2, <1>5, <2>1 DEF GetBlockLog
  <2>2. CASE node' = [node EXCEPT ![n].Log = node[s].Log]
    <3>1. PICK new, log : new = [st EXCEPT !.Log = log] /\ log = node[s].Log
      OBVIOUS
    <3>2. node' = [node EXCEPT ![n] = new]
      BY <2>2, <3>1
    <3>3. new.PendingTxs = st.PendingTxs
      BY <1>1, <3>1, SetLog, RecFields
    <3>4. Stands(st, new)
      BY <3>3 DEF Stands
    <3> QED
      BY <1>5, <3>2, <3>4, OneStands DEF GetBlockLog
  <2> QED
    BY <1>5, <2>1, <2>2 DEF GetBlockLog
<1>6. ASSUME NEW n \in Node, NEW b, UNCHANGED handler,
             node' = [node EXCEPT ![n] = SendBlock(blocks, node[n], b)]
      PROVE  AllStand
  <2> DEFINE st == node[n]
             log == Append(st.Log, b)
  <2>1. PICK new : new = SendBlock(blocks, st, b)
    OBVIOUS
  <2>2. new.PendingTxs = st.PendingTxs \/ new.PendingTxs = Confirmed(st.PendingTxs, blocks[b].txs)
    <3>1. \/ new = Rec(st.Blockchain, log, st.Utxo, st.PendingTxs, st.numPending, st.panicked)
          \/ new = Extended(st, log, st.PendingTxs, b, blocks[b].txs)
      BY <1>1, <2>1, SendBlockCases
    <3> QED
      BY <3>1, RecFields DEF Extended
  <2>3. Stands(st, new)
    <3>1. CASE new.PendingTxs = st.PendingTxs
      BY <3>1 DEF Stands
    <3>2. CASE new.PendingTxs = Confirmed(st.PendingTxs, blocks[b].txs)
      BY <3>2, ConfirmedStands
    <3> QED
      BY <2>2, <3>1, <3>2
  <2> QED
    BY <1>6, <2>1, <2>3, OneStands
<1>7. ASSUME NEW n \in Node, replayLog(n) PROVE AllStand
  BY <1>6, <1>7 DEF replayLog
<1>8. ASSUME NEW m \in blockMsgs, RecvBlock(m) PROVE AllStand
  <2>1. m[2] \in Node
    BY <1>1 DEF NetworkOK
  <2> QED
    BY <1>6, <1>8, <2>1 DEF RecvBlock
<1>9. ASSUME NEW n \in Node, Crash(n) PROVE AllStand
  <2> DEFINE st == node[n]
  <2>1. PICK new : new = [st EXCEPT !.panicked = TRUE]
    OBVIOUS
  <2>2. node' = [node EXCEPT ![n] = new] /\ handler' = handler
    BY <1>9, <2>1 DEF Crash
  <2>3. new.PendingTxs = st.PendingTxs
    BY <1>1, <2>1, SetPanicked, RecFields
  <2>4. Stands(st, new)
    BY <2>3 DEF Stands
  <2> QED
    BY <2>2, <2>4, OneStands
<1>10. ASSUME NEW n \in Node, Mine(n) PROVE AllStand
  <2> DEFINE st == node[n]
             b == Len(blocks) + 1
  <2>1. PICK txs \in Seq(User), torn \in BOOLEAN :
           LET all == Append(txs, MakeCoinbaseTx(txs, MinerKey[n]))
               new == Extended(st, Append(st.Log, b), Sifted(blocks', st), b, all)
           IN  /\ node' = [node EXCEPT ![n] = [new EXCEPT !.panicked = @ \/ torn]]
               /\ handler' = handler
    BY <1>1, <1>10, MineStep
  <2>2. PICK all, log, mined :
           /\ mined = Extended(st, log, Sifted(blocks', st), b, all)
           /\ node' = [node EXCEPT ![n] = [mined EXCEPT !.panicked = @ \/ torn]]
    BY <2>1
  <2>3. PICK new : new = [mined EXCEPT !.panicked = @ \/ torn]
    OBVIOUS
  <2>4. new.PendingTxs = Confirmed(Sifted(blocks', st), all)
    BY <2>2, <2>3 DEF Extended, Rec
  <2>5. Stands(st, new)
    BY <2>4, ConfirmedStands, SiftedStands
  <2>6. node' = [node EXCEPT ![n] = new] /\ handler' = handler
    BY <2>1, <2>2, <2>3
  <2> QED
    BY <2>5, <2>6, OneStands
<1>11. ASSUME NEW n \in Node, NEW t \in User, Submit(n, t) PROVE AllStand
  BY <1>11, AppendTxStands DEF Submit
<1>12. ASSUME NEW m \in txMsgs, RecvTx(m) PROVE AllStand
  <2>1. m[2] \in Node /\ m[3] \in User
    BY <1>1 DEF NetworkOK
  <2> QED
    BY <1>12, <2>1, AppendTxStands DEF RecvTx
<1>13. ASSUME NEW n \in Node, NEW t \in User, Flood(n, t) PROVE AllStand
  BY <1>1, <1>13 DEF Flood, NetworkOK, AllStand, Stands
<1>14. ASSUME NEW n \in Node, NEW t \in User, Poll(n, t) PROVE AllStand
  <2> DEFINE st == node[n]
             status == [st.PendingTxs EXCEPT ![t] = "HANDLED"]
  <2>1. PICK new : new = [st EXCEPT !.PendingTxs = status]
    OBVIOUS
  <2>2. node' = [node EXCEPT ![n] = new]
    BY <1>14, <2>1 DEF Poll
  <2>3. new.PendingTxs = status
    BY <1>1, <2>1, SetStatus, RecFields
  <2>4. \A m \in Node : Stands(node[m], node'[m])
    <3>1. Stands(st, new)
      BY <1>1, <2>3 DEF Stands
    <3>2. node'[n] = new /\ \A m \in Node \ {n} : node'[m] = node[m]
      BY <1>1, <2>2
    <3>3. \A m \in Node : Stands(node[m], node[m])
      BY DEF Stands
    <3> QED
      BY <3>1, <3>2, <3>3
  <2>5. \A m \in Node, u \in User :
          handler[m][u] \in {"true", "false"} => handler'[m][u] = handler[m][u]
    <3>1. handler[n][t] = "poll"
      BY <1>14 DEF Poll
    <3>2. PICK answer : handler' = [handler EXCEPT ![n][t] = answer]
      BY <1>14 DEF Poll
    <3>3. handler \in [Node -> [User -> {"none", "flood", "poll", "true", "false"}]]
      BY <1>1 DEF NetworkOK
    <3> QED
      BY <3>1, <3>2, <3>3
  <2> QED
    BY <2>4, <2>5 DEF AllStand
<1>15. ASSUME NEW c \in Node, NEW k \in Node, Gossip(c, k) PROVE AllStand
  BY <1>2, <1>15 DEF Gossip
<1>16. ASSUME NEW S \in ClerkPorts, NEW ps \in SUBSET S, NEW k \in ps, ClerkGossip(ps, k)
       PROVE  AllStand
  BY <1>2, <1>16 DEF ClerkGossip
<1>17. CASE UNCHANGED vars
  BY <1>2, <1>17 DEF vars
<1> QED
  BY <1>3, <1>4, <1>5, <1>7, <1>8, <1>9, <1>10, <1>11, <1>12, <1>13, <1>14, <1>15,
     <1>16, <1>17 DEF Next, NodesNext, ClerksNext

\* What a node has decided of a transaction stands, whatever is sent to it again
\* and in whichever order (DecisionStands, for the statuses that AppendTx, mine and
\* addBlock assign in miner.go).
THEOREM DecisionsStand == Spec => DecisionStands
<1>1. Shape /\ Fresh /\ [Next]_vars =>
        [\A n \in Node, t \in User :
            node[n].PendingTxs[t] \in {"INVALID", "SUCCESS", "HANDLED"} =>
               /\ node'[n].PendingTxs[t] \in {node[n].PendingTxs[t], "SUCCESS", "HANDLED"}
               /\ handler[n][t] \in {"true", "false"} => handler'[n][t] = handler[n][t]]_vars
  BY StepStands DEF AllStand, Stands, Decided
<1> QED
  BY <1>1, FreshInvariant, PTL DEF Spec, DecisionStands
-----------------------------------------------------------------------------
(* Nodes on their own. *)

\* No node is given a server to dial, and no clerk two nodes to gossip about.
NoPeers ==
    /\ \A n \in Node : Boot[n] = <<>>
    /\ \A S \in ClerkPorts : \A p, q \in S : p = q

\* What stays empty then.
Alone ==
    /\ \A n \in Node : todo[n] = <<>> /\ replay[n] = <<>> /\ servers[n] = {}
    /\ blockMsgs = {} /\ txMsgs = {}

\* The transactions that wait at a node.
Waiting(st) == {t \in User : st.PendingTxs[t] = "PENDING"}

\* Each of them is counted, when the node has panicked too.
Counted(st) == st.numPending >= Cardinality(Waiting(st))

\* There are finitely many.
LEMMA WaitingFinite ==
    ASSUME NEW st
    PROVE  IsFiniteSet(Waiting(st)) /\ Cardinality(Waiting(st)) \in Nat
<1>1. Waiting(st) \in SUBSET User
  BY DEF Waiting
<1> QED
  BY <1>1, HashAssumption, FS_Subset, FS_CardinalityType

\* Fewer wait and the counter is as before.
LEMMA CountedFewer ==
    ASSUME NEW st, NEW new, Counted(st), new.numPending = st.numPending, st.numPending \in Int,
           \A t \in User : new.PendingTxs[t] = "PENDING" => st.PendingTxs[t] = "PENDING"
    PROVE  Counted(new)
<1>1. Waiting(new) \in SUBSET Waiting(st)
  BY DEF Waiting
<1>2. Cardinality(Waiting(new)) <= Cardinality(Waiting(st))
  BY <1>1, WaitingFinite, FS_Subset
<1> QED
  BY <1>2, WaitingFinite DEF Counted

\* AppendTx: one more waits, and is counted.
LEMMA CountedAppend ==
    ASSUME NEW st, NEW new, NEW t \in User, Counted(st), st.numPending \in Int,
           st.PendingTxs \in [User -> Status],
           new.numPending = st.numPending + 1,
           new.PendingTxs = [st.PendingTxs EXCEPT ![t] = "PENDING"]
    PROVE  Counted(new)
<1>1. Waiting(new) = Waiting(st) \cup {t}
  BY DEF Waiting
<1>2. Cardinality(Waiting(new)) <= Cardinality(Waiting(st)) + 1
  <2>1. PICK w : w = Waiting(st)
    OBVIOUS
  <2>2. IsFiniteSet(w) /\ Cardinality(w) \in Nat
    BY <2>1, WaitingFinite
  <2>3. Cardinality(w \cup {t}) = IF t \in w THEN Cardinality(w) ELSE Cardinality(w) + 1
    BY ONLY <2>2, FS_AddElement, Zenon
  <2>4. Cardinality(w \cup {t}) <= Cardinality(w) + 1
    BY <2>2, <2>3
  <2> QED
    BY <1>1, <2>1, <2>4
<1> QED
  BY <1>2, WaitingFinite DEF Counted

\* A list of a set, each element once, has them all.
LEMMA ListOfSet ==
    ASSUME NEW S, IsFiniteSet(S), NEW s \in SetToSeqs(S)
    PROVE  ToSet(s) = S /\ Len(s) = Cardinality(S) /\ Cardinality(S) \in Nat
<1> DEFINE n == Cardinality(S)
<1>1. n \in Nat
  BY FS_CardinalityType
<1>2. s \in [1..n -> S] /\ \A i, j \in 1..n : i # j => s[i] # s[j]
  BY DEF SetToSeqs
<1>3. s \in Injection(1..n, S)
  BY <1>2 DEF Injection, IsInjective
<1>4. Cardinality(1..n) = n
  BY <1>1, FS_Interval
<1>5. s \in Surjection(1..n, S)
  BY <1>3, <1>4, FS_Injection
<1>6. \A x \in S : \E i \in 1..n : s[i] = x
  BY <1>5 DEF Surjection
<1>7. DOMAIN s = 1..n /\ Len(s) = n
  BY <1>1, <1>2
<1> QED
  BY <1>1, <1>2, <1>6, <1>7 DEF ToSet

\* mine(): the transactions of the block wait no longer and are subtracted; those
\* it rejects wait no longer and stay counted.
LEMMA CountedMine ==
    ASSUME NEW bs, NEW later, NEW st, NEW new, NEW txs \in SetToSeqs(selected(bs, st)), NEW h,
           Counted(st), st.numPending \in Int,
           new.numPending = st.numPending - (Len(Append(txs, h)) - 1),
           new.PendingTxs = Confirmed(Sifted(later, st), Append(txs, h))
    PROVE  Counted(new)
<1> DEFINE sel == selected(bs, st)
           status == Sifted(later, st)
<1>1. sel \in SUBSET User /\ \A t \in sel : st.PendingTxs[t] = "PENDING"
  BY DEF selected
<1>2. sel \in SUBSET Waiting(st)
  BY <1>1 DEF Waiting
<1>3. IsFiniteSet(sel)
  BY <1>2, WaitingFinite, FS_Subset
<1>4. ToSet(txs) = sel /\ Len(txs) = Cardinality(sel) /\ Cardinality(sel) \in Nat
  BY <1>3, ListOfSet
<1>5. txs \in Seq(User)
  BY <1>1, SelectedSeq
<1>6. Len(Append(txs, h)) = Len(txs) + 1 /\ \A t \in ToSet(txs) : t \in ToSet(Append(txs, h))
  <2> DEFINE all == Append(txs, h)
  <2>1. /\ Len(all) = Len(txs) + 1 /\ DOMAIN all = 1..(Len(txs) + 1)
        /\ \A i \in 1..Len(txs) : all[i] = txs[i]
    BY <1>5
  <2>2. \A i \in DOMAIN txs : i \in DOMAIN all /\ all[i] = txs[i]
    BY <1>5, <2>1
  <2> HIDE DEF all
  <2>3. \A t \in ToSet(txs) : t \in ToSet(all)
    BY <2>2 DEF ToSet
  <2> QED
    BY <2>1, <2>3 DEF all
<1>7. \A t \in User : new.PendingTxs[t] = "PENDING" =>
                         st.PendingTxs[t] = "PENDING" /\ t \notin sel
  <2> SUFFICES ASSUME NEW t \in User, new.PendingTxs[t] = "PENDING"
               PROVE  st.PendingTxs[t] = "PENDING" /\ t \notin sel
    OBVIOUS
  <2>1. status[t] = "PENDING" /\ t \notin ToSet(Append(txs, h))
    BY DEF Confirmed
  <2>2. st.PendingTxs[t] = "PENDING"
    BY <2>1 DEF Sifted
  <2> QED
    BY <1>4, <1>6, <2>1, <2>2
<1>8. Waiting(new) \in SUBSET (Waiting(st) \ sel)
  BY <1>7 DEF Waiting
<1>9. /\ IsFiniteSet(Waiting(st) \ sel)
      /\ Cardinality(Waiting(st) \ sel) = Cardinality(Waiting(st)) - Cardinality(sel)
  <2>1. Waiting(st) \cap sel = sel
    BY <1>2
  <2>2. PICK w, x : w = Waiting(st) /\ x = sel
    OBVIOUS
  <2>3. IsFiniteSet(w)
    BY <2>2, WaitingFinite
  <2>4. IsFiniteSet(w \ x) /\ Cardinality(w \ x) = Cardinality(w) - Cardinality(w \cap x)
    BY <2>3, FS_Difference
  <2> QED
    BY <2>1, <2>2, <2>4
<1>10. Cardinality(Waiting(new)) <= Cardinality(Waiting(st)) - Cardinality(sel)
  BY <1>8, <1>9, FS_Subset
<1>11. new.numPending = st.numPending - Cardinality(sel)
  BY <1>4, <1>6
<1> QED
  BY <1>4, <1>10, <1>11, WaitingFinite DEF Counted

\* A node without peers stays so: nothing is dialled, replayed or sent, and no
\* gossip names anyone else.
LEMMA AloneStep ==
    ASSUME NoPeers, Shape, Alone, [Next]_vars
    PROVE  Alone'
<1>1. /\ todo \in [Node -> Seq(Node)] /\ servers \in [Node -> SUBSET Node]
      /\ replay = [n \in Node |-> replay[n]]
      /\ \A n \in Node : phase[n] = "fetch" => todo[n] # <<>>
  BY DEF Shape, TypeOK, NetworkOK
<1>2. ASSUME NEW n \in Node, StartDRNode(n) PROVE Alone'
  BY <1>1, <1>2 DEF StartDRNode, NoPeers, Alone
<1>3. ASSUME NEW n \in Node, Dial(n) \/ GetBlockLog(n) \/ replayLog(n) PROVE FALSE
  BY <1>1, <1>3 DEF Dial, GetBlockLog, replayLog, Alone
<1>4. ASSUME NEW n \in Node, Listen(n) \/ Kill(n) \/ Crash(n) PROVE Alone'
  BY <1>4 DEF Listen, Kill, Crash, Alone
<1>5. ASSUME NEW c \in Node, NEW k \in Node, Gossip(c, k) PROVE FALSE
  BY <1>5 DEF Gossip, NewPeers, Alone
<1>6. ASSUME NEW n \in Node, NEW t \in User, Flood(n, t) \/ Poll(n, t) \/ Submit(n, t)
      PROVE  Alone'
  BY <1>6 DEF Flood, Poll, Submit, Alone
<1>7. ASSUME NEW n \in Node, Mine(n) PROVE Alone'
  BY <1>7 DEF Mine, Alone
<1>8. ASSUME NEW S \in ClerkPorts, NEW ps \in SUBSET S, NEW k \in ps, ClerkGossip(ps, k)
      PROVE  FALSE
  BY <1>8 DEF ClerkGossip, ClerkPeers, NoPeers
<1>9. ASSUME UNCHANGED vars PROVE Alone'
  BY <1>9 DEF vars, Alone
<1>10. (\E m \in txMsgs : RecvTx(m)) \/ (\E m \in blockMsgs : RecvBlock(m)) => FALSE
  BY DEF Alone
<1> QED
  BY <1>2, <1>3, <1>4, <1>5, <1>6, <1>7, <1>8, <1>9, <1>10 DEF Next, NodesNext, ClerksNext

\* A step of one node, after which what waits there is counted.
LEMMA OneCounted ==
    ASSUME NEW n \in Node, NEW new, NodesOK, \A m \in Node : Counted(node[m]),
           node' = [node EXCEPT ![n] = new], Counted(new)
    PROVE  \A m \in Node : Counted(node'[m])
<1>1. \A m \in Node : node'[m] = IF m = n THEN new ELSE node[m]
  BY DEF NodesOK
<1> QED
  BY <1>1

\* Every step of a node without peers keeps the count.
LEMMA CountedStep ==
    ASSUME Shape, Alone, \A n \in Node : Counted(node[n]), [Next]_vars
    PROVE  \A n \in Node : Counted(node'[n])
<1>1. /\ NodesOK /\ BlocksOK /\ ForkStoresEmpty
      /\ node = [m \in Node |-> node[m]]
      /\ \A n \in Node : /\ node[n].numPending \in Int
                         /\ node[n].PendingTxs \in [User -> Status]
                         /\ Plain(node[n])
  BY GoodIsPlain DEF Shape, TypeOK, NodesOK, BlocksOK, IsNode, ForkStoresEmpty, Good
<1>2. ASSUME NEW n \in Node, StartDRNode(n) PROVE \A m \in Node : Counted(node'[m])
  <2>1. Waiting(bootstrap) = {} /\ bootstrap.numPending = 0
    BY DEF Waiting, bootstrap
  <2>2. Counted(bootstrap)
    BY <2>1, FS_EmptySet DEF Counted
  <2> QED
    BY <1>1, <1>2, <2>2, OneCounted DEF StartDRNode
<1>3. ASSUME NEW n \in Node, Dial(n) \/ GetBlockLog(n) \/ replayLog(n) PROVE FALSE
  BY <1>3 DEF Dial, GetBlockLog, replayLog, Alone, Shape, TypeOK, NetworkOK
<1>4. ASSUME UNCHANGED node PROVE \A m \in Node : Counted(node'[m])
  BY <1>4
<1>5. ASSUME NEW n \in Node, Crash(n) PROVE \A m \in Node : Counted(node'[m])
  <2>1. PICK new : new = [node[n] EXCEPT !.panicked = TRUE]
    OBVIOUS
  <2>2. new.PendingTxs = node[n].PendingTxs /\ new.numPending = node[n].numPending
    BY <1>1, <2>1, SetPanicked, RecFields
  <2>3. Counted(new)
    BY <1>1, <2>2, CountedFewer
  <2>4. node' = [node EXCEPT ![n] = new]
    BY <1>5, <2>1 DEF Crash
  <2> QED
    BY <1>1, <2>3, <2>4, OneCounted
<1>6. ASSUME NEW n \in Node, NEW t \in User, Poll(n, t) PROVE \A m \in Node : Counted(node'[m])
  <2>1. PICK status, new : status = [node[n].PendingTxs EXCEPT ![t] = "HANDLED"]
                           /\ new = [node[n] EXCEPT !.PendingTxs = status]
    OBVIOUS
  <2>2. new.PendingTxs = status /\ new.numPending = node[n].numPending
    BY <1>1, <2>1, SetStatus, RecFields
  <2>3. \A u \in User : new.PendingTxs[u] = "PENDING" => node[n].PendingTxs[u] = "PENDING"
    BY <1>1, <2>1, <2>2
  <2>4. Counted(new)
    BY <1>1, <2>2, <2>3, CountedFewer
  <2>5. node' = [node EXCEPT ![n] = new]
    BY <1>6, <2>1 DEF Poll
  <2> QED
    BY <1>1, <2>4, <2>5, OneCounted
<1>7. ASSUME NEW n \in Node, NEW t \in User, Submit(n, t) PROVE \A m \in Node : Counted(node'[m])
  <2>1. AppendTx(n, t)
    BY <1>7 DEF Submit
  <2> DEFINE st == node[n]
             status == [st.PendingTxs EXCEPT ![t] = "PENDING"]
             made(torn) == Rec(st.Blockchain, st.Log, st.Utxo, status, st.numPending + 1, torn)
  <2>2. UNCHANGED node \/ \E torn \in BOOLEAN : node' = [node EXCEPT ![n] = made(torn)]
    BY <1>1, <2>1, AppendTxCases
  <2>3. ASSUME NEW torn \in BOOLEAN, node' = [node EXCEPT ![n] = made(torn)]
        PROVE  \A m \in Node : Counted(node'[m])
    <3>1. PICK new : new = made(torn)
      OBVIOUS
    <3>2. new.PendingTxs = status /\ new.numPending = st.numPending + 1
      BY <3>1, RecFields
    <3>3. Counted(new)
      BY <1>1, <3>2, CountedAppend
    <3> HIDE DEF made
    <3> QED
      BY <1>1, <2>3, <3>1, <3>3, OneCounted
  <2> QED
    BY <1>4, <2>2, <2>3
<1>8. ASSUME NEW n \in Node, Mine(n) PROVE \A m \in Node : Counted(node'[m])
  <2> DEFINE st == node[n]
             b == Len(blocks) + 1
             log == Append(st.Log, b)
  <2>1. PICK txs \in Seq(User), torn \in BOOLEAN :
           LET all == Append(txs, MakeCoinbaseTx(txs, MinerKey[n]))
               new == Extended(st, log, Sifted(blocks', st), b, all)
           IN  /\ txs \in SetToSeqs(selected(blocks, st))
               /\ node' = [node EXCEPT ![n] = [new EXCEPT !.panicked = @ \/ torn]]
    BY <1>1, <1>8, MineStep
  <2>2. PICK h, all, mid :
           /\ h = MakeCoinbaseTx(txs, MinerKey[n]) /\ all = Append(txs, h)
           /\ mid = Extended(st, log, Sifted(blocks', st), b, all)
    OBVIOUS
  <2>3. mid.PendingTxs = Confirmed(Sifted(blocks', st), all)
        /\ mid.numPending = st.numPending - (Len(all) - 1)
    BY <2>2, RecFields DEF Extended
  <2>4. PICK new : new = [mid EXCEPT !.panicked = @ \/ torn]
    OBVIOUS
  <2>5. new.PendingTxs = mid.PendingTxs /\ new.numPending = mid.numPending
    BY <2>2, <2>4 DEF Extended, Rec
  <2>6. Counted(new)
    BY <1>1, <2>1, <2>2, <2>3, <2>5, CountedMine
  <2>7. node' = [node EXCEPT ![n] = new]
    BY <2>1, <2>2, <2>4, Zenon
  <2> QED
    BY <1>1, <2>6, <2>7, OneCounted
<1>9. (\E m \in txMsgs : RecvTx(m)) \/ (\E m \in blockMsgs : RecvBlock(m)) => FALSE
  BY DEF Alone
<1>10. ASSUME NEW n \in Node, NEW t \in User, Flood(n, t) PROVE UNCHANGED node
  BY <1>10 DEF Flood
<1>11. ASSUME NEW n \in Node, Listen(n) \/ Kill(n) PROVE UNCHANGED node
  BY <1>11 DEF Listen, Kill
<1>12. (\E c, k \in Node : Gossip(c, k)) \/ UNCHANGED vars
       \/ (\E S \in ClerkPorts : \E ps \in SUBSET S : \E k \in ps : ClerkGossip(ps, k))
         => UNCHANGED node
  BY DEF Gossip, ClerkGossip, vars
<1> QED
  BY <1>2, <1>3, <1>4, <1>5, <1>6, <1>7, <1>8, <1>9, <1>10, <1>11, <1>12
     DEF Next, NodesNext, ClerksNext

\* A transaction that waits at a node without peers is counted in numPending, so
\* that mine() sees that there is something to do: whatever the threshold, the
\* order in which blocks are filled and the transactions that are rejected.
THEOREM AloneCounted == NoPeers => (Spec => []PendingCounted)
<1> SUFFICES ASSUME NoPeers PROVE Spec => []PendingCounted
  OBVIOUS
<1> DEFINE Inv == Alone /\ \A n \in Node : Counted(node[n])
<1>1. Init => Inv
  <2>1. Waiting(bootstrap) = {} /\ bootstrap.numPending = 0
    BY DEF Waiting, bootstrap
  <2>2. Counted(bootstrap)
    BY <2>1, FS_EmptySet DEF Counted
  <2> QED
    BY <2>2 DEF Init, Alone
<1>2. Shape /\ Inv /\ [Next]_vars => Inv'
  BY AloneStep, CountedStep
<1>3. Inv => PendingCounted
  BY DEF Counted, Waiting, PendingCounted
<1> HIDE DEF Inv
<1> QED
  BY <1>1, <1>2, <1>3, ShapeInvariant, PTL DEF Spec
-----------------------------------------------------------------------------
(* The network of nodes implements Chain. *)

chains == [n \in Node |-> node[n].Blockchain]
dbs == [n \in Node |-> node[n].Utxo]

\* A node that accepts a block, with all others idle, grows in Chain.
LEMMA AcceptsGrows ==
    ASSUME NEW n \in Node, NEW bs, NEW b, Accepts(bs, node[n], node'[n], b),
           \A m \in Node \ {n} : Idle(node[m], node'[m])
    PROVE  ledger!Grow(n, bs, b)
<1> DEFINE at == [Blockchain |-> node[n].Blockchain, Utxo |-> node[n].Utxo]
<1>1. at.Blockchain = node[n].Blockchain /\ at.Utxo = node[n].Utxo
  OBVIOUS
<1>2. bs[b].prev = tip(at) /\ ValidateBlock(bs[b])
  BY <1>1 DEF Accepts, tip
<1>3. validateBlockTxs(bs, at, bs[b])
  <2>1. PICK st, other : st = node[n] /\ other = at
    OBVIOUS
  <2>2. validateBlockTxs(bs, st, bs[b]) /\ TxsOf(bs, st.Blockchain) = TxsOf(bs, st.Blockchain)
    BY <2>1 DEF Accepts
  <2> HIDE DEF at
  <2> QED
    BY <1>1, <2>1, <2>2, ValidAlike
<1>4. Fits(bs, chains[n], dbs[n], bs[b])
  BY <1>2, <1>3 DEF Fits, chains, dbs
<1>5. chains' = [chains EXCEPT ![n] = Append(chains[n], b)]
  BY DEF Accepts, Idle, chains
<1>6. dbs' = [dbs EXCEPT ![n] = After(dbs[n], bs[b])]
  BY DEF Accepts, Idle, dbs, After
<1> QED
  BY <1>4, <1>5, <1>6 DEF ledger!Grow, chains, dbs

\* Every step of the network is one of Chain, or none.
LEMMA StepRefines ==
    ASSUME Shape, Fresh, [Next]_vars
    PROVE  ledger!Next \/ UNCHANGED <<blocks, chains, dbs>>
<1>1. ASSUME NEW n \in Node, Mines(n) PROVE ledger!Mine(n)
  <2>1. \A m \in Node \ {n} : Idle(node[m], node'[m])
    BY <1>1 DEF Mines, Idle
  <2>2. /\ Accepts(blocks', node[n], node'[n], Len(blocks'))
        /\ Len(blocks') = Len(blocks) + 1 /\ \A i \in 1..Len(blocks) : blocks'[i] = blocks[i]
    BY <1>1 DEF Mines
  <2>3. ledger!Grow(n, blocks', Len(blocks'))
    <3>1. PICK bs, b : bs = blocks' /\ b = Len(blocks')
      OBVIOUS
    <3>2. ledger!Grow(n, bs, b)
      BY <2>1, <2>2, <3>1, AcceptsGrows
    <3> QED
      BY <3>1, <3>2 DEF ledger!Grow
  <2> QED
    BY <2>2, <2>3 DEF ledger!Mine
<1>2. ASSUME Moves, \A n \in Node : Idle(node[n], node'[n])
      PROVE  UNCHANGED <<blocks, chains, dbs>>
  BY <1>2 DEF Moves, Idle, chains, dbs
<1>3. ASSUME Moves, NEW n \in Node, \A m \in Node \ {n} : Idle(node[m], node'[m]),
             NEW b \in 1..Len(blocks), Accepts(blocks, node[n], node'[n], b)
      PROVE  ledger!Accept(n)
  <2>1. ledger!Grow(n, blocks, b)
    BY <1>3, AcceptsGrows
  <2> QED
    BY <1>3, <2>1 DEF Moves, ledger!Accept
<1>4. (\E n \in Node : Mines(n)) \/ Moves
  BY StepMoves
<1> QED
  BY <1>1, <1>2, <1>3, <1>4 DEF Moves, ledger!Next

\* Whatever order blocks arrive in, and whichever nodes join, crash or are
\* killed, the nodes together only ever do what an append-only ledger of valid
\* blocks does.
THEOREM Implements == Spec => ImplementsChain
<1>1. Init => ledger!Init
  BY DEF Init, ledger!Init, bootstrap
<1>2. Shape /\ Fresh /\ [Next]_vars => [ledger!Next]_(ledger!vars)
  BY StepRefines DEF ledger!vars, chains, dbs
<1> QED
  BY <1>1, <1>2, FreshInvariant, PTL DEF Spec, ImplementsChain, ledger!Spec
=============================================================================
