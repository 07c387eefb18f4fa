---------------------------- MODULE MinerProofs ----------------------------
(***************************************************************************)
(* Proofs about Miner, for any nodes, transactions, keys and bounds.       *)
(***************************************************************************)
EXTENDS Miner, FiniteSetTheorems, TLAPS

\* A node whose lists of side chains and orphan chains are empty.
Rec(chain, log, utxo, status, num, panicked) ==
    [Blockchain |-> chain, SideChains |-> <<>>, OrphanChains |-> <<>>, tree |-> <<>>,
     Log |-> log, Utxo |-> utxo, PendingTxs |-> status, numPending |-> num,
     panicked |-> panicked]

Plain(st) ==
    /\ st = [Blockchain |-> st.Blockchain, SideChains |-> st.SideChains,
             OrphanChains |-> st.OrphanChains, tree |-> st.tree, Log |-> st.Log,
             Utxo |-> st.Utxo, PendingTxs |-> st.PendingTxs,
             numPending |-> st.numPending, panicked |-> st.panicked]
    /\ st.SideChains = <<>> /\ st.OrphanChains = <<>> /\ st.tree = <<>>
    /\ st.Blockchain \in Seq(Nat) /\ st.Blockchain # <<>>

\* No node ever has a record of a side chain, an orphan chain or a tree. The
\* comments at miner.go:50-51 and 394 want these records kept, and run forked
\* shows what comes of it; the proofs need to know that SendBlock keeps none.
ForkStoresEmpty ==
    \A n \in Node :
        node[n].SideChains = <<>> /\ node[n].OrphanChains = <<>> /\ node[n].tree = <<>>
-----------------------------------------------------------------------------
(* SendBlock at a node without side chains. *)

\* Searching no trees finds nothing.
LEMMA AttachNone ==
    ASSUME NEW found, NEW b, NEW p
    PROVE  Attach(found, <<>>, b, p) = [tree |-> found.tree, cur |-> found.cur, seen |-> FALSE]
<1> DEFINE tree == found.tree
           at == [k \in DOMAIN <<>> |-> FindParent(tree, <<>>[k], p, b)]
           seen == {k \in DOMAIN <<>> : at[k] = Seen}
           hits == {k \in DOMAIN <<>> : at[k] > 0 /\ \A j \in seen : k < j}
<1>1. seen = {} /\ hits = {}
  OBVIOUS
<1> HIDE DEF at, seen, hits
<1>2. (hits = {}) = TRUE /\ (seen # {}) = FALSE
  BY <1>1
<1> QED
  BY <1>2, Zenon DEF Attach, at, seen, hits, tree

\* A block whose parent is not the tip starts a side chain no longer than the
\* main chain.
LEMMA NewSideChainShort ==
    ASSUME NEW bs, NEW st, NEW b, Plain(st), bs[b].prev # tip(st)
    PROVE  LET sc == NewSideChain(bs, st, b)
           IN  /\ sc.Depth = 0 /\ sc.ParentIndex \in Int
               /\ sc.ParentIndex = -1 \/ sc.ParentIndex + 2 <= Len(st.Blockchain)
<1> DEFINE parents == {i \in DOMAIN st.Blockchain : st.Blockchain[i] = bs[b].prev}
           i == CHOOSE i \in parents : TRUE
<1>1. CASE parents = {}
  BY <1>1 DEF NewSideChain
<1>2. CASE parents # {}
  <2>1. i \in parents
    BY <1>2
  <2>2. i \in 1..Len(st.Blockchain) /\ i # Len(st.Blockchain)
    BY <2>1 DEF tip, Plain
  <2>3. NewSideChain(bs, st, b).ParentIndex = i - 1
    BY <1>2 DEF NewSideChain
  <2>4. Len(st.Blockchain) \in Nat
    BY DEF Plain
  <2> QED
    BY <2>2, <2>3, <2>4 DEF NewSideChain
<1> QED
  BY <1>1, <1>2

\* So such a block leaves the node as it was.
LEMMA OffMainChainDrops ==
    ASSUME NEW bs, NEW st, NEW b, Plain(st), bs[b].prev # tip(st)
    PROVE  OffMainChain(bs, st, b) = st
<1> DEFINE found == [tree |-> <<>>, cur |-> 0, seen |-> FALSE]
           sc == NewSideChain(bs, st, b)
           tree == Append(<<>>, sc)
<1>1. OffMainChain(bs, st, b) = Settle(bs, st, b, found)
  <2>1. st.SideChains = <<>> /\ st.OrphanChains = <<>> /\ st.tree = <<>>
    BY DEF Plain
  <2>2. found = [tree |-> found.tree, cur |-> found.cur, seen |-> FALSE]
    OBVIOUS
  <2>3. found = [tree |-> st.tree, cur |-> 0, seen |-> FALSE] /\ found.seen = FALSE
    BY <2>1
  <2> HIDE DEF found
  <2>4. Attach(found, <<>>, b, bs[b].prev) = found
    BY <2>2, AttachNone
  <2> QED
    BY <2>1, <2>3, <2>4 DEF OffMainChain
<1>2. tree[1] = sc
  OBVIOUS
<1>3. sc.ParentIndex = -1 \/ sc.Depth + sc.ParentIndex + 2 <= Len(st.Blockchain)
  BY NewSideChainShort DEF Plain
<1>4. Settle(bs, st, b, found) = [st EXCEPT !.OrphanChains = <<>>, !.tree = <<>>]
  BY <1>2, <1>3 DEF Settle, DeletePanics, DeleteLast, Plain
<1>5. [st EXCEPT !.OrphanChains = <<>>, !.tree = <<>>] = st
  BY DEF Plain
<1> QED
  BY <1>1, <1>4, <1>5

\* What assignments of a handler to a node do, field by field.
LEMMA SetLog ==
    ASSUME NEW st, NEW log, Plain(st)
    PROVE  [st EXCEPT !.Log = log] =
             Rec(st.Blockchain, log, st.Utxo, st.PendingTxs, st.numPending, st.panicked)
BY DEF Plain, Rec

\* Assigning the statuses, as Poll and mine do.
LEMMA SetStatus ==
    ASSUME NEW st, NEW status, Plain(st)
    PROVE  [st EXCEPT !.PendingTxs = status] =
             Rec(st.Blockchain, st.Log, st.Utxo, status, st.numPending, st.panicked)
BY DEF Plain, Rec

\* The end of the process.
LEMMA SetPanicked ==
    ASSUME NEW st, NEW panicked, Plain(st)
    PROVE  [st EXCEPT !.panicked = panicked] =
             Rec(st.Blockchain, st.Log, st.Utxo, st.PendingTxs, st.numPending, panicked)
BY DEF Plain, Rec

\* The assignments of AppendTx under mu.
LEMMA SetWaiting ==
    ASSUME NEW st, NEW status, NEW num, NEW panicked, Plain(st), NEW new,
           new = [st EXCEPT !.PendingTxs = status, !.numPending = num, !.panicked = panicked]
    PROVE  new = Rec(st.Blockchain, st.Log, st.Utxo, status, num, panicked)
BY DEF Plain, Rec

\* The fields of a plain node are the ones it was made of.
LEMMA RecIsPlain ==
    ASSUME NEW chain \in Seq(Nat), chain # <<>>, NEW log, NEW utxo, NEW status, NEW num, NEW panicked
    PROVE  LET st == Rec(chain, log, utxo, status, num, panicked)
           IN  /\ Plain(st)
               /\ st.Blockchain = chain /\ st.Log = log /\ st.Utxo = utxo
               /\ st.PendingTxs = status /\ st.numPending = num /\ st.panicked = panicked
BY DEF Plain, Rec

\* The statuses after a block with these transactions has been accepted.
Confirmed(status, txs) ==
    [t \in User |-> IF status[t] # "UNSEEN" /\ t \in ToSet(txs) THEN "SUCCESS" ELSE status[t]]

\* The node after block b has become its tip.
Extended(st, log, status, b, txs) ==
    Rec(Append(st.Blockchain, b), log, updateAll(st.Utxo, txs).db, Confirmed(status, txs),
        st.numPending - (Len(txs) - 1), ~updateAll(st.Utxo, txs).ok)

\* Accepting a block, field by field.
LEMMA ExtendFields ==
    ASSUME NEW bs, NEW st, NEW b, Plain(st)
    PROVE  Extend(bs, st, b) = Extended(st, st.Log, st.PendingTxs, b, bs[b].txs)
<1> DEFINE txs == bs[b].txs
           res == updateAll(st.Utxo, txs)
<1> HIDE DEF txs, res
<1>1. Extend(bs, st, b) =
        [st EXCEPT !.Blockchain = Append(st.Blockchain, b),
                   !.PendingTxs = Confirmed(st.PendingTxs, txs),
                   !.numPending = st.numPending - (Len(txs) - 1),
                   !.Utxo = res.db, !.panicked = ~res.ok]
  BY Zenon DEF Extend, Confirmed, txs, res
<1> QED
  BY <1>1 DEF Plain, Rec, Extended, txs, res

\* SendBlock appends to the log and drops the block, or accepts it as the new
\* tip after both validations.
LEMMA SendBlockCases ==
    ASSUME NEW bs, NEW st, NEW b, Plain(st)
    PROVE  LET log == Append(st.Log, b)
               new == SendBlock(bs, st, b)
           IN  \/ new = Rec(st.Blockchain, log, st.Utxo, st.PendingTxs, st.numPending, st.panicked)
               \/ /\ bs[b].prev = tip(st)
                  /\ ValidateBlock(bs[b]) /\ validateBlockTxs(bs, st, bs[b])
                  /\ new = Extended(st, log, st.PendingTxs, b, bs[b].txs)
<1> DEFINE log == Append(st.Log, b)
           logged == [st EXCEPT !.Log = log]
<1>1. logged = Rec(st.Blockchain, log, st.Utxo, st.PendingTxs, st.numPending, st.panicked)
  BY SetLog
<1>2. st.Blockchain \in Seq(Nat) /\ st.Blockchain # <<>>
  BY DEF Plain
<1> HIDE DEF log, logged
<1>3. /\ Plain(logged) /\ logged.Blockchain = st.Blockchain /\ logged.Log = log
      /\ logged.PendingTxs = st.PendingTxs /\ logged.Utxo = st.Utxo
      /\ logged.numPending = st.numPending
  BY <1>1, <1>2, RecIsPlain
<1>4. bs[b].prev # tip(st) => OffMainChain(bs, logged, b) = logged
  BY <1>3, OffMainChainDrops DEF tip
<1>5. Extend(bs, logged, b) = Extended(st, log, st.PendingTxs, b, bs[b].txs)
  BY <1>3, ExtendFields DEF Extended
<1>6. \/ SendBlock(bs, st, b) = logged
      \/ /\ bs[b].prev = tip(st)
         /\ ValidateBlock(bs[b]) /\ validateBlockTxs(bs, st, bs[b])
         /\ SendBlock(bs, st, b) = Extend(bs, logged, b)
  BY <1>2, <1>4, Zenon DEF SendBlock, logged, log
<1> QED
  BY <1>1, <1>5, <1>6 DEF log

\* The statuses after mine() has rejected what is not valid.
Sifted(bs, st) ==
    [t \in User |-> IF t \in rejected(bs, st) THEN "INVALID" ELSE st.PendingTxs[t]]

\* mine() rejects, logs its block and accepts it.
LEMMA MineFields ==
    ASSUME NEW bs, NEW st, NEW b, Plain(st)
    PROVE  mine(bs, st, b) = Extended(st, Append(st.Log, b), Sifted(bs, st), b, bs[b].txs)
<1> DEFINE log == Append(st.Log, b)
           marked == [st EXCEPT !.PendingTxs = Sifted(bs, st)]
           logged == [marked EXCEPT !.Log = log]
<1>1. mine(bs, st, b) = Extend(bs, [marked EXCEPT !.Log = Append(marked.Log, b)], b)
  BY Zenon DEF mine, Sifted
<1>2. marked = Rec(st.Blockchain, st.Log, st.Utxo, Sifted(bs, st), st.numPending, st.panicked)
  BY SetStatus
<1>3. st.Blockchain \in Seq(Nat) /\ st.Blockchain # <<>>
  BY DEF Plain
<1> HIDE DEF marked
<1>4. /\ Plain(marked) /\ marked.Blockchain = st.Blockchain /\ marked.Log = st.Log
      /\ marked.PendingTxs = Sifted(bs, st) /\ marked.Utxo = st.Utxo
      /\ marked.numPending = st.numPending
  BY <1>2, <1>3, RecIsPlain
<1>5. logged = Rec(st.Blockchain, log, st.Utxo, Sifted(bs, st), st.numPending, marked.panicked)
  BY <1>4, SetLog
<1> HIDE DEF logged, log
<1>6. /\ Plain(logged) /\ logged.Blockchain = st.Blockchain /\ logged.Log = log
      /\ logged.PendingTxs = Sifted(bs, st) /\ logged.Utxo = st.Utxo
      /\ logged.numPending = st.numPending
  BY <1>3, <1>5, RecIsPlain
<1>7. Extend(bs, logged, b) = Extended(st, log, Sifted(bs, st), b, bs[b].txs)
  BY <1>6, ExtendFields DEF Extended
<1> QED
  BY <1>1, <1>4, <1>7 DEF log, logged
-----------------------------------------------------------------------------
(* Types, and no block off the main chain. *)

Good(st, len) ==
    /\ IsNode(st, len)
    /\ st.SideChains = <<>> /\ st.OrphanChains = <<>> /\ st.tree = <<>>

\* A node of good shape is plain.
LEMMA GoodIsPlain ==
    ASSUME NEW len \in Nat, NEW st, Good(st, len)
    PROVE  Plain(st)
BY DEF Good, IsNode, Plain

\* A node made of fields of the right types has a good shape.
LEMMA GoodRec ==
    ASSUME NEW len \in Nat, NEW utxo,
           NEW chain \in Seq(1..len), chain # <<>>, NEW log \in Seq(1..len),
           NEW status \in [User -> Status], NEW num \in Int, NEW panicked \in BOOLEAN
    PROVE  Good(Rec(chain, log, utxo, status, num, panicked), len)
BY DEF Good, IsNode, Rec

\* A block that joins the chain of a node, by any of the ways.
LEMMA GoodExtended ==
    ASSUME NEW len \in Nat, NEW st, NEW chain \in Seq(1..len),
           st.Blockchain = chain, st.numPending \in Int,
           NEW log \in Seq(1..len), NEW status \in [User -> Status],
           NEW b \in 1..len, NEW txs \in Seq(TxHash)
    PROVE  Good(Extended(st, log, status, b, txs), len)
<1>1. Append(st.Blockchain, b) \in Seq(1..len) /\ Append(st.Blockchain, b) # <<>>
  <2>1. Append(chain, b) \in Seq(1..len) /\ Len(Append(chain, b)) = Len(chain) + 1
    OBVIOUS
  <2>2. Len(chain) + 1 # 0 /\ Len(<<>>) = 0
    OBVIOUS
  <2> QED
    BY <2>1, <2>2
<1>2. Confirmed(status, txs) \in [User -> Status]
  BY DEF Confirmed, Status
<1>3. st.numPending - (Len(txs) - 1) \in Int
  OBVIOUS
<1>4. (~updateAll(st.Utxo, txs).ok) \in BOOLEAN
  BY Zenon
<1> QED
  BY <1>1, <1>2, <1>3, <1>4, GoodRec DEF Extended

\* SendBlock keeps the shape of a node, whichever block it is given.
LEMMA GoodSendBlock ==
    ASSUME NEW len \in Nat, NEW bs, NEW st, Good(st, len), NEW b \in 1..len, IsBlock(bs[b], b)
    PROVE  Good(SendBlock(bs, st, b), len)
<1> DEFINE log == Append(st.Log, b)
<1>1. Plain(st)
  BY GoodIsPlain
<1>2. /\ st.Blockchain \in Seq(1..len) /\ st.Blockchain # <<>>
      /\ log \in Seq(1..len)
      /\ st.PendingTxs \in [User -> Status] /\ st.numPending \in Int /\ st.panicked \in BOOLEAN
  BY DEF Good, IsNode
<1>3. bs[b].txs \in Seq(TxHash)
  BY DEF IsBlock
<1>4. CASE SendBlock(bs, st, b) =
             Rec(st.Blockchain, log, st.Utxo, st.PendingTxs, st.numPending, st.panicked)
  BY <1>2, <1>4, GoodRec
<1>5. CASE SendBlock(bs, st, b) = Extended(st, log, st.PendingTxs, b, bs[b].txs)
  BY <1>2, <1>3, <1>5, GoodExtended
<1> QED
  BY <1>1, <1>4, <1>5, SendBlockCases

\* A crash leaves the rest of a node as it was.
LEMMA GoodCrash ==
    ASSUME NEW len \in Nat, NEW st, Good(st, len), NEW p \in BOOLEAN,
           NEW new, new = [st EXCEPT !.panicked = p]
    PROVE  /\ Good(new, len)
           /\ new.Blockchain = st.Blockchain /\ new.Log = st.Log /\ new.Utxo = st.Utxo
           /\ new.PendingTxs = st.PendingTxs /\ new.panicked = p
<1>1. new = Rec(st.Blockchain, st.Log, st.Utxo, st.PendingTxs, st.numPending, p)
  BY DEF Good, IsNode, Rec
<1> QED
  BY <1>1 DEF Good, IsNode, Rec

\* More blocks may be mined meanwhile.
LEMMA GoodLater ==
    ASSUME NEW st, NEW len \in Nat, NEW more \in Nat, len <= more, Good(st, len)
    PROVE  Good(st, more)
<1>1. 1..len \subseteq 1..more
  OBVIOUS
<1>2. \A s \in Seq(1..len) : s \in Seq(1..more)
  BY <1>1
<1> QED
  BY <1>2 DEF Good, IsNode

\* The transactions a miner selected, in the order it met them.
LEMMA SelectedSeq ==
    ASSUME NEW S \in SUBSET User, NEW txs \in SetToSeqs(S)
    PROVE  txs \in Seq(S) /\ Len(txs) \in Nat /\ Len(txs) <= Cardinality(User)
<1>1. IsFiniteSet(User) /\ IsFiniteSet(S) /\ Cardinality(S) <= Cardinality(User)
  BY FS_Subset, HashAssumption
<1>2. Cardinality(S) \in Nat
  BY <1>1, FS_CardinalityType
<1>3. txs \in [1..Cardinality(S) -> S]
  BY DEF SetToSeqs
<1> QED
  BY <1>1, <1>2, <1>3

\* The reward of a block: the sum fits in its uint32, and no user transaction has
\* its hash.
LEMMA CoinbaseOf ==
    ASSUME NEW k \in Key, NEW txs, Len(txs) \in Nat, Len(txs) <= Cardinality(User)
    PROVE  LET h == MakeCoinbaseTx(txs, k)
           IN  /\ CoinbaseValue(Len(txs)) = TX_COINBASE + Len(txs) * TX_FEE
               /\ h = <<PKHash(k), CoinbaseValue(Len(txs))>>
               /\ h \in TxHash /\ h \notin User /\ h # GenesisTx
<1>1. Cardinality(User) \in Nat
  BY HashAssumption, FS_CardinalityType
<1>2. Len(txs) * TX_FEE = Len(txs) /\ Cardinality(User) * TX_FEE = Cardinality(User)
  BY <1>1 DEF TX_FEE
<1>3. Len(txs) + TX_COINBASE \in Nat /\ Len(txs) + TX_COINBASE < UintMod
  BY <1>1, <1>2, UintAssumption DEF TX_COINBASE
<1>4. (Len(txs) + TX_COINBASE) % UintMod = Len(txs) + TX_COINBASE
  BY <1>3, UintAssumption
<1>5. /\ CoinbaseValue(Len(txs)) = TX_COINBASE + Len(txs) * TX_FEE
      /\ CoinbaseValue(Len(txs)) \in Nat
  BY <1>2, <1>3, <1>4 DEF CoinbaseValue, TX_COINBASE
<1>6. Len(txs) \in 0..Cardinality(User)
  BY <1>1
<1>7. MakeCoinbaseTx(txs, k) = CoinbaseHash(k, TX_COINBASE + Len(txs) * TX_FEE)
  BY <1>5 DEF MakeCoinbaseTx
<1>8. MakeCoinbaseTx(txs, k) \notin User \cup {GenesisTx}
  BY <1>6, <1>7, HashAssumption
<1>9. MakeCoinbaseTx(txs, k) = <<PKHash(k), CoinbaseValue(Len(txs))>>
  BY DEF MakeCoinbaseTx, CoinbaseHash
<1> QED
  BY <1>5, <1>8, <1>9 DEF TxHash

\* What the section of AppendTx under mu does to the node.
LEMMA AppendTxCases ==
    ASSUME NEW n \in Node, NEW t \in User, AppendTx(n, t),
           node = [m \in Node |-> node[m]], Plain(node[n]),
           node[n].PendingTxs \in [User -> Status]
    PROVE  LET st == node[n]
           IN  \/ UNCHANGED <<node, handler>>
               \/ /\ st.PendingTxs[t] = "UNSEEN"
                  /\ handler' = [handler EXCEPT ![n][t] = "flood"]
                  /\ \E torn \in BOOLEAN :
                       node' = [node EXCEPT ![n] =
                                  Rec(st.Blockchain, st.Log, st.Utxo,
                                      [st.PendingTxs EXCEPT ![t] = "PENDING"],
                                      st.numPending + 1, torn)]
<1> DEFINE st == node[n]
<1> SUFFICES ASSUME ~UNCHANGED <<node, handler>>
             PROVE  /\ st.PendingTxs[t] = "UNSEEN"
                    /\ handler' = [handler EXCEPT ![n][t] = "flood"]
                    /\ \E torn \in BOOLEAN :
                         node' = [node EXCEPT ![n] =
                                    Rec(st.Blockchain, st.Log, st.Utxo,
                                        [st.PendingTxs EXCEPT ![t] = "PENDING"],
                                        st.numPending + 1, torn)]
  OBVIOUS
<1>1. /\ st.PendingTxs[t] = "UNSEEN"
      /\ handler' = [handler EXCEPT ![n][t] = "flood"]
      /\ \E torn \in Torn(n) :
           node' = [node EXCEPT ![n].PendingTxs[t] = "PENDING",
                                ![n].numPending = @ + 1, ![n].panicked = torn]
  BY DEF AppendTx
<1>2. PICK torn \in Torn(n) :
           node' = [node EXCEPT ![n].PendingTxs[t] = "PENDING",
                                ![n].numPending = @ + 1, ![n].panicked = torn]
  BY <1>1
<1>3. torn \in BOOLEAN
  BY DEF Torn
<1> DEFINE new == [st EXCEPT !.PendingTxs = [st.PendingTxs EXCEPT ![t] = "PENDING"],
                            !.numPending = st.numPending + 1,
                            !.panicked = torn]
<1>4. node' = [node EXCEPT ![n] = new]
  BY <1>2
<1>5. new = Rec(st.Blockchain, st.Log, st.Utxo, [st.PendingTxs EXCEPT ![t] = "PENDING"],
                st.numPending + 1, torn)
  <2>1. PICK other : other = new
    OBVIOUS
  <2> QED
    BY <2>1, SetWaiting
<1> QED
  BY <1>1, <1>3, <1>4, <1>5

\* A step that leaves the blocks alone and one node in good order.
LEMMA NodeStep ==
    ASSUME BlocksOK, NodesOK, ForkStoresEmpty, NEW n \in Node, NEW new,
           Good(new, Len(blocks)), node' = [node EXCEPT ![n] = new], blocks' = blocks
    PROVE  BlocksOK' /\ NodesOK' /\ ForkStoresEmpty'
<1>1. BlocksOK'
  BY DEF BlocksOK
<1>2. \A m \in Node : Good(node[m], Len(blocks))
  BY DEF NodesOK, ForkStoresEmpty, Good
<1>3. node' = [m \in Node |-> node'[m]] /\ \A m \in Node : node'[m] = IF m = n THEN new ELSE node[m]
  BY DEF NodesOK
<1>4. \A m \in Node : Good(node'[m], Len(blocks'))
  BY <1>2, <1>3
<1> QED
  BY <1>1, <1>3, <1>4 DEF NodesOK, ForkStoresEmpty, Good

\* bootstrap makes a node of good shape.
LEMMA GoodBootstrap ==
    ASSUME NEW len \in Nat, len >= 1
    PROVE  Good(bootstrap, len)
<1>1. <<1>> \in Seq(1..len) /\ <<1>> # <<>>
  OBVIOUS
<1>2. [t \in User |-> "UNSEEN"] \in [User -> Status]
  BY DEF Status
<1>3. bootstrap = Rec(<<1>>, <<1>>, GenesisUtxo, [t \in User |-> "UNSEEN"], 0, FALSE)
  BY DEF bootstrap, Rec
<1>4. 0 \in Int /\ FALSE \in BOOLEAN
  OBVIOUS
<1> QED
  BY <1>1, <1>2, <1>3, <1>4, GoodRec, Zenon

\* The step of Mine on the blocks and the node of the miner.
LEMMA MineStep ==
    ASSUME BlocksOK, NodesOK, ForkStoresEmpty, NEW n \in Node, Mine(n)
    PROVE  \E txs \in Seq(User), torn \in BOOLEAN :
             LET b == Len(blocks) + 1
                 st == node[n]
                 all == Append(txs, MakeCoinbaseTx(txs, MinerKey[n]))
                 new == Extended(st, Append(st.Log, b), Sifted(blocks', st), b, all)
             IN  /\ txs \in SetToSeqs(selected(blocks, st))
                 /\ Len(txs) <= Cardinality(User)
                 /\ blocks' = Append(blocks, Block(tip(st), all))
                 /\ node' = [node EXCEPT ![n] = [new EXCEPT !.panicked = @ \/ torn]]
                 /\ blockMsgs' = blockMsgs \cup {<<n, s, b>> : s \in servers[n]}
                 /\ UNCHANGED <<phase, todo, replay, servers, closed, txMsgs, handler>>
<1> DEFINE st == node[n]
           b == Len(blocks) + 1
<1>1. PICK txs \in SetToSeqs(selected(blocks, st)), torn \in Torn(n) :
         LET bs == Append(blocks, GenerateBlock(tip(st), txs, MinerKey[n]))
             mined == mine(bs, st, b)
         IN  /\ blocks' = bs
             /\ node' = [node EXCEPT ![n] = [mined EXCEPT !.panicked = @ \/ torn]]
             /\ blockMsgs' = blockMsgs \cup {<<n, s, b>> : s \in servers[n]}
  BY DEF Mine
<1> DEFINE all == Append(txs, MakeCoinbaseTx(txs, MinerKey[n]))
<1>2. torn \in BOOLEAN
  BY DEF Torn
<1>3. selected(blocks, st) \in SUBSET User
  BY DEF selected
<1>4. txs \in Seq(User) /\ Len(txs) <= Cardinality(User)
  BY <1>3, SelectedSeq
<1>5. Plain(st)
  BY GoodIsPlain DEF Good, NodesOK, ForkStoresEmpty, BlocksOK
<1>6. blocks' = Append(blocks, Block(tip(st), all))
  BY <1>1 DEF GenerateBlock
<1>7. blocks'[b].txs = all
  <2>1. blocks \in Seq({blocks[i] : i \in 1..Len(blocks)})
    BY DEF BlocksOK
  <2>2. blocks'[b] = Block(tip(st), all)
    BY <1>6, <2>1
  <2> QED
    BY <2>2 DEF Block
<1>8. mine(blocks', st, b) = Extended(st, Append(st.Log, b), Sifted(blocks', st), b, all)
  BY <1>5, <1>7, MineFields
<1> DEFINE new == Extended(st, Append(st.Log, b), Sifted(blocks', st), b, all)
<1>9. /\ node' = [node EXCEPT ![n] = [new EXCEPT !.panicked = @ \/ torn]]
      /\ blockMsgs' = blockMsgs \cup {<<n, s, b>> : s \in servers[n]}
  BY <1>1, <1>8, Zenon
<1>10. UNCHANGED <<phase, todo, replay, servers, closed, txMsgs, handler>>
  BY DEF Mine
<1> HIDE DEF st, b, all, new
<1> QED
  <2>1. txs \in Seq(User) /\ torn \in BOOLEAN
    BY <1>2, <1>4
  <2> QED
    BY <2>1, <1>1, <1>4, <1>6, <1>9, <1>10, Zenon DEF st, b, all, new

\* The miner's own step keeps blocks and nodes in order.
LEMMA MineGood ==
    ASSUME BlocksOK, NodesOK, ForkStoresEmpty, NEW n \in Node, Mine(n)
    PROVE  /\ BlocksOK' /\ NodesOK' /\ ForkStoresEmpty'
           /\ Len(blocks') = Len(blocks) + 1
<1> DEFINE st == node[n]
           b == Len(blocks) + 1
<1>1. PICK txs \in Seq(User), torn \in BOOLEAN :
         LET all == Append(txs, MakeCoinbaseTx(txs, MinerKey[n]))
             new == Extended(st, Append(st.Log, b), Sifted(blocks', st), b, all)
         IN  /\ Len(txs) <= Cardinality(User)
             /\ blocks' = Append(blocks, Block(tip(st), all))
             /\ node' = [node EXCEPT ![n] = [new EXCEPT !.panicked = @ \/ torn]]
  BY MineStep
<1> DEFINE all == Append(txs, MakeCoinbaseTx(txs, MinerKey[n]))
           log == Append(st.Log, b)
           new == Extended(st, log, Sifted(blocks', st), b, all)
<1>2. Good(st, Len(blocks)) /\ Len(blocks) \in Nat
  BY DEF Good, NodesOK, ForkStoresEmpty, BlocksOK
<1>3. all \in Seq(TxHash)
  <2>1. MinerKey[n] \in Key
    BY NodeAssumption
  <2>2. MakeCoinbaseTx(txs, MinerKey[n]) \in TxHash
    BY <1>1, <2>1, CoinbaseOf
  <2>3. txs \in Seq(TxHash)
    BY DEF TxHash
  <2> QED
    BY <2>2, <2>3
<1>4. /\ Len(blocks') = b /\ blocks' = [i \in 1..b |-> blocks'[i]]
      /\ blocks'[b] = Block(tip(st), all)
      /\ \A i \in 1..Len(blocks) : blocks'[i] = blocks[i]
  <2>1. blocks \in Seq({blocks[i] : i \in 1..Len(blocks)})
    BY DEF BlocksOK
  <2>2. blocks' = Append(blocks, Block(tip(st), all))
    BY <1>1
  <2> QED
    BY <2>1, <2>2
<1>5. tip(st) \in 1..Len(blocks)
  BY <1>2 DEF Good, IsNode, tip
<1>6. BlocksOK'
  <2>1. IsBlock(blocks'[b], b)
    BY <1>2, <1>3, <1>4, <1>5 DEF IsBlock, Block
  <2>2. \A i \in 1..Len(blocks) : IsBlock(blocks'[i], i)
    BY <1>4 DEF BlocksOK
  <2> QED
    BY <1>2, <1>4, <2>1, <2>2 DEF BlocksOK
<1>7. \A i \in Node : Good(node'[i], Len(blocks'))
  <2> DEFINE crashed == [new EXCEPT !.panicked = @ \/ torn]
  <2>1. \A s \in Seq(1..Len(blocks)) : s \in Seq(1..b)
    BY <1>2
  <2>2. /\ st.Blockchain \in Seq(1..b) /\ log \in Seq(1..b)
        /\ st.numPending \in Int /\ b \in 1..b /\ b \in Nat
    BY <1>2, <2>1 DEF Good, IsNode
  <2>3. Sifted(blocks', st) \in [User -> Status]
    BY <1>2 DEF Sifted, Good, IsNode, Status
  <2>4. Good(new, b)
    BY <1>3, <2>2, <2>3, GoodExtended
  <2> HIDE DEF new
  <2>5. Good(crashed, b)
    <3> DEFINE p == new.panicked \/ torn
    <3>1. p \in BOOLEAN
      BY Zenon
    <3> HIDE DEF p
    <3>2. PICK other : other = crashed
      OBVIOUS
    <3>3. other = [new EXCEPT !.panicked = p]
      BY <3>2 DEF p
    <3> QED
      BY <2>2, <2>4, <3>1, <3>2, <3>3, GoodCrash
  <2> HIDE DEF crashed
  <2>6. \A i \in Node : Good(node[i], b)
    BY <1>2, <2>2, GoodLater DEF NodesOK, ForkStoresEmpty, Good
  <2>7. \A i \in Node : node'[i] = IF i = n THEN crashed ELSE node[i]
    BY <1>1 DEF NodesOK, crashed, new
  <2> QED
    BY <1>4, <2>5, <2>6, <2>7
<1>8. node' = [i \in Node |-> node'[i]]
  BY <1>1 DEF NodesOK
<1> QED
  BY <1>4, <1>6, <1>7, <1>8 DEF NodesOK, ForkStoresEmpty, Good

\* A block whose parent comes before its own place.
LEMMA BlockAt ==
    ASSUME NEW b \in Nat, NEW prev \in 0..(b - 1), NEW txs \in Seq(TxHash),
           NEW block, block = Block(prev, txs)
    PROVE  IsBlock(block, b)
BY DEF IsBlock, Block

\* A list with one element fewer.
LEMMA HeadTail ==
    ASSUME NEW S, NEW s \in Seq(S), s # <<>>
    PROVE  Head(s) \in S /\ Tail(s) \in Seq(S)
OBVIOUS

\* The inductive invariant of the first results: neither part is inductive
\* alone, since a stored side chain could bring a nil block into the main chain.
\* That the stores stay empty is not what they are for (see LongestChain in
\* MCMiner), but what the proofs have to know of the code as it is.
Shape == TypeOK /\ ForkStoresEmpty

\* The shape holds before any node is started.
LEMMA ShapeInit == Init => Shape
<1> SUFFICES ASSUME Init PROVE Shape
  OBVIOUS
<1>1. Len(blocks) = 1 /\ blocks = [b \in 1..1 |-> blocks[b]] /\ blocks[1] = Block(0, <<GenesisTx>>)
  BY DEF Init, GenerateGenesisBlock
<1>2. BlocksOK
  <2>1. <<GenesisTx>> \in Seq(TxHash)
    BY DEF TxHash
  <2>2. IsBlock(blocks[1], 1)
    <3>1. 0 \in 0..(1 - 1) /\ 1 \in Nat
      OBVIOUS
    <3>2. PICK block : block = blocks[1]
      OBVIOUS
    <3> QED
      BY <1>1, <2>1, <3>1, <3>2, BlockAt
  <2> QED
    BY <1>1, <2>2 DEF BlocksOK
<1>3. \A n \in Node : Good(node[n], Len(blocks))
  BY <1>1, GoodBootstrap DEF Init
<1>4. NetworkOK
  BY DEF Init, NetworkOK
<1> QED
  BY <1>2, <1>3, <1>4 DEF Shape, TypeOK, NodesOK, ForkStoresEmpty, Good, Init

\* The network part of a step that leaves the nodes and blocks alone.
LEMMA StillNodes ==
    ASSUME Shape, UNCHANGED <<blocks, node>>, NetworkOK'
    PROVE  Shape'
BY DEF Shape, TypeOK, BlocksOK, NodesOK, ForkStoresEmpty

\* Every step of every action keeps the shape.
LEMMA ShapeStep == Shape /\ [Next]_vars => Shape'
<1> SUFFICES ASSUME Shape, [Next]_vars PROVE Shape'
  OBVIOUS
<1>1. /\ BlocksOK /\ NodesOK /\ ForkStoresEmpty /\ NetworkOK /\ Len(blocks) \in Nat
      /\ \A n \in Node : Good(node[n], Len(blocks))
  BY DEF Shape, TypeOK, BlocksOK, NodesOK, ForkStoresEmpty, Good
<1>2. \A b \in 1..Len(blocks) : IsBlock(blocks[b], b)
  BY <1>1 DEF BlocksOK
<1>3. ASSUME NEW n \in Node, StartDRNode(n) PROVE Shape'
  <2>1. Len(blocks) >= 1
    <3>1. node[n].Blockchain \in Seq(1..Len(blocks)) /\ node[n].Blockchain # <<>>
      BY <1>1 DEF Good, IsNode
    <3>2. Head(node[n].Blockchain) \in 1..Len(blocks)
      BY <3>1, HeadTail
    <3> QED
      BY <1>1, <3>2
  <2>2. BlocksOK' /\ NodesOK' /\ ForkStoresEmpty'
    BY <1>1, <1>3, <2>1, GoodBootstrap, NodeStep DEF StartDRNode
  <2>3. NetworkOK'
    BY <1>1, <1>3, NodeAssumption DEF StartDRNode, NetworkOK
  <2> QED
    BY <2>2, <2>3 DEF Shape, TypeOK
<1>4. ASSUME NEW n \in Node, Dial(n) PROVE Shape'
  <2>1. todo[n] \in Seq(Node) /\ todo[n] # <<>>
    BY <1>1, <1>4 DEF Dial, NetworkOK
  <2>2. Head(todo[n]) \in Node /\ Tail(todo[n]) \in Seq(Node)
    BY <2>1, HeadTail
  <2>3. /\ servers' \in [Node -> SUBSET Node]
        /\ UNCHANGED <<blocks, node, replay, closed, blockMsgs, txMsgs, handler>>
    <3>1. /\ servers' = servers \/ servers' = [servers EXCEPT ![n] = @ \cup {Head(todo[n])}]
          /\ UNCHANGED <<blocks, node, replay, closed, blockMsgs, txMsgs, handler>>
      BY <1>4 DEF Dial
    <3>2. servers \in [Node -> SUBSET Node]
      BY <1>1 DEF NetworkOK
    <3>3. PICK s \in Node : s = Head(todo[n])
      BY <2>2
    <3> QED
      BY <3>1, <3>2, <3>3
  <2>4. \/ /\ phase' = [phase EXCEPT ![n] = "fetch"]
           /\ todo' = todo
        \/ /\ phase' = phase
           /\ todo' = [todo EXCEPT ![n] = Tail(todo[n])]
    BY <1>1, <1>4 DEF Dial, NetworkOK
  <2>5. phase[n] = "dial"
    BY <1>4 DEF Dial
  <2>6. NetworkOK'
    BY <1>1, <2>1, <2>2, <2>3, <2>4, <2>5 DEF NetworkOK
  <2> QED
    BY <2>3, <2>6, StillNodes
<1>5. ASSUME NEW n \in Node, GetBlockLog(n) PROVE Shape'
  <2> DEFINE s == Head(todo[n])
             st == node[n]
  <2>1. todo[n] \in Seq(Node) /\ todo[n] # <<>>
    BY <1>1, <1>5 DEF GetBlockLog, NetworkOK
  <2>2. s \in Node /\ Tail(todo[n]) \in Seq(Node)
    BY <2>1
  <2>3. node[s].Log \in Seq(1..Len(blocks))
    BY <1>1, <2>2 DEF Good, IsNode
  <2>4. NetworkOK'
    BY <1>1, <1>5, <2>2, <2>3 DEF GetBlockLog, NetworkOK
  <2>5. CASE UNCHANGED <<node, replay>>
    BY <1>5, <2>4, <2>5, StillNodes DEF GetBlockLog
  <2>6. /\ st.Blockchain \in Seq(1..Len(blocks)) /\ st.Blockchain # <<>>
        /\ st.Log \in Seq(1..Len(blocks)) /\ st.PendingTxs \in [User -> Status]
        /\ st.numPending \in Int /\ st.panicked \in BOOLEAN
    BY <1>1 DEF Good, IsNode
  <2>7. CASE node' = [node EXCEPT ![n].Log = node[s].Log]
    <3> DEFINE new == Rec(st.Blockchain, node[s].Log, st.Utxo, st.PendingTxs, st.numPending,
                          st.panicked)
    <3>1. Plain(st)
      BY <1>1, GoodIsPlain
    <3>2. node' = [node EXCEPT ![n] = new]
      BY <2>7, <3>1, SetLog
    <3>3. Good(new, Len(blocks))
      BY <1>1, <2>3, <2>6, GoodRec
    <3> HIDE DEF new
    <3>4. BlocksOK' /\ NodesOK' /\ ForkStoresEmpty'
      BY <1>1, <1>5, <3>2, <3>3, NodeStep DEF GetBlockLog
    <3> QED
      BY <2>4, <3>4 DEF Shape, TypeOK
  <2> QED
    BY <1>5, <2>5, <2>7 DEF GetBlockLog
<1>6. ASSUME NEW n \in Node, replayLog(n) PROVE Shape'
  <2>1. replay[n] \in Seq(1..Len(blocks)) /\ replay[n] # <<>>
    BY <1>1, <1>6 DEF replayLog, NetworkOK
  <2>2. Head(replay[n]) \in 1..Len(blocks) /\ Tail(replay[n]) \in Seq(1..Len(blocks))
    BY <2>1, HeadTail
  <2>3. Good(SendBlock(blocks, node[n], Head(replay[n])), Len(blocks))
    BY <1>1, <1>2, <2>2, GoodSendBlock
  <2>4. node' = [node EXCEPT ![n] = SendBlock(blocks, node[n], Head(replay[n]))] /\ blocks' = blocks
    BY <1>6 DEF replayLog
  <2>5. BlocksOK' /\ NodesOK' /\ ForkStoresEmpty'
    BY <1>1, <2>3, <2>4, NodeStep
  <2>6. NetworkOK'
    BY <1>1, <1>6, <2>2 DEF replayLog, NetworkOK
  <2> QED
    BY <2>5, <2>6 DEF Shape, TypeOK
<1>7. ASSUME NEW n \in Node, Listen(n) \/ Kill(n) PROVE Shape'
  <2>1. NetworkOK'
    BY <1>1, <1>7 DEF Listen, Kill, NetworkOK
  <2> QED
    BY <1>7, <2>1, StillNodes DEF Listen, Kill
<1>8. ASSUME NEW c \in Node, NEW k \in Node, Gossip(c, k) PROVE Shape'
  <2>1. NewPeers(c, k) \subseteq Node
    BY <1>1 DEF NewPeers, NetworkOK
  <2>2. NetworkOK'
    BY <1>1, <1>8, <2>1 DEF Gossip, NetworkOK
  <2> QED
    BY <1>8, <2>2, StillNodes DEF Gossip
<1>17. ASSUME NEW n \in Node, Crash(n) PROVE Shape'
  <2>1. PICK new : new = [node[n] EXCEPT !.panicked = TRUE]
    OBVIOUS
  <2>2. Good(new, Len(blocks))
    BY <1>1, <2>1, GoodCrash
  <2>3. node' = [node EXCEPT ![n] = new] /\ blocks' = blocks
    BY <1>17, <2>1 DEF Crash
  <2>4. BlocksOK' /\ NodesOK' /\ ForkStoresEmpty'
    BY <1>1, <2>2, <2>3, NodeStep
  <2>5. NetworkOK'
    BY <1>1, <1>17 DEF Crash, NetworkOK
  <2> QED
    BY <2>4, <2>5 DEF Shape, TypeOK
<1>18. ASSUME NEW S \in ClerkPorts, NEW ps \in SUBSET S, NEW k \in ps, ClerkGossip(ps, k)
       PROVE  Shape'
  <2>1. k \in Node /\ ClerkPeers(ps, k) \subseteq Node
    BY NodeAssumption DEF ClerkPeers
  <2>2. NetworkOK'
    BY <1>1, <1>18, <2>1 DEF ClerkGossip, NetworkOK
  <2> QED
    BY <1>18, <2>2, StillNodes DEF ClerkGossip
<1>9. ASSUME NEW n \in Node, NEW t \in User, AppendTx(n, t), blocks' = blocks,
             UNCHANGED <<phase, todo, replay, servers, closed, blockMsgs>>,
             txMsgs' \subseteq txMsgs
      PROVE  Shape'
  <2> DEFINE st == node[n]
  <2>1. Plain(st) /\ st.PendingTxs \in [User -> Status] /\ node = [m \in Node |-> node[m]]
    BY <1>1, GoodIsPlain DEF Good, IsNode, NodesOK
  <2>2. /\ st.Blockchain \in Seq(1..Len(blocks)) /\ st.Blockchain # <<>>
        /\ st.Log \in Seq(1..Len(blocks)) /\ st.PendingTxs \in [User -> Status]
        /\ st.numPending \in Int /\ st.panicked \in BOOLEAN
    BY <1>1 DEF Good, IsNode
  <2>3. CASE UNCHANGED <<node, handler>>
    <3>1. NetworkOK'
      BY <1>1, <1>9, <2>3 DEF NetworkOK
    <3> QED
      BY <1>9, <2>3, <3>1, StillNodes
  <2>4. CASE /\ handler' = [handler EXCEPT ![n][t] = "flood"]
             /\ \E torn \in BOOLEAN :
                  node' = [node EXCEPT ![n] =
                             Rec(st.Blockchain, st.Log, st.Utxo,
                                 [st.PendingTxs EXCEPT ![t] = "PENDING"],
                                 st.numPending + 1, torn)]
    <3> DEFINE new(torn) == Rec(st.Blockchain, st.Log, st.Utxo,
                                [st.PendingTxs EXCEPT ![t] = "PENDING"], st.numPending + 1, torn)
    <3>1. PICK torn \in BOOLEAN : node' = [node EXCEPT ![n] = new(torn)]
      BY <2>4
    <3>2. Good(new(torn), Len(blocks))
      <4>1. [st.PendingTxs EXCEPT ![t] = "PENDING"] \in [User -> Status]
        BY <2>1 DEF Status
      <4>2. st.numPending + 1 \in Int
        BY <2>2
      <4> HIDE DEF st
      <4> QED
        BY <1>1, <2>2, <3>1, <4>1, <4>2, GoodRec
    <3> HIDE DEF new
    <3>3. BlocksOK' /\ NodesOK' /\ ForkStoresEmpty'
      BY <1>1, <1>9, <3>1, <3>2, NodeStep
    <3>4. NetworkOK'
      BY <1>1, <1>9, <2>4 DEF NetworkOK
    <3> QED
      BY <3>3, <3>4 DEF Shape, TypeOK
  <2> QED
    BY <1>9, <2>1, <2>3, <2>4, AppendTxCases
<1>10. ASSUME NEW n \in Node, NEW t \in User, Submit(n, t) PROVE Shape'
  BY <1>9, <1>10 DEF Submit
<1>11. ASSUME NEW m \in txMsgs, RecvTx(m) PROVE Shape'
  <2>1. m[2] \in Node /\ m[3] \in User
    BY <1>1, <1>11 DEF NetworkOK
  <2> QED
    BY <1>9, <1>11, <2>1 DEF RecvTx
<1>12. ASSUME NEW n \in Node, NEW t \in User, Flood(n, t) PROVE Shape'
  <2>1. NetworkOK'
    BY <1>1, <1>12 DEF Flood, NetworkOK
  <2> QED
    BY <1>12, <2>1, StillNodes DEF Flood
<1>13. ASSUME NEW n \in Node, NEW t \in User, Poll(n, t) PROVE Shape'
  <2> DEFINE st == node[n]
             status == [st.PendingTxs EXCEPT ![t] = "HANDLED"]
             new == Rec(st.Blockchain, st.Log, st.Utxo, status, st.numPending, st.panicked)
  <2>1. Plain(st)
    BY <1>1, GoodIsPlain
  <2>2. status \in [User -> Status]
    BY <1>1 DEF Good, IsNode, Status
  <2>3. node' = [node EXCEPT ![n] = [st EXCEPT !.PendingTxs = status]]
    BY <1>13 DEF Poll
  <2>4. node' = [node EXCEPT ![n] = new]
    BY <2>1, <2>3, SetStatus
  <2>5. /\ st.Blockchain \in Seq(1..Len(blocks)) /\ st.Blockchain # <<>>
        /\ st.Log \in Seq(1..Len(blocks)) /\ st.PendingTxs \in [User -> Status]
        /\ st.numPending \in Int /\ st.panicked \in BOOLEAN
    BY <1>1 DEF Good, IsNode
  <2>6. Good(new, Len(blocks))
    BY <1>1, <2>2, <2>5, GoodRec
  <2> HIDE DEF new
  <2>7. BlocksOK' /\ NodesOK' /\ ForkStoresEmpty'
    BY <1>1, <1>13, <2>4, <2>6, NodeStep DEF Poll
  <2>8. NetworkOK'
    BY <1>1, <1>13 DEF Poll, NetworkOK
  <2> QED
    BY <2>7, <2>8 DEF Shape, TypeOK
<1>14. ASSUME NEW n \in Node, Mine(n) PROVE Shape'
  <2>1. BlocksOK' /\ NodesOK' /\ ForkStoresEmpty' /\ Len(blocks') = Len(blocks) + 1
    BY <1>1, <1>14, MineGood
  <2>2. /\ blockMsgs' = blockMsgs \cup {<<n, s, Len(blocks) + 1>> : s \in servers[n]}
        /\ UNCHANGED <<phase, todo, replay, servers, closed, txMsgs, handler>>
    BY <1>1, <1>14, MineStep
  <2>3. \A s \in Seq(1..Len(blocks)) : s \in Seq(1..Len(blocks'))
    BY <1>1, <2>1
  <2>4. 1..Len(blocks) \subseteq 1..Len(blocks') /\ Len(blocks) + 1 \in 1..Len(blocks')
    BY <1>1, <2>1
  <2>5. NetworkOK'
    BY <1>1, <2>2, <2>3, <2>4 DEF NetworkOK
  <2> QED
    BY <2>1, <2>5 DEF Shape, TypeOK
<1>15. ASSUME NEW m \in blockMsgs, RecvBlock(m) PROVE Shape'
  <2>1. m[2] \in Node /\ m[3] \in 1..Len(blocks)
    BY <1>1, <1>15 DEF NetworkOK
  <2>2. Good(SendBlock(blocks, node[m[2]], m[3]), Len(blocks))
    BY <1>1, <1>2, <2>1, GoodSendBlock
  <2>3. node' = [node EXCEPT ![m[2]] = SendBlock(blocks, node[m[2]], m[3])] /\ blocks' = blocks
    BY <1>15 DEF RecvBlock
  <2>4. BlocksOK' /\ NodesOK' /\ ForkStoresEmpty'
    BY <1>1, <2>1, <2>2, <2>3, NodeStep
  <2>5. NetworkOK'
    BY <1>1, <1>15 DEF RecvBlock, NetworkOK
  <2> QED
    BY <2>4, <2>5 DEF Shape, TypeOK
<1>16. CASE UNCHANGED vars
  <2>1. NetworkOK'
    BY <1>1, <1>16 DEF vars, NetworkOK
  <2> QED
    BY <1>16, <2>1, StillNodes DEF vars
<1> QED
  BY <1>3, <1>4, <1>5, <1>6, <1>7, <1>8, <1>10, <1>11, <1>12, <1>13, <1>14, <1>15, <1>16,
     <1>17, <1>18 DEF Next, NodesNext, ClerksNext

\* No execution leaves the shape: the types of every part of the state, and
\* empty fork stores at every node.
THEOREM ShapeInvariant == Spec => []Shape
<1>1. Init => Shape
  BY ShapeInit
<1>2. Shape /\ [Next]_vars => Shape'
  BY ShapeStep
<1> QED
  BY <1>1, <1>2, PTL DEF Spec

\* Every state of every instance has the shape TypeOK gives: in particular no
\* node, log or call ever refers to a block that was not mined.
THEOREM TypeCorrect == Spec => []TypeOK
<1>1. Shape => TypeOK
  BY DEF Shape
<1> QED
  BY <1>1, ShapeInvariant, PTL
=============================================================================
