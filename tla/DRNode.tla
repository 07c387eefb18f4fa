------------------------------- MODULE DRNode -------------------------------
(***************************************************************************)
(* What one dreddit node does to its own state (node/block.go and the      *)
(* block handling of node/miner.go), as operators on a record with the     *)
(* fields of struct DRNode.  SendBlock and mine hold node.mu from          *)
(* beginning to end, so each of them is one step of a node.                *)
(*                                                                         *)
(* A block is named by its hash, its place in the sequence bs of all       *)
(* blocks ever mined; 0 is the hash of no block.  PendingTxs and SeenTxs   *)
(* always have the same keys, so they are one map, "UNSEEN" elsewhere.     *)
(***************************************************************************)
EXTENDS Transactions, Merkle

DIFFICULTY == 3

Status == {"UNSEEN", "PENDING", "INVALID", "SUCCESS", "HANDLED"}
-----------------------------------------------------------------------------
(* Blocks.  The proof of work and the hash of the header hold for every     *)
(* block that was mined; they are part of naming a block by its hash.       *)

Block(prev, txs) ==
    [prev |-> prev, root |-> BuildMerkleTreeStore(txs), bits |-> DIFFICULTY, txs |-> txs]

GenerateGenesisBlock == Block(0, <<GenesisTx>>)

CoinbaseValue(n) == (n * TX_FEE + TX_COINBASE) % UintMod

\* Faulty variant: the fees are left out.
MakeCoinbaseTxNoFees(txs, k) == CoinbaseHash(k, CoinbaseValue(0))

MakeCoinbaseTx(txs, k) == CoinbaseHash(k, CoinbaseValue(Len(txs)))

GenerateBlock(prev, txs, k) == Block(prev, Append(txs, MakeCoinbaseTx(txs, k)))

VerifyCoinbaseTx(tx) ==
    /\ tx.type = "COINBASE"
    /\ tx.ins = <<>>
    /\ Len(tx.outs) = 1
    /\ tx.parent = Nil
    /\ tx.content = Nil

\* Faulty variant: coinbases may stand in any place.
ValidateBlockAnyCoinbase(block) ==
    /\ block.txs # <<>>
    /\ block.bits = DIFFICULTY
    /\ block.root = BuildMerkleTreeStore(block.txs)
    /\ VerifyCoinbaseTx(Contents(block.txs[Len(block.txs)]))

ValidateBlock(block) ==
    /\ block.txs # <<>>
    /\ block.bits = DIFFICULTY
    /\ block.root = BuildMerkleTreeStore(block.txs)
    /\ VerifyCoinbaseTx(Contents(block.txs[Len(block.txs)]))
    /\ \A i \in 1..(Len(block.txs) - 1) : Contents(block.txs[i]).type # "COINBASE"
-----------------------------------------------------------------------------
(* The state of a node and its main chain. *)

bootstrap ==
    [Blockchain   |-> <<1>>,
     SideChains   |-> <<>>,   \* places in tree
     OrphanChains |-> <<>>,   \* places in tree
     tree         |-> <<>>,   \* the reachable SideChain records
     Log          |-> <<1>>,
     Utxo         |-> GenesisUtxo,
     PendingTxs   |-> [t \in User |-> "UNSEEN"],
     numPending   |-> 0,
     panicked     |-> FALSE]

tip(st) == st.Blockchain[Len(st.Blockchain)]

\* The transactions findTxInBlockChain can find.
TxsOf(bs, chain) == UNION {ToSet(bs[chain[i]].txs) : i \in DOMAIN chain}

validTx(bs, st, h) ==
    validateTransaction(Contents(h), st.Utxo, TxsOf(bs, st.Blockchain))

validateBlockTxs(bs, st, block) ==
    \A i \in DOMAIN block.txs :
        LET tx == Contents(block.txs[i])
        IN  IF tx.type # "COINBASE"
            THEN ValidateStructure(tx) /\ validTx(bs, st, block.txs[i])
            ELSE tx.outs[1].value = CoinbaseValue(Len(block.txs) - 1)

\* Faulty variants: every waiting transaction is marked; the coinbase is counted.
ExtendMarkingAll(bs, st, b) ==
    LET res == updateAll(st.Utxo, bs[b].txs)
    IN  [st EXCEPT
            !.Blockchain = Append(@, b),
            !.PendingTxs = [t \in User |-> IF @[t] = "PENDING" THEN "SUCCESS" ELSE @[t]],
            !.numPending = @ - (Len(bs[b].txs) - 1),
            !.Utxo = res.db,
            !.panicked = ~res.ok]

ExtendCountingCoinbase(bs, st, b) ==
    LET txs == bs[b].txs
        res == updateAll(st.Utxo, txs)
    IN  [st EXCEPT
            !.Blockchain = Append(@, b),
            !.PendingTxs = [t \in User |->
                              IF @[t] # "UNSEEN" /\ t \in ToSet(txs) THEN "SUCCESS" ELSE @[t]],
            !.numPending = @ - Len(txs),
            !.Utxo = res.db,
            !.panicked = ~res.ok]

\* The block becomes the new tip and its transactions enter the database; a
\* transaction the node knows of is a success whatever its status was.
Extend(bs, st, b) ==
    LET txs == bs[b].txs
        res == updateAll(st.Utxo, txs)
    IN  [st EXCEPT
            !.Blockchain = Append(@, b),
            !.PendingTxs = [t \in User |->
                              IF @[t] # "UNSEEN" /\ t \in ToSet(txs) THEN "SUCCESS" ELSE @[t]],
            !.numPending = @ - (Len(txs) - 1),
            !.Utxo = res.db,
            !.panicked = ~res.ok]
-----------------------------------------------------------------------------
(* Blocks off the main chain: trees of SideChain records.  Parent and       *)
(* Children are places in tree, 0 for nil; ParentIndex counts the main      *)
(* chain from 0, as in the code, and is -1 in an orphan tree.               *)

Seen == -2

\* The first record in preorder that is the block itself (Seen) or its parent;
\* 0 if there is none.
FindParent(tree, sc, prevHash, curHash) ==
    LET find[d \in 0..Len(tree), i \in DOMAIN tree] ==
            IF tree[i].Block = curHash THEN Seen
            ELSE IF tree[i].Block = prevHash THEN i
            ELSE IF d = 0 \/ tree[i].Children = <<>> THEN 0
            ELSE LET below == [c \in DOMAIN tree[i].Children |-> find[d - 1, tree[i].Children[c]]]
                     found == {c \in DOMAIN below : below[c] # 0}
                 IN  IF found = {} THEN 0
                     ELSE below[CHOOSE c \in found : \A e \in found : c <= e]
    IN  find[Len(tree), sc]

\* Everything under sc (inclusive) gets a new depth and the same ParentIndex.
Recompute(tree, sc, depth, parentIndex) ==
    LET level[d \in 0..Len(tree)] ==
            IF d = 0 THEN {sc}
            ELSE UNION {ToSet(tree[i].Children) : i \in level[d - 1]}
    IN  [i \in DOMAIN tree |->
            LET under == {d \in 0..Len(tree) : i \in level[d]}
            IN  IF under = {} THEN tree[i]
                ELSE [tree[i] EXCEPT !.Depth = depth + 1 + (CHOOSE d \in under : TRUE),
                                     !.ParentIndex = parentIndex]]

\* The loop over SideChains, and the one over OrphanChains: in each tree that
\* holds the parent the block becomes a child, until a tree holds the block.
\* The result is the new tree, the record last made (0: none) and whether the
\* block was already there.
Attach(found, chains, b, prevHash) ==
    LET tree == found.tree
        at == [k \in DOMAIN chains |-> FindParent(tree, chains[k], prevHash, b)]
        seen == {k \in DOMAIN chains : at[k] = Seen}
        hits == {k \in DOMAIN chains : at[k] > 0 /\ \A j \in seen : k < j}
        place(k) == Len(tree) + Cardinality({j \in hits : j <= k})
        child(k) == [Parent |-> at[k], ParentIndex |-> tree[at[k]].ParentIndex, Block |-> b,
                     Depth |-> tree[at[k]].Depth + 1, Children |-> <<>>]
        size == Len(tree) + Cardinality(hits)
    IN  [tree |-> IF hits = {} THEN tree
                  ELSE [i \in 1..size |->
                          IF i > Len(tree)
                          THEN child(CHOOSE k \in hits : place(k) = i)
                          ELSE [tree[i] EXCEPT !.Children =
                                  @ \o SetToSeq({place(k) : k \in {j \in hits : at[j] = i}})]],
         cur  |-> IF hits = {} THEN found.cur ELSE size,
         seen |-> seen # {}]

\* Both loops that delete from a list never advance "deleted": a match before
\* the last element shrinks the list and the loop then indexes past its end.
DeletePanics(list, hits) == \E i \in DOMAIN list : i < Len(list) /\ list[i] \in hits

DeleteLast(list, hits) ==
    IF list # <<>> /\ list[Len(list)] \in hits THEN SubSeq(list, 1, Len(list) - 1) ELSE list

\* The record of a block with no parent in a tree: rooted on the main chain, or
\* an orphan.
NewSideChain(bs, st, b) ==
    LET parents == {i \in DOMAIN st.Blockchain : st.Blockchain[i] = bs[b].prev}
    IN  [Parent |-> 0, Block |-> b, Depth |-> 0, Children |-> <<>>,
         ParentIndex |-> IF parents = {} THEN -1 ELSE (CHOOSE i \in parents : TRUE) - 1]

\* One turn of "heal the mainchain": the block of record i joins the new chain
\* and its siblings become side chains of their own.
Heal(breakPoint, acc, i) ==
    LET depth == acc.tree[i].Depth
        siblings == SelectSeq(acc.tree[acc.tree[i].Parent].Children,
                              LAMBDA c : acc.tree[c].Block # acc.tree[i].Block)
    IN  [tree |-> FoldLeft(LAMBDA t, c : Recompute([t EXCEPT ![c].Parent = 0], c, 0,
                                                   breakPoint + depth + 1),
                           acc.tree, siblings),
         sides |-> acc.sides \o siblings,
         main |-> [acc.main EXCEPT ![depth + 1] = acc.tree[i].Block]]

\* cur has outgrown the main chain.  Only records below the root of its tree
\* reach newMainChain, whose first element stays nil; the main chain is not cut
\* at breakPoint.  The records made for its blocks past breakPoint are reachable
\* from no list, nor is a side chain once it is deleted.
Reorganise(st, tree, cur) ==
    LET breakPoint == tree[cur].ParentIndex
        past == {s \in ToSet(st.SideChains) : tree[s].ParentIndex > breakPoint}
        up[d \in 0..Len(tree)] ==
            IF d = 0 THEN cur ELSE IF up[d - 1] = 0 THEN 0 ELSE tree[up[d - 1]].Parent
        path == SelectSeq([d \in 1..(Len(tree) + 1) |-> up[d - 1]],
                          LAMBDA i : i # 0 /\ tree[i].Parent # 0)
        healed == FoldLeft(LAMBDA acc, i : Heal(breakPoint, acc, i),
                           [tree |-> tree, sides |-> DeleteLast(st.SideChains, past),
                            main |-> [d \in 1..(tree[cur].Depth + 1) |-> 0]],
                           path)
    IN  IF DeletePanics(st.SideChains, past) THEN [st EXCEPT !.panicked = TRUE]
        ELSE [st EXCEPT !.SideChains = healed.sides, !.tree = healed.tree,
                        !.Blockchain = @ \o healed.main]

\* cur, found in a tree or new, adopts the orphan trees that wait for b, and may
\* then reorganise the chain.  A new record is put in no list: what only it
\* refers to is garbage when the handler returns.
Settle(bs, st, b, found) ==
    LET new == found.cur = 0
        cur == IF new THEN Len(found.tree) + 1 ELSE found.cur
        tree == IF new THEN Append(found.tree, NewSideChain(bs, st, b)) ELSE found.tree
        orphans == st.OrphanChains
        waits == {o \in ToSet(orphans) : bs[tree[o].Block].prev = b}
        oc == orphans[Len(orphans)]
        adopted == IF new \/ orphans = <<>> \/ oc \notin waits THEN found.tree
                   ELSE Recompute([tree EXCEPT ![cur].Children = Append(@, oc),
                                               ![oc].Parent = cur],
                                  oc, tree[cur].Depth, tree[cur].ParentIndex)
        settled == [st EXCEPT !.OrphanChains = DeleteLast(@, waits), !.tree = adopted]
        newLength == tree[cur].Depth + tree[cur].ParentIndex + 2
    IN  IF DeletePanics(orphans, waits) THEN [st EXCEPT !.panicked = TRUE]
        ELSE IF tree[cur].ParentIndex = -1 \/ newLength <= Len(st.Blockchain) THEN settled
        ELSE Reorganise(settled, tree, cur)

\* Faulty variant: a fork replaces the main chain from its parent on.
OffMainChainSwitching(bs, st, b) ==
    LET parent == NewSideChain(bs, st, b).ParentIndex
    IN  IF parent = -1 THEN st
        ELSE [st EXCEPT !.Blockchain = Append(SubSeq(@, 1, parent + 1), b)]

OffMainChain(bs, st, b) ==
    LET prevHash == bs[b].prev
        none == [tree |-> st.tree, cur |-> 0, seen |-> FALSE]
        side == Attach(none, st.SideChains, b, prevHash)
        found == IF side.seen THEN side ELSE Attach(side, st.OrphanChains, b, prevHash)
    IN  IF found.seen THEN [st EXCEPT !.tree = found.tree]
        ELSE Settle(bs, st, b, found)
-----------------------------------------------------------------------------
(* The two ways a block reaches a node. *)

\* The RPC, and each turn of replayLog.
SendBlock(bs, st, b) ==
    LET logged == [st EXCEPT !.Log = Append(@, b)]
    IN  IF ~ValidateBlock(bs[b]) THEN logged
        ELSE IF st.Blockchain = <<>> \/ bs[b].prev = tip(st)
             THEN IF validateBlockTxs(bs, st, bs[b]) THEN Extend(bs, logged, b) ELSE logged
        ELSE IF b \in ToSet(st.Blockchain) THEN logged
        ELSE OffMainChain(bs, logged, b)

\* Faulty variant: what waits is not validated.
selectedUnvalidated(bs, st) == {t \in User : st.PendingTxs[t] = "PENDING"}

\* The transactions mine() puts in its block, and those it gives up on.
selected(bs, st) == {t \in User : st.PendingTxs[t] = "PENDING" /\ validTx(bs, st, t)}

rejected(bs, st) == {t \in User : st.PendingTxs[t] = "PENDING" /\ ~validTx(bs, st, t)}

\* Faulty variant: the miner leaves its own reward out of its database.
mineNoCoinbase(bs, st, b) ==
    LET txs == bs[b].txs
    IN  [st EXCEPT !.Log = Append(@, b),
                   !.Blockchain = Append(@, b),
                   !.PendingTxs = [t \in User |->
                       IF t \in ToSet(txs) THEN "SUCCESS"
                       ELSE IF t \in rejected(bs, st) THEN "INVALID" ELSE @[t]],
                   !.numPending = @ - (Len(txs) - 1),
                   !.Utxo = updateAll(@, SubSeq(txs, 1, Len(txs) - 1)).db]

\* mine() from the moment it holds enough transactions: b, already in bs, is the
\* block GenerateBlock made of the selected ones.  bcmu is released during the
\* proof of work but mu is not, so the tip is still the one read before.
mine(bs, st, b) ==
    LET invalid == rejected(bs, st)
        marked == [st EXCEPT !.PendingTxs = [t \in User |->
                       IF t \in invalid THEN "INVALID" ELSE @[t]]]
    IN  Extend(bs, [marked EXCEPT !.Log = Append(@, b)], b)
=============================================================================
