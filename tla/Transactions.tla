---------------------------- MODULE Transactions ----------------------------
(***************************************************************************)
(* Transactions and the database of unspent outputs (node/transaction.go,  *)
(* node/utxodb.go and the validation half of node/miner.go).  There is no  *)
(* state here: the operators are the pure part of the node.                *)
(*                                                                         *)
(* A transaction is named by its hash.  scrypt is taken to be free of      *)
(* collisions, so a hash stands for exactly the fields Transaction.Hash    *)
(* packs.  User transactions are the set User, with their fields in Body;  *)
(* the hash of a coinbase is what is packed of it, the address of the      *)
(* miner and the value, so two coinbases with the same address and value   *)
(* ARE the same transaction, as they are in the code.                      *)
(***************************************************************************)
EXTENDS Integers, Sequences, FiniteSets, Functions, SequencesExt

CONSTANTS
    Key,         \* key pairs; the public key and the private key share a name
    User,        \* hashes of the transactions that clerks submit
    Body,        \* the fields of each user transaction
    GenesisTx,   \* hash of the only transaction of the genesis block
    GenesisKeys, \* the keys whose addresses GenerateGenesisBlock hardcodes
    Nil,         \* a nil slice: no parent, no content, no signature
    UintMod      \* 2^32 in the code: uint32 arithmetic is modulo UintMod

TX_FEE == 1
TX_COINBASE == 100
GenesisValue == 100

TxTypes == {"COINBASE", "TRANSFER", "POST", "COMMENT", "UPVOTE"}

\* An address is the hash of a public key, 20 bytes long.
PKHash(k) == <<"pkhash", k>>

\* The hash of the coinbase MakeCoinbaseTx builds for a miner.
CoinbaseHash(k, value) == <<PKHash(k), value>>

TxHash == User \cup {GenesisTx} \cup ({PKHash(k) : k \in Key} \X Nat)

\* The fields of the transaction with hash h: PrevTxHash and PrevTxOutIndex
\* (from 1) of an input are prev and idx, its PubKey is key, and sig is the
\* key that signed the transaction's HashNoSig.
Contents(h) ==
    IF h \in User THEN Body[h]
    ELSE [type |-> "COINBASE", ins |-> <<>>, parent |-> Nil, content |-> Nil,
          outs |-> IF h = GenesisTx
                   THEN [i \in DOMAIN GenesisKeys |->
                           [value |-> GenesisValue, addr |-> PKHash(GenesisKeys[i])]]
                   ELSE <<[value |-> h[2], addr |-> h[1]]>>]

\* A clerk builds its inputs from the unspent outputs a node reported, so an
\* input names an output that its transaction has; clerks make no coinbases.
ASSUME BodyAssumption ==
    \A t \in User :
       /\ Body[t].type \in TxTypes \ {"COINBASE"}
       /\ Body[t].ins \in Seq([prev : TxHash \cup {Nil}, idx : Nat, key : Key,
                               sig : Key \cup {Nil}])
       /\ Body[t].outs \in Seq([value : Nat, addr : {PKHash(k) : k \in Key} \cup {Nil}])
       /\ \A i \in DOMAIN Body[t].ins :
             Body[t].ins[i].prev # Nil =>
                Body[t].ins[i].idx \in DOMAIN Contents(Body[t].ins[i].prev).outs

\* Distinct transactions have distinct hashes.
ASSUME HashAssumption ==
    /\ IsFiniteSet(User)
    /\ GenesisTx \notin User
    /\ \A k \in Key, n \in 0..Cardinality(User) :
          CoinbaseHash(k, TX_COINBASE + n * TX_FEE) \notin User \cup {GenesisTx}

\* The rewards of blocks that hold every user transaction fit in a uint32.
ASSUME UintAssumption ==
    UintMod \in Nat /\ UintMod > TX_COINBASE + Cardinality(User) * TX_FEE
-----------------------------------------------------------------------------
(* Validation of one transaction. *)

SumUint(values) == FoldLeft(LAMBDA sum, v : (sum + v) % UintMod, 0, values)

\* verifySignature: the signature is one that the input's own key made.
verifySignature(in) == in.sig = in.key

\* The lengths Hash relies on: an address is the hash of some key, and an input
\* names a transaction.
validateComponents(tx) ==
    /\ \A i \in DOMAIN tx.outs : tx.outs[i].addr \in {PKHash(k) : k \in Key}
    /\ \A i \in DOMAIN tx.ins : tx.ins[i].prev # Nil

\* Faulty variant: the outputs of an upvote are not looked at.
ValidateStructureAnyUpvote(tx) ==
    /\ tx.type \in {"POST", "COMMENT"} =>
          /\ Len(tx.outs) = 1
          /\ PKHash(tx.ins[1].key) = tx.outs[1].addr
    /\ (tx.type \in {"COMMENT", "UPVOTE"}) <=> (tx.parent # Nil)

ValidateStructure(tx) ==
    /\ tx.type \in {"POST", "COMMENT"} =>
          /\ Len(tx.outs) = 1
          /\ PKHash(tx.ins[1].key) = tx.outs[1].addr
    /\ tx.type = "UPVOTE" =>
          /\ Len(tx.outs) = 2
          /\ PKHash(tx.ins[1].key) = tx.outs[2].addr
    /\ (tx.type \in {"COMMENT", "UPVOTE"}) <=> (tx.parent # Nil)

\* Faulty variant: Spent is not looked at.
validInputSpentOrNot(tx, in, db) ==
    /\ in.prev \in DOMAIN db
    /\ validateComponents(tx)
    /\ verifySignature(in)
    /\ db[in.prev][in.idx].addr = PKHash(in.key)

\* The input names an output the database holds as unspent, is signed by its
\* key, and the output is addressed to that key.
validInput(tx, in, db) ==
    /\ in.prev \in DOMAIN db
    /\ ~db[in.prev][in.idx].spent
    /\ validateComponents(tx)
    /\ verifySignature(in)
    /\ db[in.prev][in.idx].addr = PKHash(in.key)

\* Faulty variant: an upvote may pay anybody.
validParentAnyAuthor(tx, onChain) ==
    tx.parent \in onChain /\ Contents(tx.parent).type \in {"POST", "COMMENT"}

\* onChain is the set of hashes of the transactions on the main chain, where
\* findTxInBlockChain looks for the parent.
validParent(tx, onChain) ==
    /\ tx.parent \in onChain
    /\ Contents(tx.parent).type \in {"POST", "COMMENT"}
    /\ tx.type = "UPVOTE" => tx.outs[1].addr = Contents(tx.parent).outs[1].addr

inputSum(tx, db) ==
    SumUint([i \in DOMAIN tx.ins |-> db[tx.ins[i].prev][tx.ins[i].idx].value])

outputSum(tx) == SumUint([i \in DOMAIN tx.outs |-> tx.outs[i].value])

validateTransaction(tx, db, onChain) ==
    /\ tx.ins # <<>> /\ tx.outs # <<>>
    /\ \A i \in DOMAIN tx.ins : validInput(tx, tx.ins[i], db)
    /\ (inputSum(tx, db) + TX_FEE) % UintMod >= outputSum(tx)
    /\ ValidateStructure(tx)
    /\ tx.type \in {"COMMENT", "UPVOTE"} => validParent(tx, onChain)
-----------------------------------------------------------------------------
(* The database: hash |-> sequence of outputs.  A result is the database    *)
(* and whether it was computed without a panic.                             *)

\* One turn of the first loop of updateUtxoDb: the entry goes once all its
\* outputs are spent; an input whose transaction has no entry panics.
spendInput(res, in) ==
    IF ~res.ok \/ in.prev \notin DOMAIN res.db THEN [res EXCEPT !.ok = FALSE]
    ELSE LET entry == [res.db[in.prev] EXCEPT ![in.idx].spent = TRUE]
         IN  [res EXCEPT !.db = IF \A i \in DOMAIN entry : entry[i].spent
                                THEN Restrict(@, DOMAIN @ \ {in.prev})
                                ELSE [@ EXCEPT ![in.prev] = entry]]

\* The first loop.
spendInputs(res, ins) ==
    LET spent[i \in 0..Len(ins)] == IF i = 0 THEN res ELSE spendInput(spent[i - 1], ins[i])
    IN  spent[Len(ins)]

\* The second loop: every output becomes unspent, also where the entry was
\* there already.
addOutputs(db, h) ==
    LET outs == Contents(h).outs
    IN  IF outs = <<>> THEN db
        ELSE [x \in DOMAIN db \cup {h} |->
                IF x = h
                THEN [i \in DOMAIN outs |->
                        [spent |-> FALSE, addr |-> outs[i].addr, value |-> outs[i].value]]
                ELSE db[x]]

updateUtxoDb(res, h) ==
    LET spent == spendInputs(res, Contents(h).ins)
    IN  IF spent.ok THEN [spent EXCEPT !.db = addOutputs(@, h)] ELSE spent

\* The transactions of a block, in their order.
updateAll(db, txs) ==
    LET after[i \in 0..Len(txs)] ==
            IF i = 0 THEN [ok |-> TRUE, db |-> db] ELSE updateUtxoDb(after[i - 1], txs[i])
    IN  after[Len(txs)]

GenesisUtxo == updateAll(<<>>, <<GenesisTx>>).db

\* GetUnspentTxs: what a clerk learns of the outputs addressed to it.
GetUnspentTxs(db, addr) ==
    UNION {{[prev |-> h, idx |-> i, value |-> db[h][i].value] :
               i \in {j \in DOMAIN db[h] : ~db[h][j].spent /\ db[h][j].addr = addr}} :
           h \in DOMAIN db}
=============================================================================
