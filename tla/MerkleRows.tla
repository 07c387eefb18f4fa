----------------------------- MODULE MerkleRows -----------------------------
(***************************************************************************)
(* The Merkle root of block contents against the description of the tree   *)
(* in protocol/protocol.md, row by row, and what the root tells            *)
(* ValidateBlock about the transactions of a block.                        *)
(***************************************************************************)
EXTENDS Miner

CONSTANTS
    rewarded,   \* the key of the miner
    Selectable, \* the transactions it selects from
    MaxTxs,     \* bound on the transactions of its block
    MaxOther    \* bound on the lists they are compared with

ASSUME BoundAssumption ==
    Selectable \subseteq User /\ MaxTxs \in Nat /\ MaxOther \in Nat

\* What a miner may select, in any order, and the block it makes of it.
Selections == UNION {[1..n -> Selectable] : n \in 0..MaxTxs}
block(txs) == GenerateBlock(1, txs, rewarded)

\* One row of the tree above another, whose last hash is repeated when the row
\* has an odd number of them.
RowAbove(row) ==
    [i \in 1..((Len(row) + 1) \div 2) |->
        <<row[2 * i - 1], IF 2 * i > Len(row) THEN row[2 * i - 1] ELSE row[2 * i]>>]

RootByRows(hashes) ==
    LET row[d \in 0..Len(hashes)] ==
            IF d = 0 THEN [i \in DOMAIN hashes |-> <<hashes[i]>>] ELSE RowAbove(row[d - 1])
    IN  row[CHOOSE d \in 0..Len(hashes) :
              Len(row[d]) = 1 /\ \A e \in 0..(d - 1) : Len(row[e]) > 1][1]

\* The selections of whose block BuildMerkleTreeStore gives another root.
Misrooted ==
    {txs \in Selections : BuildMerkleTreeStore(block(txs).txs) # RootByRows(block(txs).txs)}

\* The linear array gives the root the protocol describes row by row, also when
\* the number of transactions is not a power of two: for every block there is and
\* every block that may be made.
RootFollowsProtocol ==
    /\ Misrooted = {}
    /\ \A b \in 1..Len(blocks) : blocks[b].root = RootByRows(blocks[b].txs)

\* The selections of whose block the header passes ValidateBlock with other
\* transactions too.
Forged ==
    {txs \in Selections :
        \E n \in 0..MaxOther :
            \E other \in [1..n -> Selectable \cup {MakeCoinbaseTx(txs, rewarded)}] :
                /\ ValidateBlock([block(txs) EXCEPT !.txs = other])
                /\ other # block(txs).txs}

\* A header tells the transactions of its block: repeating the end of the list can
\* keep the root, but not the one coinbase in the last place.  Two blocks there are
\* with one root have the same transactions, and no list but its own goes with the header of a block that
\* may be made.
RootFixesTxs ==
    /\ Forged = {}
    /\ \A a, b \in 1..Len(blocks) :
          blocks[a].root = blocks[b].root => blocks[a].txs = blocks[b].txs
=============================================================================
