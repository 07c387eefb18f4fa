------------------------------- MODULE Merkle -------------------------------
(***************************************************************************)
(* The Merkle root of a block (node/merkle.go), over a hash free of        *)
(* collisions: nil is <<>>, the hash of a transaction h is <<h>>, and the  *)
(* hash of two branches is the pair of them.                               *)
(***************************************************************************)
EXTENDS Integers, Sequences

\* 1 << e, for e up to n.
powers(n) ==
    LET power[e \in 0..n] == IF e = 0 THEN 1 ELSE 2 * power[e - 1] IN power

\* Faulty variant: a power of two is rounded up too.
nextPowerOfTwoAbove(n) ==
    CHOOSE p \in {powers(n)[e] : e \in 0..n} : p > n /\ p <= 2 * n

nextPowerOfTwo(n) ==
    CHOOSE p \in {powers(n)[e] : e \in 0..n} : p >= n /\ p < 2 * n

HashMerkleBranches(left, right) == <<left, right>>

\* The linear array of BuildMerkleTreeStore, from 1: the leaves fill the first
\* half, padded with nil, and cell P + k is the parent of cells 2k - 1 and 2k.
MerkleArray(hashes) ==
    LET P == nextPowerOfTwo(Len(hashes))
        merkles[i \in 1..(2 * P - 1)] ==
            IF i <= P
            THEN IF i <= Len(hashes) THEN <<hashes[i]>> ELSE <<>>
            ELSE LET left == merkles[2 * (i - P) - 1]
                     right == merkles[2 * (i - P)]
                 IN  IF left = <<>> THEN <<>>
                     ELSE HashMerkleBranches(left, IF right = <<>> THEN left ELSE right)
    IN  merkles

BuildMerkleTreeStore(hashes) ==
    LET merkles == MerkleArray(hashes) IN merkles[Len(merkles)]
=============================================================================
