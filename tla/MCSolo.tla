------------------------------- MODULE MCSolo -------------------------------
(***************************************************************************)
(* One node alone: the instances of MCMiner together with the blocks and   *)
(* lists of MerkleRows, which are about one block and no state.            *)
(***************************************************************************)
EXTENDS MCMiner, MerkleRows
=============================================================================
