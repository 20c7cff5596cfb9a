------------------------------ MODULE MCMerkle ------------------------------
(***************************************************************************)
(* Instances of Merkle: two transactions are enough for lists with and     *)
(* without equal subtrees at every level.                                  *)
(***************************************************************************)
EXTENDS Merkle

MCTxids == {1, 2}

=============================================================================
