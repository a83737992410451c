--------------------------- MODULE MCDistribution ---------------------------
(***************************************************************************)
(* Instances of the push and the resumable pull.                           *)
(***************************************************************************)
EXTENDS Distribution, TLC

SymmetricInodes == Permutations(Inodes)
=============================================================================
