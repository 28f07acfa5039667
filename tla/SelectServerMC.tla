--------------------------- MODULE SelectServerMC ---------------------------
(***************************************************************************)
(* SelectServer with interchangeable clients: only its safety properties   *)
(* may be checked under this symmetry.                                     *)
(***************************************************************************)
EXTENDS SelectServer, TLC

ClientSymmetry == Permutations(Clients)
=============================================================================
