---------------------------- MODULE PollServerMC ----------------------------
(***************************************************************************)
(* PollServer with interchangeable clients, for its safety properties.     *)
(***************************************************************************)
EXTENDS PollServer, TLC

ClientSymmetry == Permutations(Clients)
=============================================================================
