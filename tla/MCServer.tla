------------------------------ MODULE MCServer ------------------------------
(* Small instances of the server for TLC. *)
EXTENDS ServerRefinement, TLC

MCSymmetry == Permutations(Clients) \cup Permutations(Handlers) \cup Permutations(Workers)
=============================================================================
