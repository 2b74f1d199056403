----------------------------- MODULE MCSessionLog -----------------------------
(***************************************************************************)
(* An instance of SessionLog for TLC.                                      *)
(***************************************************************************)
EXTENDS SessionLog, TLC

Symmetry ==
    Permutations(Clients) \union Permutations(Sessions) \union Permutations(Inputs)

===============================================================================
