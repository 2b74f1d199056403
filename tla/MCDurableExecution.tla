-------------------------- MODULE MCDurableExecution --------------------------
(***************************************************************************)
(* DurableExecution and its history for TLC.                               *)
(***************************************************************************)
EXTENDS DurableHistory, TLC

Symmetry == Permutations(Workers) \union Permutations(Signallers)

===============================================================================
