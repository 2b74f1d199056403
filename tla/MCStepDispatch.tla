---------------------------- MODULE MCStepDispatch ----------------------------
(***************************************************************************)
(* Instances of StepDispatch and its history for TLC.                      *)
(***************************************************************************)
EXTENDS DispatchHistory

CONSTANTS s1, s2

\* The second step reads the first one's output.
ChainSteps == {s1, s2}
ChainDeps == [s \in ChainSteps |-> IF s = s1 THEN {} ELSE {s1}]

===============================================================================
