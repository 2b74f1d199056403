----------------------------- MODULE MCWorkerLoop -----------------------------
(***************************************************************************)
(* Instances of WorkerLoop for TLC.  Run 1 is a diamond without its tip    *)
(* (two independent steps and a step that joins them) and a step by        *)
(* itself, which may be the last at once with the join; run 2 has no       *)
(* steps, and execution 5 belongs to no run.                               *)
(***************************************************************************)
EXTENDS WorkerLoop

MCRunOf == [e \in Execs |-> IF e = 5 THEN 0 ELSE 1]

MCDeps == [e \in Execs |-> IF e = 3 THEN {1, 2} ELSE {}]

===============================================================================
