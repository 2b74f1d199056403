----------------------------- MODULE RunLifecycle -----------------------------
(***************************************************************************)
(* What a workflow run promises the client that submitted it, with no      *)
(* database, worker or agent in sight: a run is submitted once, its steps  *)
(* finish one at a time and never before the steps they depend on, and the *)
(* run settles exactly once - `done` with its last step, or `failed` while *)
(* some step that was ready to run is still unfinished.                    *)
(*                                                                         *)
(* WorkerLoop.tla implements this specification.                           *)
(***************************************************************************)
EXTENDS Naturals

CONSTANTS
    Runs,    \* ids of the workflow runs
    Execs,   \* ids of the executions, one per top-level step of a run
    RunOf,   \* the run an execution belongs to
    Deps     \* the executions a step's dependsOn and reads refer to

VARIABLES
    outcome,   \* outcome[r]: what a client polling run r is told
    finished   \* the steps whose output is recorded

vars == <<outcome, finished>>

Steps(r) == {e \in Execs : RunOf[e] = r}

Init ==
    /\ outcome = [r \in Runs |-> "absent"]
    /\ finished = {}

\* A run without steps has nothing left to do.
Submit(r) ==
    /\ outcome[r] = "absent"
    /\ outcome' = [outcome EXCEPT ![r] = IF Steps(r) = {} THEN "done" ELSE "running"]
    /\ UNCHANGED finished

Ready(e) == e \notin finished /\ Deps[e] \subseteq finished

Finish(r, e) ==
    /\ outcome[r] = "running"
    /\ e \in Steps(r) /\ Ready(e)
    /\ finished' = finished \union {e}
    /\ outcome' = [outcome EXCEPT
                     ![r] = IF Steps(r) \subseteq finished' THEN "done" ELSE "running"]

GiveUp(r) ==
    /\ outcome[r] = "running"
    /\ \E e \in Steps(r) : Ready(e)
    /\ outcome' = [outcome EXCEPT ![r] = "failed"]
    /\ UNCHANGED finished

Next == \E r \in Runs : Submit(r) \/ GiveUp(r) \/ (\E e \in Execs : Finish(r, e))

Spec == Init /\ [][Next]_vars

===============================================================================
