------------------------------ MODULE WorkerLoop ------------------------------
(***************************************************************************)
(* The workers of apps/worker running workflow runs over one Postgres.     *)
(*                                                                         *)
(* runOnce() is ONE database transaction: claim an execution, resolve its  *)
(* reads, dispatch it to the exec agent over HTTP, then complete the step  *)
(* or fail the run, then commit.  The model keeps what other transactions  *)
(* can see (the committed rows) apart from what a transaction has done so  *)
(* far, and keeps the row locks, because every claim of the code about     *)
(* concurrent workers rests on them:                                       *)
(*   - the claimed execution's row is locked from the claim to the end;    *)
(*   - the run's row is locked by completeStep (SELECT ... FOR UPDATE) and *)
(*     by failRun (UPDATE workflow_runs) to the end;                       *)
(*   - failRemainingForRun locks the sibling rows it updates, one by one,  *)
(*     waiting for each row another transaction holds, and re-checks the   *)
(*     row's committed status when the wait ends (READ COMMITTED).         *)
(*                                                                         *)
(* A worker's uncommitted writes are never visible to another worker, so a *)
(* claimed execution still reads `queued`, and a rollback is simply the    *)
(* loss of what the transaction holds.                                     *)
(***************************************************************************)
EXTENDS Naturals

CONSTANTS
    Workers,
    Runs,        \* workflow_runs.id values
    Execs,       \* executions.id values; claim_execution() takes the lowest
    RunOf,       \* executions.run_id, or NoRun for a row enqueued without one
    Deps,        \* computeStepDependencies, as execution ids of the same run
    MaxCrashes   \* bound: worker or connection losses in one behaviour

NoRun == 0       \* executions.run_id IS NULL
NoExec == 0      \* ids are BIGSERIAL and start at 1

ASSUME ConstantsAssumption ==
    /\ Runs \subseteq Nat \ {0}
    /\ Execs \subseteq Nat \ {0}
    /\ RunOf \in [Execs -> Runs \union {NoRun}]
    /\ Deps \in [Execs -> SUBSET Execs]
    /\ \A e \in Execs : \A d \in Deps[e] : RunOf[d] = RunOf[e]
    /\ MaxCrashes \in Nat

VARIABLES
    runStatus,   \* committed workflow_runs.status, "absent" before submitRun
    status,      \* committed executions.status, "absent" before the insert
    recorded,    \* executions with committed run_node_outputs and checkpoint rows
    pc,          \* where each worker's runOnce() is
    mine,        \* the execution each worker's open transaction has claimed
    seen,        \* listCompletedNodeIds as completeStep read it
    todo,        \* sibling rows failRemainingForRun has still to visit
    rows,        \* sibling rows failRemainingForRun has updated and locked
    crashes      \* worker or connection losses so far

committed == <<runStatus, status, recorded>>
txn == <<mine, seen, todo, rows>>
vars == <<runStatus, status, recorded, pc, mine, seen, todo, rows, crashes>>

Steps(r) == {e \in Execs : RunOf[e] = r}
Run(w) == RunOf[mine[w]]

\* ---------------------------------------------------------------- locks

\* Some transaction other than w's holds the row lock on execution e.
HeldByOther(w, e) ==
    \E v \in Workers \ {w} : e = mine[v] \/ e \in rows[v]

HoldsRun(w) == pc[w] \in {"recording", "promoting", "sweeping"}

RunRowFree(w) ==
    \A v \in Workers \ {w} : ~(HoldsRun(v) /\ Run(v) = Run(w))

\* v cannot proceed until w's transaction ends.
WaitsFor(v, w) ==
    \/ /\ pc[v] \in {"completing", "failing"}
       /\ HoldsRun(w) /\ Run(w) = Run(v)
    \/ /\ pc[v] = "sweeping"
       /\ \E e \in todo[v] : e = mine[w] \/ e \in rows[w]

InLockCycle(w) ==
    \E v \in Workers \ {w} : WaitsFor(v, w) /\ WaitsFor(w, v)

\* ------------------------------------------------------ ending a transaction

EndTransaction(w) ==
    /\ pc' = [pc EXCEPT ![w] = "idle"]
    /\ mine' = [mine EXCEPT ![w] = NoExec]
    /\ seen' = [seen EXCEPT ![w] = {}]
    /\ todo' = [todo EXCEPT ![w] = {}]
    /\ rows' = [rows EXCEPT ![w] = {}]

Rollback(w) ==
    /\ EndTransaction(w)
    /\ UNCHANGED committed

\* ------------------------------------------------------------ the clients

\* submitRun, one transaction of the submitting client.
SubmitRun(r) ==
    /\ runStatus[r] = "absent"
    /\ runStatus' = [runStatus EXCEPT ![r] = IF Steps(r) = {} THEN "done" ELSE "running"]
    /\ status' = [e \in Execs |->
                    IF RunOf[e] # r THEN status[e]
                    ELSE IF Deps[e] = {} THEN "queued" ELSE "blocked"]
    /\ UNCHANGED <<recorded, pc, txn, crashes>>

\* ExecutionsRepo.enqueue: an execution no run owns.
Enqueue(e) ==
    /\ RunOf[e] = NoRun /\ status[e] = "absent"
    /\ status' = [status EXCEPT ![e] = "queued"]
    /\ UNCHANGED <<runStatus, recorded, pc, txn, crashes>>

\* ------------------------------------------------------- claim and dispatch

\* claim_execution()'s scan: committed status, rows locked by others skipped.
\* A lease never matters here: `running` is never committed by a worker.
Claimable(w, e) == status[e] = "queued" /\ ~HeldByOther(w, e)

Claim(w) ==
    /\ pc[w] = "idle"
    /\ \E e \in Execs :
         /\ Claimable(w, e)
         /\ \A d \in Execs : d < e => ~Claimable(w, d)
         /\ mine' = [mine EXCEPT ![w] = e]
    /\ pc' = [pc EXCEPT ![w] = "claimed"]
    /\ UNCHANGED <<committed, seen, todo, rows, crashes>>

\* Mutant: returns false instead of throwing, which commits the claim.
RejectLooseCommits(w) ==
    /\ pc[w] = "claimed" /\ Run(w) = NoRun
    /\ status' = [status EXCEPT ![mine[w]] = "running"]
    /\ EndTransaction(w)
    /\ UNCHANGED <<runStatus, recorded, crashes>>

\* run_id IS NULL: RetryableError, so the claim is undone.
RejectLoose(w) ==
    /\ pc[w] = "claimed" /\ Run(w) = NoRun
    /\ Rollback(w)
    /\ UNCHANGED crashes

\* findById, findRunStepNode and resolveStepReads; the bindings resolve.
ResolveReads(w) ==
    /\ pc[w] = "claimed" /\ Run(w) # NoRun
    /\ pc' = [pc EXCEPT ![w] = "dispatching"]
    /\ UNCHANGED <<committed, txn, crashes>>

\* A binding kind the interpreter does not support: FatalError, so failRun.
ResolveThrows(w) ==
    /\ pc[w] = "claimed" /\ Run(w) # NoRun
    /\ pc' = [pc EXCEPT ![w] = "failing"]
    /\ UNCHANGED <<committed, txn, crashes>>

\* dispatchStep returns ok with the step's output.
AgentSucceeds(w) ==
    /\ pc[w] = "dispatching"
    /\ pc' = [pc EXCEPT ![w] = "completing"]
    /\ UNCHANGED <<committed, txn, crashes>>

\* dispatchStep returns a failed response, or throws a FatalError.
AgentFails(w) ==
    /\ pc[w] = "dispatching"
    /\ pc' = [pc EXCEPT ![w] = "failing"]
    /\ UNCHANGED <<committed, txn, crashes>>

\* The agent is unreachable, times out or answers 5xx: RetryableError.
AgentUnavailable(w) ==
    /\ pc[w] = "dispatching"
    /\ Rollback(w)
    /\ UNCHANGED crashes

\* ------------------------------------------------------------ completeStep

\* Mutant: completeStep without lockForUpdate.
LockRunOmitted(w) ==
    /\ pc[w] = "completing"
    /\ pc' = [pc EXCEPT ![w] = "recording"]
    /\ UNCHANGED <<committed, txn, crashes>>

\* lockForUpdate(run), first of all.
LockRun(w) ==
    /\ pc[w] = "completing"
    /\ RunRowFree(w)
    /\ pc' = [pc EXCEPT ![w] = "recording"]
    /\ UNCHANGED <<committed, txn, crashes>>

\* Mutant: listCompletedNodeIds before the step's own output is inserted.
RecordOutputAfterListing(w) ==
    /\ pc[w] = "recording"
    /\ seen' = [seen EXCEPT ![w] = Steps(Run(w)) \intersect recorded]
    /\ pc' = [pc EXCEPT ![w] = "promoting"]
    /\ UNCHANGED <<committed, mine, todo, rows, crashes>>

\* completeExecution and runNodeOutputs.record, then listCompletedNodeIds: the
\* committed outputs of the run and the transaction's own.
RecordOutput(w) ==
    /\ pc[w] = "recording"
    /\ seen' = [seen EXCEPT ![w] = (Steps(Run(w)) \intersect recorded) \union {mine[w]}]
    /\ pc' = [pc EXCEPT ![w] = "promoting"]
    /\ UNCHANGED <<committed, mine, todo, rows, crashes>>

\* Mutants: `some` for `every` over the dependencies, and only the step just
\* completed looked at.
PromotedOnAnyDependency(w) ==
    {e \in Steps(Run(w)) \ seen[w] :
        Deps[e] \intersect seen[w] # {} /\ status[e] = "blocked"}

PromotedOnOwnOutput(w) ==
    {e \in Steps(Run(w)) \ seen[w] : Deps[e] = {mine[w]} /\ status[e] = "blocked"}

\* promoteReadyNodes: the blocked steps whose dependencies are all in `seen`.
Promoted(w) ==
    {e \in Steps(Run(w)) \ seen[w] : Deps[e] \subseteq seen[w] /\ status[e] = "blocked"}

\* Mutant: the run is taken for complete when nothing is left to promote.
RunStatusWhenNothingPromoted(w) ==
    IF Promoted(w) = {} THEN "done" ELSE runStatus[Run(w)]

\* markDone(run) writes only when every step is in `seen` and the run has not failed.
RunStatusAfter(w) ==
    IF Steps(Run(w)) \subseteq seen[w] /\ runStatus[Run(w)] # "failed"
    THEN "done" ELSE runStatus[Run(w)]

\* promoteReadyNodes, markDone if the run is complete, and COMMIT.
CommitCompletion(w) ==
    /\ pc[w] = "promoting"
    /\ recorded' = recorded \union {mine[w]}
    /\ status' = [e \in Execs |-> IF e = mine[w] THEN "done"
                                  ELSE IF e \in Promoted(w) THEN "queued"
                                  ELSE status[e]]
    /\ runStatus' = [runStatus EXCEPT ![Run(w)] = RunStatusAfter(w)]
    /\ EndTransaction(w)
    /\ UNCHANGED crashes

\* ----------------------------------------------------------------- failRun

\* The statuses failRemainingForRun overwrites.
Remaining == {"blocked", "queued", "waiting"}

\* workflowRuns.markFailed takes the run's row lock, executions.markFailed is on
\* the transaction's own row, and failRemainingForRun takes its snapshot.
MarkRunFailed(w) ==
    /\ pc[w] = "failing"
    /\ RunRowFree(w)
    /\ todo' = [todo EXCEPT
                  ![w] = {e \in Steps(Run(w)) \ {mine[w]} : status[e] \in Remaining}]
    /\ pc' = [pc EXCEPT ![w] = "sweeping"]
    /\ UNCHANGED <<committed, mine, seen, rows, crashes>>

\* Mutant: rows other workers hold are skipped, as claim_execution() does.
SweepRowSkipLocked(w, e) ==
    /\ pc[w] = "sweeping"
    /\ e \in todo[w]
    /\ todo' = [todo EXCEPT ![w] = @ \ {e}]
    /\ rows' = [rows EXCEPT ![w] = IF HeldByOther(w, e) THEN @ ELSE @ \union {e}]
    /\ UNCHANGED <<committed, pc, mine, seen, crashes>>

\* failRemainingForRun reaches row e once nobody else holds it, and re-checks it.
SweepRow(w, e) ==
    /\ pc[w] = "sweeping"
    /\ e \in todo[w] /\ ~HeldByOther(w, e)
    /\ todo' = [todo EXCEPT ![w] = @ \ {e}]
    /\ rows' = [rows EXCEPT ![w] = IF status[e] \in Remaining THEN @ \union {e} ELSE @]
    /\ UNCHANGED <<committed, pc, mine, seen, crashes>>

CommitFailure(w) ==
    /\ pc[w] = "sweeping" /\ todo[w] = {}
    /\ runStatus' = [runStatus EXCEPT ![Run(w)] = "failed"]
    /\ status' = [e \in Execs |-> IF e = mine[w] \/ e \in rows[w] THEN "failed"
                                  ELSE status[e]]
    /\ EndTransaction(w)
    /\ UNCHANGED <<recorded, crashes>>

\* ------------------------------------------------------------------ losses

\* Postgres aborts one transaction of a lock cycle.  The error reaches
\* runOnce's catch, whose failRun fails too on the aborted transaction, so
\* withTransaction rolls back and runOnce returns false.
DeadlockVictim(w) ==
    /\ InLockCycle(w)
    /\ Rollback(w)
    /\ UNCHANGED crashes

\* The worker process or its connection dies before COMMIT: Postgres rolls back.
Crash(w) ==
    /\ pc[w] # "idle" /\ crashes < MaxCrashes
    /\ Rollback(w)
    /\ crashes' = crashes + 1

\* ------------------------------------------------------------ specification

Init ==
    /\ runStatus = [r \in Runs |-> "absent"]
    /\ status = [e \in Execs |-> "absent"]
    /\ recorded = {}
    /\ pc = [w \in Workers |-> "idle"]
    /\ mine = [w \in Workers |-> NoExec]
    /\ seen = [w \in Workers |-> {}]
    /\ todo = [w \in Workers |-> {}]
    /\ rows = [w \in Workers |-> {}]
    /\ crashes = 0

\* The steps runOnce() takes by itself or on the agent's answer.
RunOnce(w) ==
    \/ Claim(w) \/ RejectLoose(w) \/ ResolveReads(w) \/ ResolveThrows(w)
    \/ AgentSucceeds(w) \/ AgentFails(w) \/ AgentUnavailable(w)
    \/ LockRun(w) \/ RecordOutput(w) \/ CommitCompletion(w)
    \/ MarkRunFailed(w) \/ CommitFailure(w)
    \/ \E e \in Execs : SweepRow(w, e)

Next ==
    \/ \E r \in Runs : SubmitRun(r)
    \/ \E e \in Execs : Enqueue(e)
    \/ \E w \in Workers : RunOnce(w) \/ DeadlockVictim(w) \/ Crash(w)

Spec == Init /\ [][Next]_vars

\* runWorkerLoop calls runOnce forever and runOnce never stops by itself;
\* Postgres breaks a lock cycle; an agent that is dispatched to again and again
\* answers at last.  Nothing is assumed about who wins a freed row lock.
Fairness ==
    \A w \in Workers :
        /\ WF_vars(RunOnce(w))
        /\ WF_vars(DeadlockVictim(w))
        /\ SF_vars(AgentSucceeds(w) \/ AgentFails(w))

FairSpec == Spec /\ Fairness

\* --------------------------------------------------------------- properties

States == {"idle", "claimed", "dispatching", "completing", "recording",
           "promoting", "failing", "sweeping"}

\* Every variable stays within its type, over any number of transactions.
TypeOK ==
    /\ runStatus \in [Runs -> {"absent", "running", "done", "failed"}]
    /\ status \in [Execs -> {"absent", "blocked", "queued", "done", "failed"}]
    /\ recorded \subseteq Execs
    /\ pc \in [Workers -> States]
    /\ mine \in [Workers -> Execs \union {NoExec}]
    /\ seen \in [Workers -> SUBSET Execs]
    /\ todo \in [Workers -> SUBSET Execs]
    /\ rows \in [Workers -> SUBSET Execs]
    /\ crashes \in 0 .. MaxCrashes

\* No promotion is missed: whatever order concurrent completions of sibling
\* steps commit in, a step still `blocked` has a dependency without an output.
NoMissedPromotion ==
    \A e \in Execs : status[e] = "blocked" => ~(Deps[e] \subseteq recorded)

\* No completion is missed: a run still `running` has a step without an output,
\* so the last two completions of a run never both leave it running.
NoMissedRunCompletion ==
    \A r \in Runs : runStatus[r] = "running" => ~(Steps(r) \subseteq recorded)

\* A step's command is run only once all its dependencies' outputs are
\* committed, so resolveStepReads can never miss one.
DispatchAfterDependencies ==
    \A w \in Workers :
        pc[w] = "dispatching" => Deps[mine[w]] \subseteq recorded

\* failRun leaves nothing claimable behind: in a failed run every step is
\* `done` or `failed`, those other workers held meanwhile included.
FailedRunIsQuiet ==
    \A r \in Runs : runStatus[r] = "failed" =>
        \A e \in Steps(r) : status[e] \in {"done", "failed"}

\* The committed rows of a run agree with each other, whatever transactions commit
\* or roll back: `done' and an output go together, a settled run has no step left
\* to claim, a running one no step that failed, a step is queued only with all it
\* reads recorded, and an execution of no run is handed back as it was found
\* (worker-loop.ts:65, :176; interpreter.ts:136-181).
RowsAgree ==
    \A e \in Execs :
        /\ status[e] = "done" <=> e \in recorded
        /\ RunOf[e] = NoRun => status[e] \in {"absent", "queued"}
        /\ RunOf[e] \in Runs =>
             /\ runStatus[RunOf[e]] = "absent" <=> status[e] = "absent"
             /\ runStatus[RunOf[e]] = "done" => status[e] = "done"
             /\ runStatus[RunOf[e]] = "failed" => status[e] \in {"done", "failed"}
             /\ runStatus[RunOf[e]] = "running" => status[e] # "failed"
             /\ status[e] = "queued" => Deps[e] \subseteq recorded

\* No command of a step runs on behalf of a run already settled: a worker that
\* is dispatching keeps a concurrent failRun from committing.
NoDispatchForSettledRun ==
    \A w \in Workers : pc[w] = "dispatching" => runStatus[Run(w)] = "running"

\* --- the inductive invariant behind the invariants above

\* A worker holds an execution exactly while its transaction is open, and the
\* committed row still reads `queued` all that time.
ClaimsHold ==
    \A w \in Workers :
        /\ pc[w] = "idle" <=> mine[w] = NoExec
        /\ pc[w] # "idle" => status[mine[w]] = "queued"
        /\ pc[w] \notin {"idle", "claimed"} => Run(w) \in Runs
        /\ pc[w] # "sweeping" => todo[w] = {} /\ rows[w] = {}

\* No row is locked by two transactions.
RowsExclusive ==
    \A v, w \in Workers : v # w =>
        /\ mine[v] = mine[w] => mine[v] = NoExec
        /\ mine[v] \notin rows[w]
        /\ rows[v] \intersect rows[w] = {}

RunsExclusive ==
    \A v, w \in Workers : v # w /\ HoldsRun(v) /\ HoldsRun(w) => Run(v) # Run(w)

\* What a transaction that holds its run's row has read is still true.
ReadsHold ==
    \A w \in Workers :
        /\ pc[w] = "promoting" =>
             seen[w] = (Steps(Run(w)) \intersect recorded) \union {mine[w]}
        /\ pc[w] = "sweeping" =>
             /\ todo[w] \union rows[w] \subseteq Steps(Run(w)) \ {mine[w]}
             /\ \A e \in rows[w] : status[e] \in Remaining
             /\ \A e \in Steps(Run(w)) \ {mine[w]} :
                  status[e] \in Remaining => e \in todo[w] \union rows[w]

\* The inductive invariant: whatever the interleaving, locks are exclusive,
\* committed rows agree, and what a lock holder has read cannot go stale.
InductiveInvariant ==
    /\ TypeOK
    /\ ClaimsHold
    /\ RowsExclusive
    /\ RunsExclusive
    /\ RowsAgree
    /\ ReadsHold
    /\ NoMissedPromotion
    /\ NoMissedRunCompletion

\* Steps and runs settle as RunLifecycle promises: never twice, never back,
\* never before the dependencies.
Lifecycle == INSTANCE RunLifecycle WITH outcome <- runStatus, finished <- recorded
ImplementsRunLifecycle == Lifecycle!Spec

\* Every submitted run settles, over worker losses and an agent that comes and
\* goes - unless lock cycles between failRun and the run's other workers recur
\* for ever (each victim's retry may rebuild the cycle it was aborted for).
RunSettlesUnlessCyclesRecur ==
    \/ []<>(\E w \in Workers : InLockCycle(w))
    \/ \A r \in Runs :
         runStatus[r] = "running" ~> runStatus[r] \in {"done", "failed"}

\* What executions.queries.ts says of failRemainingForRun: leaving a row another
\* worker is mid-dispatch on alone, it never conflicts with that worker.
FailRunNeverConflicts == \A w \in Workers : ~InLockCycle(w)

===============================================================================
