--------------------------- MODULE WorkerLoopProofs ---------------------------
(***************************************************************************)
(* The safety of WorkerLoop for any number of workers, runs and steps: the *)
(* inductive invariant, the invariants TLC checks on a small instance, and *)
(* the refinement of RunLifecycle.                                         *)
(***************************************************************************)
EXTENDS WorkerLoop, TLAPS

\* The id claim_execution() returns for "nothing to claim" names no execution.
LEMMA NoExecOutside == NoExec \notin Execs
BY ConstantsAssumption DEF NoExec

\* Initially nothing is submitted and every worker is idle, so the inductive
\* invariant holds.
LEMMA InitInvariant == Init => InductiveInvariant
BY ConstantsAssumption
   DEF Init, InductiveInvariant, TypeOK, States, ClaimsHold, RowsExclusive, RunsExclusive,
       RowsAgree, ReadsHold, NoMissedPromotion, NoMissedRunCompletion, HoldsRun, NoExec,
       NoRun, Remaining

\* Ending a transaction without a write - a rollback - preserves the inductive
\* invariant, whatever the transaction had done.
LEMMA RollbackInvariant ==
    ASSUME InductiveInvariant, NEW w \in Workers, Rollback(w),
           crashes' \in 0 .. MaxCrashes
    PROVE  InductiveInvariant'
<1> USE ConstantsAssumption DEF InductiveInvariant, Rollback, EndTransaction, committed
<1>1. TypeOK'
  BY DEF TypeOK, States
<1>2. ClaimsHold'
  BY DEF TypeOK, ClaimsHold, Run, NoExec
<1>3. RowsExclusive'
  BY DEF TypeOK, RowsExclusive, NoExec
<1>4. RunsExclusive'
  BY DEF TypeOK, RunsExclusive, HoldsRun, Run
<1>5. RowsAgree' /\ NoMissedPromotion' /\ NoMissedRunCompletion'
  BY DEF RowsAgree, NoMissedPromotion, NoMissedRunCompletion, Steps
<1>6. ReadsHold'
  BY DEF TypeOK, ReadsHold, Run, Steps
<1>7. QED
  BY <1>1, <1>2, <1>3, <1>4, <1>5, <1>6

\* The run of a worker past its claim is running, and the claimed step is ready
\* and unfinished: no other transaction can settle either before this one ends.
LEMMA ActiveWorker ==
    ASSUME InductiveInvariant, NEW w \in Workers, pc[w] \notin {"idle", "claimed"}
    PROVE  /\ mine[w] \in Execs /\ status[mine[w]] = "queued"
           /\ Run(w) \in Runs /\ RunOf[mine[w]] = Run(w)
           /\ mine[w] \notin recorded /\ Deps[mine[w]] \subseteq recorded
           /\ runStatus[Run(w)] = "running"
<1> USE ConstantsAssumption
<1>1. TypeOK /\ ClaimsHold /\ RowsAgree
  BY DEF InductiveInvariant
<1>2. mine[w] # NoExec /\ status[mine[w]] = "queued" /\ Run(w) \in Runs
  BY <1>1 DEF ClaimsHold
<1>3. mine[w] \in Execs /\ RunOf[mine[w]] = Run(w)
  BY <1>1, <1>2 DEF TypeOK, Run
<1>4. runStatus[Run(w)] \in {"absent", "running", "done", "failed"}
  BY <1>1, <1>2 DEF TypeOK
<1>5. RowsAgree!(mine[w])
  BY <1>1, <1>3 DEF RowsAgree
<1>6. QED
  BY <1>2, <1>3, <1>4, <1>5

\* submitRun and enqueue only add rows, and the rows of one run appear together.
LEMMA SubmitInvariant ==
    ASSUME InductiveInvariant, NEW r \in Runs, SubmitRun(r)
    PROVE  InductiveInvariant'
<1> USE ConstantsAssumption
<1>1. /\ TypeOK /\ ClaimsHold /\ RowsExclusive /\ RunsExclusive /\ RowsAgree
      /\ ReadsHold /\ NoMissedPromotion /\ NoMissedRunCompletion
  BY DEF InductiveInvariant
<1>2. /\ runStatus[r] = "absent"
      /\ runStatus' = [runStatus EXCEPT ![r] = IF Steps(r) = {} THEN "done" ELSE "running"]
      /\ status' = [e \in Execs |->
                      IF RunOf[e] # r THEN status[e]
                      ELSE IF Deps[e] = {} THEN "queued" ELSE "blocked"]
      /\ UNCHANGED <<recorded, pc, mine, seen, todo, rows, crashes>>
  BY DEF SubmitRun, txn
<1>3. r # NoRun
  BY DEF NoRun
<1>4. \A e \in Execs : RunOf[e] = r => status[e] = "absent" /\ e \notin recorded
  BY <1>1, <1>2 DEF RowsAgree
<1>5. \A w \in Workers : pc[w] # "idle" =>
        mine[w] \in Execs /\ status[mine[w]] = "queued" /\ RunOf[mine[w]] # r
  <2> SUFFICES ASSUME NEW w \in Workers, pc[w] # "idle"
               PROVE  mine[w] \in Execs /\ status[mine[w]] = "queued" /\ RunOf[mine[w]] # r
    OBVIOUS
  <2>1. mine[w] \in Execs /\ status[mine[w]] = "queued"
    BY <1>1 DEF TypeOK, ClaimsHold
  <2>2. QED
    BY <1>4, <2>1
<1>6. TypeOK'
  BY <1>1, <1>2 DEF TypeOK
<1>7. ClaimsHold'
  BY <1>1, <1>2, <1>5 DEF ClaimsHold, Run
<1>8. RowsExclusive' /\ RunsExclusive'
  BY <1>1, <1>2 DEF RowsExclusive, RunsExclusive, HoldsRun, Run
<1>9. RowsAgree'
  <2> SUFFICES ASSUME NEW e \in Execs
               PROVE  RowsAgree!(e)'
    BY DEF RowsAgree
  <2>1. CASE RunOf[e] = r
    BY <1>1, <1>2, <1>3, <1>4, <2>1 DEF TypeOK, Steps
  <2>2. CASE RunOf[e] # r
    BY <1>1, <1>2, <2>2 DEF TypeOK, RowsAgree
  <2>3. QED
    BY <2>1, <2>2
<1>10. NoMissedPromotion'
  <2> SUFFICES ASSUME NEW e \in Execs, status'[e] = "blocked"
               PROVE  ~(Deps[e] \subseteq recorded)
    BY <1>2 DEF NoMissedPromotion
  <2>1. CASE RunOf[e] = r
    <3>1. PICK d \in Deps[e] : d \in Execs /\ RunOf[d] = r
      BY <1>2, <2>1
    <3>2. QED
      BY <1>4, <3>1
  <2>2. CASE RunOf[e] # r
    BY <1>1, <1>2, <2>2 DEF NoMissedPromotion
  <2>3. QED
    BY <2>1, <2>2
<1>11. NoMissedRunCompletion'
  <2> SUFFICES ASSUME NEW q \in Runs, runStatus'[q] = "running"
               PROVE  ~(Steps(q) \subseteq recorded)
    BY <1>2 DEF NoMissedRunCompletion, Steps
  <2>1. CASE q = r
    <3>1. PICK e \in Steps(r) : TRUE
      BY <1>1, <1>2, <2>1 DEF TypeOK
    <3>2. e \in Execs /\ RunOf[e] = r
      BY DEF Steps
    <3>3. QED
      BY <1>4, <2>1, <3>2
  <2>2. CASE q # r
    BY <1>1, <1>2, <2>2 DEF TypeOK, NoMissedRunCompletion
  <2>3. QED
    BY <2>1, <2>2
<1>12. ReadsHold'
  BY <1>1, <1>2, <1>5 DEF TypeOK, ReadsHold, Run, Steps
<1>13. QED
  BY <1>6, <1>7, <1>8, <1>9, <1>10, <1>11, <1>12 DEF InductiveInvariant

\* An execution enqueued for no run joins no run's bookkeeping.
LEMMA EnqueueInvariant ==
    ASSUME InductiveInvariant, NEW x \in Execs, Enqueue(x)
    PROVE  InductiveInvariant'
<1> USE ConstantsAssumption DEF InductiveInvariant, Enqueue, txn
<1>1. TypeOK'
  BY DEF TypeOK
<1>2. ClaimsHold'
  BY DEF TypeOK, ClaimsHold, Run
<1>3. RowsExclusive' /\ RunsExclusive'
  BY DEF RowsExclusive, RunsExclusive, HoldsRun, Run
<1>4. RowsAgree'
  BY DEF TypeOK, RowsAgree, NoRun
<1>5. NoMissedPromotion' /\ NoMissedRunCompletion'
  BY DEF TypeOK, NoMissedPromotion, NoMissedRunCompletion, Steps
<1>6. ReadsHold'
  BY DEF TypeOK, ReadsHold, ClaimsHold, Run, Steps, NoRun
<1>7. QED
  BY <1>1, <1>2, <1>3, <1>4, <1>5, <1>6

\* A claim takes a queued row no other transaction holds.
LEMMA ClaimInvariant ==
    ASSUME InductiveInvariant, NEW w \in Workers, Claim(w)
    PROVE  InductiveInvariant'
<1> USE ConstantsAssumption DEF InductiveInvariant, Claim, committed
<1>1. PICK e \in Execs : Claimable(w, e) /\ mine' = [mine EXCEPT ![w] = e]
  OBVIOUS
<1>2. TypeOK'
  BY <1>1 DEF TypeOK, States
<1>3. ClaimsHold'
  BY <1>1 DEF TypeOK, ClaimsHold, Claimable, Run, NoExec
<1>4. RowsExclusive'
  BY <1>1 DEF TypeOK, RowsExclusive, ClaimsHold, Claimable, HeldByOther
<1>5. RunsExclusive'
  BY <1>1 DEF TypeOK, RunsExclusive, HoldsRun, Run
<1>6. RowsAgree' /\ NoMissedPromotion' /\ NoMissedRunCompletion'
  BY DEF RowsAgree, NoMissedPromotion, NoMissedRunCompletion, Steps
<1>7. ReadsHold'
  BY <1>1 DEF TypeOK, ReadsHold, Run, Steps
<1>8. QED
  BY <1>2, <1>3, <1>4, <1>5, <1>6, <1>7

\* The steps of runOnce() that touch no row: reads, the dispatch and its answer.
LocalStep(w) ==
    ResolveReads(w) \/ ResolveThrows(w) \/ AgentSucceeds(w) \/ AgentFails(w)

\* They move only their own worker, towards dispatch, completion or failure.
LEMMA LocalStepInvariant ==
    ASSUME InductiveInvariant, NEW w \in Workers, LocalStep(w)
    PROVE  InductiveInvariant'
<1> USE ConstantsAssumption
<1>1. /\ TypeOK /\ ClaimsHold /\ RowsExclusive /\ RunsExclusive /\ RowsAgree
      /\ ReadsHold /\ NoMissedPromotion /\ NoMissedRunCompletion
  BY DEF InductiveInvariant
<1>2. /\ UNCHANGED <<runStatus, status, recorded, mine, seen, todo, rows, crashes>>
      /\ pc[w] \in {"claimed", "dispatching"}
      /\ pc[w] = "claimed" => Run(w) # NoRun
      /\ \E p \in {"dispatching", "completing", "failing"} : pc' = [pc EXCEPT ![w] = p]
  BY DEF LocalStep, ResolveReads, ResolveThrows, AgentSucceeds, AgentFails, committed, txn
<1>3. PICK p \in {"dispatching", "completing", "failing"} : pc' = [pc EXCEPT ![w] = p]
  BY <1>2
<1>4. TypeOK'
  BY <1>1, <1>2, <1>3 DEF TypeOK, States
<1>5. ClaimsHold'
  <2>1. mine[w] \in Execs
    BY <1>1, <1>2 DEF TypeOK, ClaimsHold
  <2>2. Run(w) \in Runs
    BY <1>1, <1>2, <2>1 DEF ClaimsHold, Run
  <2>3. QED
    BY <1>1, <1>2, <1>3, <2>1, <2>2 DEF TypeOK, ClaimsHold, Run
<1>6. RowsExclusive' /\ RunsExclusive'
  BY <1>1, <1>2, <1>3 DEF TypeOK, RowsExclusive, RunsExclusive, HoldsRun, Run
<1>7. RowsAgree' /\ NoMissedPromotion' /\ NoMissedRunCompletion'
  BY <1>1, <1>2 DEF RowsAgree, NoMissedPromotion, NoMissedRunCompletion, Steps
<1>8. ReadsHold'
  BY <1>1, <1>2, <1>3 DEF TypeOK, ReadsHold, Run, Steps
<1>9. QED
  BY <1>4, <1>5, <1>6, <1>7, <1>8 DEF InductiveInvariant

\* Taking the run's row lock, and listing the outputs under it.
LEMMA LockRunInvariant ==
    ASSUME InductiveInvariant, NEW w \in Workers, LockRun(w)
    PROVE  InductiveInvariant'
<1> USE ConstantsAssumption DEF InductiveInvariant, LockRun, committed, txn
<1>1. TypeOK'
  BY DEF TypeOK, States
<1>2. ClaimsHold'
  BY DEF TypeOK, ClaimsHold, Run
<1>3. RowsExclusive' /\ RunsExclusive'
  BY DEF TypeOK, RowsExclusive, RunsExclusive, HoldsRun, Run, RunRowFree
<1>4. RowsAgree' /\ NoMissedPromotion' /\ NoMissedRunCompletion'
  BY DEF RowsAgree, NoMissedPromotion, NoMissedRunCompletion, Steps
<1>5. ReadsHold'
  BY DEF TypeOK, ReadsHold, Run, Steps
<1>6. QED
  BY <1>1, <1>2, <1>3, <1>4, <1>5

\* The step's output is inserted and the run's outputs listed under the run's
\* row lock, so the list is current when it is read.
LEMMA RecordOutputInvariant ==
    ASSUME InductiveInvariant, NEW w \in Workers, RecordOutput(w)
    PROVE  InductiveInvariant'
<1> USE ConstantsAssumption DEF InductiveInvariant, RecordOutput, committed
<1>1. TypeOK'
  BY DEF TypeOK, States, ClaimsHold, NoExec, Steps
<1>2. ClaimsHold'
  BY DEF TypeOK, ClaimsHold, Run
<1>3. RowsExclusive' /\ RunsExclusive'
  BY DEF TypeOK, RowsExclusive, RunsExclusive, HoldsRun, Run
<1>4. RowsAgree' /\ NoMissedPromotion' /\ NoMissedRunCompletion'
  BY DEF RowsAgree, NoMissedPromotion, NoMissedRunCompletion, Steps
<1>5. ReadsHold'
  BY DEF TypeOK, ReadsHold, Run, Steps
<1>6. QED
  BY <1>1, <1>2, <1>3, <1>4, <1>5

\* The commit of completeStep: only its own step becomes recorded, exactly the
\* blocked steps whose last dependency that was are promoted, and the run is done
\* exactly when nothing is left.  The run's row lock makes `seen` current.
LEMMA CommitCompletionInvariant ==
    ASSUME InductiveInvariant, NEW w \in Workers, CommitCompletion(w)
    PROVE  InductiveInvariant'
<1> DEFINE m == mine[w]
           R == Run(w)
<1> USE ConstantsAssumption
<1>1. /\ TypeOK /\ ClaimsHold /\ RowsExclusive /\ RunsExclusive /\ RowsAgree
      /\ ReadsHold /\ NoMissedPromotion /\ NoMissedRunCompletion
  BY DEF InductiveInvariant
<1>2. /\ pc[w] = "promoting"
      /\ recorded' = recorded \union {m}
      /\ status' = [e \in Execs |-> IF e = m THEN "done"
                                    ELSE IF e \in Promoted(w) THEN "queued"
                                    ELSE status[e]]
      /\ runStatus' = [runStatus EXCEPT ![R] = RunStatusAfter(w)]
      /\ pc' = [pc EXCEPT ![w] = "idle"]
      /\ mine' = [mine EXCEPT ![w] = NoExec]
      /\ seen' = [seen EXCEPT ![w] = {}]
      /\ todo' = [todo EXCEPT ![w] = {}]
      /\ rows' = [rows EXCEPT ![w] = {}]
      /\ UNCHANGED crashes
  BY DEF CommitCompletion, EndTransaction
<1>3. m \in Execs /\ status[m] = "queued"
  BY <1>2, ActiveWorker
<1>4. R \in Runs /\ RunOf[m] = R
  BY <1>2, ActiveWorker
<1>5. m \notin recorded /\ runStatus[R] = "running"
  BY <1>2, ActiveWorker
<1>6. seen[w] = (Steps(R) \intersect recorded) \union {m}
  BY <1>1, <1>2 DEF ReadsHold
<1>7. Steps(R) \intersect recorded' = seen[w]
  BY <1>2, <1>3, <1>4, <1>6 DEF Steps
<1>8. \A e \in Execs : RunOf[e] = R => (Deps[e] \subseteq recorded' <=> Deps[e] \subseteq seen[w])
  BY <1>4, <1>7 DEF Steps
<1>9. \A e \in Execs : RunOf[e] # R => (Deps[e] \subseteq recorded' <=> Deps[e] \subseteq recorded)
  BY <1>2, <1>4
<1>10. \A e \in Execs : e \in Promoted(w) <=>
          RunOf[e] = R /\ status[e] = "blocked" /\ Deps[e] \subseteq recorded'
  BY <1>1, <1>3, <1>6, <1>8 DEF Promoted, Steps, RowsAgree
<1>11. runStatus'[R] = IF Steps(R) \subseteq recorded' THEN "done" ELSE "running"
  BY <1>1, <1>2, <1>4, <1>5, <1>7 DEF TypeOK, RunStatusAfter
<1>12. \A v \in Workers \ {w} : pc[v] # "idle" =>
          /\ mine[v] \in Execs /\ mine[v] # m
          /\ status'[mine[v]] = "queued"
  <2> SUFFICES ASSUME NEW v \in Workers \ {w}, pc[v] # "idle"
               PROVE  /\ mine[v] \in Execs /\ mine[v] # m
                      /\ status'[mine[v]] = "queued"
    OBVIOUS
  <2>1. mine[v] \in Execs /\ status[mine[v]] = "queued"
    BY <1>1 DEF TypeOK, ClaimsHold
  <2>2. mine[v] # m
    BY <1>1, <2>1, NoExecOutside DEF RowsExclusive
  <2>3. QED
    BY <1>2, <1>10, <2>1, <2>2
<1>13. \A v \in Workers \ {w} : HoldsRun(v) => Run(v) # R
  BY <1>1, <1>2 DEF RunsExclusive, HoldsRun
<1>14. TypeOK'
  BY <1>1, <1>2, <1>3, <1>4, <1>11 DEF TypeOK, States
<1>15. ClaimsHold'
  BY ZenonT(60), <1>1, <1>2, <1>12 DEF TypeOK, ClaimsHold, Run
<1>16. RowsExclusive' /\ RunsExclusive'
  BY <1>1, <1>2 DEF TypeOK, RowsExclusive, RunsExclusive, HoldsRun, Run, NoExec
<1>17. RowsAgree'
  <2> SUFFICES ASSUME NEW e \in Execs
               PROVE  RowsAgree!(e)'
    BY DEF RowsAgree
  <2>1. CASE e = m
    BY <1>1, <1>2, <1>3, <1>4, <1>11, <2>1 DEF TypeOK, RowsAgree, NoRun, Steps
  <2>2. CASE e # m /\ RunOf[e] = R
    BY <1>1, <1>2, <1>3, <1>4, <1>5, <1>8, <1>10, <1>11, <2>2
       DEF TypeOK, RowsAgree, NoRun, Steps
  <2>3. CASE RunOf[e] # R
    BY <1>1, <1>2, <1>4, <1>9, <1>10, <2>3 DEF TypeOK, RowsAgree
  <2>4. QED
    BY <2>1, <2>2, <2>3
<1>18. NoMissedPromotion'
  BY <1>1, <1>2, <1>3, <1>9, <1>10 DEF TypeOK, NoMissedPromotion
<1>19. NoMissedRunCompletion'
  <2> SUFFICES ASSUME NEW q \in Runs, runStatus'[q] = "running"
               PROVE  ~(Steps(q) \subseteq recorded')
    BY DEF NoMissedRunCompletion, Steps
  <2>1. CASE q = R
    BY <1>11, <2>1
  <2>2. CASE q # R
    BY <1>1, <1>2, <1>4, <2>2 DEF TypeOK, NoMissedRunCompletion, Steps
  <2>3. QED
    BY <2>1, <2>2
<1>20. ReadsHold'
  <2> SUFFICES ASSUME NEW v \in Workers
               PROVE  ReadsHold!(v)'
    BY DEF ReadsHold
  <2>1. CASE v = w
    BY <1>1, <1>2, <2>1 DEF TypeOK
  <2>2. CASE v # w
    <3>1. /\ pc'[v] = pc[v] /\ mine'[v] = mine[v] /\ seen'[v] = seen[v]
          /\ todo'[v] = todo[v] /\ rows'[v] = rows[v]
      BY <1>1, <1>2, <2>2 DEF TypeOK
    <3>2. pc[v] \in {"promoting", "sweeping"} => Run(v) # R
      BY <1>13, <2>2 DEF HoldsRun
    <3>3. \A e \in Execs : RunOf[e] # R => status'[e] = status[e]
      BY <1>2, <1>4, <1>10
    <3>4. CASE pc[v] = "promoting"
      BY <1>1, <1>2, <1>4, <3>1, <3>2, <3>4 DEF ReadsHold, Run, Steps
    <3>5. CASE pc[v] = "sweeping"
      <4>1. /\ todo[v] \union rows[v] \subseteq Steps(Run(v)) \ {mine[v]}
            /\ \A e \in rows[v] : status[e] \in Remaining
            /\ \A e \in Steps(Run(v)) \ {mine[v]} :
                 status[e] \in Remaining => e \in todo[v] \union rows[v]
        BY <1>1, <3>5 DEF ReadsHold
      <4>2. \A e \in Steps(Run(v)) : status'[e] = status[e]
        BY <3>2, <3>3, <3>5 DEF Steps
      <4>3. Steps(Run(v))' = Steps(Run(v))
        BY <3>1 DEF Run, Steps
      <4>4. QED
        BY <3>1, <3>5, <4>1, <4>2, <4>3
    <3>6. QED
      BY <3>1, <3>4, <3>5
  <2>3. QED
    BY <2>1, <2>2
<1>21. QED
  BY <1>14, <1>15, <1>16, <1>17, <1>18, <1>19, <1>20 DEF InductiveInvariant

\* failRun takes the run's row lock and lists the sibling rows to fail.
LEMMA MarkRunFailedInvariant ==
    ASSUME InductiveInvariant, NEW w \in Workers, MarkRunFailed(w)
    PROVE  InductiveInvariant'
<1> USE ConstantsAssumption
<1>1. /\ TypeOK /\ ClaimsHold /\ RowsExclusive /\ RunsExclusive /\ RowsAgree
      /\ ReadsHold /\ NoMissedPromotion /\ NoMissedRunCompletion
  BY DEF InductiveInvariant
<1>2. /\ pc[w] = "failing" /\ RunRowFree(w)
      /\ todo' = [todo EXCEPT
                    ![w] = {e \in Steps(Run(w)) \ {mine[w]} : status[e] \in Remaining}]
      /\ pc' = [pc EXCEPT ![w] = "sweeping"]
      /\ UNCHANGED <<runStatus, status, recorded, mine, seen, rows, crashes>>
  BY DEF MarkRunFailed, committed
<1>3. rows[w] = {}
  BY <1>1, <1>2 DEF ClaimsHold
<1>4. TypeOK'
  BY <1>1, <1>2 DEF TypeOK, States, Steps
<1>5. ClaimsHold'
  BY <1>1, <1>2 DEF TypeOK, ClaimsHold, Run
<1>6. RowsExclusive' /\ RunsExclusive'
  BY <1>1, <1>2 DEF TypeOK, RowsExclusive, RunsExclusive, HoldsRun, Run, RunRowFree
<1>7. RowsAgree' /\ NoMissedPromotion' /\ NoMissedRunCompletion'
  BY <1>1, <1>2 DEF RowsAgree, NoMissedPromotion, NoMissedRunCompletion, Steps
<1>8. ReadsHold'
  BY <1>1, <1>2, <1>3 DEF TypeOK, ReadsHold, Run, Steps
<1>9. QED
  BY <1>4, <1>5, <1>6, <1>7, <1>8 DEF InductiveInvariant

\* failRemainingForRun locks one more sibling row, which nobody else holds.
LEMMA SweepRowInvariant ==
    ASSUME InductiveInvariant, NEW w \in Workers, NEW x \in Execs, SweepRow(w, x)
    PROVE  InductiveInvariant'
<1> USE ConstantsAssumption
<1>1. /\ TypeOK /\ ClaimsHold /\ RowsExclusive /\ RunsExclusive /\ RowsAgree
      /\ ReadsHold /\ NoMissedPromotion /\ NoMissedRunCompletion
  BY DEF InductiveInvariant
<1>2. /\ pc[w] = "sweeping"
      /\ x \in todo[w] /\ ~HeldByOther(w, x)
      /\ todo' = [todo EXCEPT ![w] = todo[w] \ {x}]
      /\ rows' = [rows EXCEPT ![w] = IF status[x] \in Remaining
                                     THEN rows[w] \union {x} ELSE rows[w]]
      /\ UNCHANGED <<runStatus, status, recorded, pc, mine, seen, crashes>>
  BY DEF SweepRow, committed
<1>3. TypeOK'
  BY <1>1, <1>2 DEF TypeOK
<1>4. ClaimsHold'
  BY <1>1, <1>2 DEF TypeOK, ClaimsHold, Run
<1>5. RowsExclusive'
  <2>1. x # mine[w]
    BY <1>1, <1>2 DEF ReadsHold
  <2>2. QED
    BY <1>1, <1>2, <2>1 DEF TypeOK, RowsExclusive, HeldByOther
<1>6. RunsExclusive'
  BY <1>1, <1>2 DEF RunsExclusive, HoldsRun, Run
<1>7. RowsAgree' /\ NoMissedPromotion' /\ NoMissedRunCompletion'
  BY <1>1, <1>2 DEF RowsAgree, NoMissedPromotion, NoMissedRunCompletion, Steps
<1>8. ReadsHold'
  BY <1>1, <1>2 DEF TypeOK, ReadsHold, Run, Steps
<1>9. QED
  BY <1>3, <1>4, <1>5, <1>6, <1>7, <1>8 DEF InductiveInvariant

\* The commit of failRun fails every step of the run that is not done: none is
\* held by another worker, because the sweep had to wait for it.
LEMMA CommitFailureInvariant ==
    ASSUME InductiveInvariant, NEW w \in Workers, CommitFailure(w)
    PROVE  InductiveInvariant'
<1> DEFINE m == mine[w]
           R == Run(w)
<1> USE ConstantsAssumption
<1>1. /\ TypeOK /\ ClaimsHold /\ RowsExclusive /\ RunsExclusive /\ RowsAgree
      /\ ReadsHold /\ NoMissedPromotion /\ NoMissedRunCompletion
  BY DEF InductiveInvariant
<1>2. /\ pc[w] = "sweeping" /\ todo[w] = {}
      /\ runStatus' = [runStatus EXCEPT ![R] = "failed"]
      /\ status' = [e \in Execs |-> IF e = m \/ e \in rows[w] THEN "failed" ELSE status[e]]
      /\ pc' = [pc EXCEPT ![w] = "idle"]
      /\ mine' = [mine EXCEPT ![w] = NoExec]
      /\ seen' = [seen EXCEPT ![w] = {}]
      /\ todo' = [todo EXCEPT ![w] = {}]
      /\ rows' = [rows EXCEPT ![w] = {}]
      /\ UNCHANGED <<recorded, crashes>>
  BY DEF CommitFailure, EndTransaction
<1>3. /\ m \in Execs /\ status[m] = "queued"
      /\ R \in Runs /\ RunOf[m] = R
      /\ m \notin recorded /\ runStatus[R] = "running"
  BY <1>2, ActiveWorker
<1>4. /\ rows[w] \subseteq Steps(R) \ {m}
      /\ \A e \in rows[w] : status[e] \in Remaining
      /\ \A e \in Steps(R) \ {m} : status[e] \in Remaining => e \in rows[w]
  BY <1>1, <1>2 DEF ReadsHold
<1>5. \A e \in Execs : RunOf[e] # R => status'[e] = status[e]
  BY <1>2, <1>3, <1>4 DEF Steps
<1>6. \A e \in Execs : RunOf[e] = R =>
        /\ status[e] \in {"blocked", "queued", "done"}
        /\ status'[e] = IF status[e] = "done" THEN "done" ELSE "failed"
  <2> SUFFICES ASSUME NEW e \in Execs, RunOf[e] = R
               PROVE  /\ status[e] \in {"blocked", "queued", "done"}
                      /\ status'[e] = IF status[e] = "done" THEN "done" ELSE "failed"
    OBVIOUS
  <2>1. status[e] \in {"blocked", "queued", "done"}
    BY <1>1, <1>3 DEF TypeOK, RowsAgree
  <2>2. e \in Steps(R)
    BY DEF Steps
  <2>3. QED
    BY <1>2, <1>3, <1>4, <2>1, <2>2 DEF Remaining
<1>7. \A v \in Workers \ {w} : pc[v] # "idle" =>
        mine[v] \in Execs /\ status[mine[v]] = "queued" /\ RunOf[mine[v]] # R
  <2> SUFFICES ASSUME NEW v \in Workers \ {w}, pc[v] # "idle"
               PROVE  mine[v] \in Execs /\ status[mine[v]] = "queued" /\ RunOf[mine[v]] # R
    OBVIOUS
  <2>1. mine[v] \in Execs /\ status[mine[v]] = "queued"
    BY <1>1 DEF TypeOK, ClaimsHold
  <2>2. mine[v] # m /\ mine[v] \notin rows[w]
    BY <1>1, <1>3, <2>1, NoExecOutside DEF RowsExclusive
  <2>3. QED
    BY <1>4, <2>1, <2>2 DEF Steps, Remaining
<1>8. TypeOK'
  BY <1>1, <1>2, <1>3 DEF TypeOK, States
<1>9. ClaimsHold'
  BY ZenonT(60), <1>1, <1>2, <1>5, <1>7 DEF TypeOK, ClaimsHold, Run
<1>10. RowsExclusive' /\ RunsExclusive'
  BY <1>1, <1>2 DEF TypeOK, RowsExclusive, RunsExclusive, HoldsRun, Run, NoExec
<1>11. RowsAgree'
  <2> SUFFICES ASSUME NEW e \in Execs
               PROVE  RowsAgree!(e)'
    BY DEF RowsAgree
  <2>1. CASE RunOf[e] = R
    BY <1>1, <1>2, <1>3, <1>6, <2>1 DEF TypeOK, RowsAgree, NoRun
  <2>2. CASE RunOf[e] # R
    BY <1>1, <1>2, <1>3, <1>5, <2>2 DEF TypeOK, RowsAgree
  <2>3. QED
    BY <2>1, <2>2
<1>12. NoMissedPromotion'
  BY <1>1, <1>2, <1>5, <1>6 DEF NoMissedPromotion
<1>13. NoMissedRunCompletion'
  BY <1>1, <1>2, <1>3 DEF TypeOK, NoMissedRunCompletion, Steps
<1>14. ReadsHold'
  <2> SUFFICES ASSUME NEW v \in Workers
               PROVE  ReadsHold!(v)'
    BY DEF ReadsHold
  <2>1. CASE v = w
    BY <1>1, <1>2, <2>1 DEF TypeOK
  <2>2. CASE v # w
    <3>1. /\ pc'[v] = pc[v] /\ mine'[v] = mine[v] /\ seen'[v] = seen[v]
          /\ todo'[v] = todo[v] /\ rows'[v] = rows[v]
      BY <1>1, <1>2, <2>2 DEF TypeOK
    <3>2. Steps(Run(v))' = Steps(Run(v))
      BY <3>1 DEF Run, Steps
    <3>3. CASE pc[v] = "promoting"
      BY <1>1, <1>2, <3>1, <3>2, <3>3 DEF ReadsHold
    <3>4. CASE pc[v] = "sweeping"
      <4>1. /\ todo[v] \union rows[v] \subseteq Steps(Run(v)) \ {mine[v]}
            /\ \A e \in rows[v] : status[e] \in Remaining
            /\ \A e \in Steps(Run(v)) \ {mine[v]} :
                 status[e] \in Remaining => e \in todo[v] \union rows[v]
        BY <1>1, <3>4 DEF ReadsHold
      <4>2. \A e \in Steps(Run(v)) : status'[e] = status[e]
        BY <1>5, <1>7, <2>2, <3>4 DEF Run, Steps
      <4>3. QED
        BY <3>1, <3>2, <3>4, <4>1, <4>2
    <3>5. QED
      BY <3>1, <3>3, <3>4
  <2>3. QED
    BY <2>1, <2>2
<1>15. QED
  BY <1>8, <1>9, <1>10, <1>11, <1>12, <1>13, <1>14 DEF InductiveInvariant

\* Every step of every client and worker, crashes and deadlock victims included,
\* preserves the inductive invariant.
LEMMA StepInvariant == InductiveInvariant /\ [Next]_vars => InductiveInvariant'
<1> SUFFICES ASSUME InductiveInvariant, [Next]_vars
             PROVE  InductiveInvariant'
  OBVIOUS
<1>1. ASSUME NEW r \in Runs, SubmitRun(r) PROVE InductiveInvariant'
  BY <1>1, SubmitInvariant
<1>2. ASSUME NEW e \in Execs, Enqueue(e) PROVE InductiveInvariant'
  BY <1>2, EnqueueInvariant
<1>3. ASSUME NEW w \in Workers, RunOnce(w) PROVE InductiveInvariant'
  <2>1. CASE Claim(w)
    BY <2>1, ClaimInvariant
  <2>2. CASE RejectLoose(w)
    BY <2>2, RollbackInvariant DEF RejectLoose, InductiveInvariant, TypeOK
  <2>3. CASE ResolveReads(w) \/ ResolveThrows(w) \/ AgentSucceeds(w) \/ AgentFails(w)
    BY <2>3, LocalStepInvariant DEF LocalStep
  <2>4. CASE AgentUnavailable(w)
    BY <2>4, RollbackInvariant DEF AgentUnavailable, InductiveInvariant, TypeOK
  <2>5. CASE LockRun(w)
    BY <2>5, LockRunInvariant
  <2>6. CASE RecordOutput(w)
    BY <2>6, RecordOutputInvariant
  <2>7. CASE CommitCompletion(w)
    BY <2>7, CommitCompletionInvariant
  <2>8. CASE MarkRunFailed(w)
    BY <2>8, MarkRunFailedInvariant
  <2>9. CASE CommitFailure(w)
    BY <2>9, CommitFailureInvariant
  <2>10. CASE \E e \in Execs : SweepRow(w, e)
    BY <2>10, SweepRowInvariant
  <2>11. QED
    BY <1>3, <2>1, <2>2, <2>3, <2>4, <2>5, <2>6, <2>7, <2>8, <2>9, <2>10 DEF RunOnce
<1>4. ASSUME NEW w \in Workers, DeadlockVictim(w) PROVE InductiveInvariant'
  BY <1>4, RollbackInvariant DEF DeadlockVictim, InductiveInvariant, TypeOK
<1>5. ASSUME NEW w \in Workers, Crash(w) PROVE InductiveInvariant'
  <2>1. crashes' \in 0 .. MaxCrashes
    BY <1>5, ConstantsAssumption DEF Crash, InductiveInvariant, TypeOK
  <2>2. QED
    BY <1>5, <2>1, RollbackInvariant DEF Crash
<1>6. CASE UNCHANGED vars
  BY <1>6 DEF vars, InductiveInvariant, TypeOK, ClaimsHold, RowsExclusive, RunsExclusive,
              RowsAgree, ReadsHold, NoMissedPromotion, NoMissedRunCompletion, HoldsRun, Run, Steps
<1>7. QED
  BY <1>1, <1>2, <1>3, <1>4, <1>5, <1>6 DEF Next

\* Locks are exclusive, the committed rows agree and what a lock holder has read
\* stays true, in every reachable state.
THEOREM Invariance == Spec => []InductiveInvariant
<1>1. QED
  BY InitInvariant, StepInvariant, PTL DEF Spec

\* Every variable keeps its type.
THEOREM TypeCorrect == Spec => []TypeOK
<1>1. InductiveInvariant => TypeOK
  BY DEF InductiveInvariant
<1>2. QED
  BY <1>1, Invariance, PTL

\* completeStep never misses a promotion (the race interpreter.ts takes the run's
\* row lock against).
THEOREM PromotionsComplete == Spec => []NoMissedPromotion
<1>1. InductiveInvariant => NoMissedPromotion
  BY DEF InductiveInvariant
<1>2. QED
  BY <1>1, Invariance, PTL

\* completeStep never misses that its run is complete.
THEOREM CompletionsComplete == Spec => []NoMissedRunCompletion
<1>1. InductiveInvariant => NoMissedRunCompletion
  BY DEF InductiveInvariant
<1>2. QED
  BY <1>1, Invariance, PTL

\* A step is dispatched only when the outputs its reads resolve to are committed.
THEOREM DispatchIsReady == Spec => []DispatchAfterDependencies
<1>1. InductiveInvariant => DispatchAfterDependencies
  BY ActiveWorker DEF DispatchAfterDependencies
<1>2. QED
  BY <1>1, Invariance, PTL

\* Runs, steps and outputs never disagree, however transactions interleave and
\* whichever of them roll back.
THEOREM RowsConsistent == Spec => []RowsAgree
<1>1. InductiveInvariant => RowsAgree
  BY DEF InductiveInvariant
<1>2. QED
  BY <1>1, Invariance, PTL

\* failRun leaves no step of its run claimable, held rows included.
THEOREM FailedRunsQuiet == Spec => []FailedRunIsQuiet
<1>1. InductiveInvariant => FailedRunIsQuiet
  BY DEF InductiveInvariant, RowsAgree, FailedRunIsQuiet, Steps
<1>2. QED
  BY <1>1, Invariance, PTL

\* A step's command never runs for a run that is done or failed.
THEOREM SettledRunsUndisturbed == Spec => []NoDispatchForSettledRun
<1>1. InductiveInvariant => NoDispatchForSettledRun
  BY ActiveWorker DEF NoDispatchForSettledRun
<1>2. QED
  BY <1>1, Invariance, PTL

-------------------------------------------------------------------------------

\* A transaction that rolls back, or has not committed yet, changes nothing a
\* client can see.
LEMMA UncommittedStutters ==
    ASSUME UNCHANGED <<runStatus, recorded>>
    PROVE  UNCHANGED Lifecycle!vars
BY DEF Lifecycle!vars

\* Every step of the workers is a step of a run's life, or one no client sees.
LEMMA StepRefines ==
    InductiveInvariant /\ [Next]_vars => [Lifecycle!Next]_(Lifecycle!vars)
<1> SUFFICES ASSUME InductiveInvariant, [Next]_vars
             PROVE  Lifecycle!Next \/ UNCHANGED <<runStatus, recorded>>
  BY UncommittedStutters
<1> USE ConstantsAssumption
<1>1. ASSUME NEW r \in Runs, SubmitRun(r) PROVE Lifecycle!Next
  <2>1. Lifecycle!Submit(r)
    BY <1>1 DEF SubmitRun, Lifecycle!Submit, Lifecycle!Steps, Steps
  <2>2. QED
    BY <2>1 DEF Lifecycle!Next
<1>2. ASSUME NEW w \in Workers, CommitCompletion(w) PROVE Lifecycle!Next
  <2> DEFINE m == mine[w]
             R == Run(w)
  <2>1. /\ pc[w] = "promoting"
        /\ recorded' = recorded \union {m}
        /\ runStatus' = [runStatus EXCEPT ![R] = RunStatusAfter(w)]
    BY <1>2 DEF CommitCompletion
  <2>2. /\ m \in Execs /\ RunOf[m] = R /\ R \in Runs
        /\ m \notin recorded /\ Deps[m] \subseteq recorded
        /\ runStatus[R] = "running"
    BY <2>1, ActiveWorker
  <2>3. seen[w] = (Steps(R) \intersect recorded) \union {m}
    BY <2>1 DEF InductiveInvariant, ReadsHold
  <2>4. Steps(R) \subseteq seen[w] <=> Steps(R) \subseteq recorded'
    BY <2>1, <2>2, <2>3 DEF Steps
  <2>5. runStatus' = [runStatus EXCEPT
                        ![R] = IF Steps(R) \subseteq recorded' THEN "done" ELSE "running"]
    BY <2>1, <2>2, <2>4 DEF RunStatusAfter
  <2>6. Lifecycle!Finish(R, m)
    BY <2>1, <2>2, <2>5 DEF Lifecycle!Finish, Lifecycle!Ready, Lifecycle!Steps, Steps
  <2>7. QED
    BY <2>2, <2>6 DEF Lifecycle!Next
<1>3. ASSUME NEW w \in Workers, CommitFailure(w) PROVE Lifecycle!Next
  <2>1. /\ pc[w] = "sweeping"
        /\ runStatus' = [runStatus EXCEPT ![Run(w)] = "failed"]
        /\ recorded' = recorded
    BY <1>3 DEF CommitFailure
  <2>2. /\ mine[w] \in Execs /\ RunOf[mine[w]] = Run(w) /\ Run(w) \in Runs
        /\ mine[w] \notin recorded /\ Deps[mine[w]] \subseteq recorded
        /\ runStatus[Run(w)] = "running"
    BY <2>1, ActiveWorker
  <2>3. Lifecycle!GiveUp(Run(w))
    BY <2>1, <2>2 DEF Lifecycle!GiveUp, Lifecycle!Ready, Lifecycle!Steps
  <2>4. QED
    BY <2>2, <2>3 DEF Lifecycle!Next
<1>4. ASSUME NEW w \in Workers, RunOnce(w), ~CommitCompletion(w), ~CommitFailure(w)
      PROVE  UNCHANGED <<runStatus, recorded>>
  BY <1>4 DEF RunOnce, Claim, RejectLoose, ResolveReads, ResolveThrows, AgentSucceeds,
              AgentFails, AgentUnavailable, LockRun, RecordOutput, MarkRunFailed, SweepRow,
              Rollback, committed
<1>5. ASSUME NEW w \in Workers, DeadlockVictim(w) \/ Crash(w)
      PROVE  UNCHANGED <<runStatus, recorded>>
  BY <1>5 DEF DeadlockVictim, Crash, Rollback, committed
<1>6. ASSUME NEW e \in Execs, Enqueue(e) PROVE UNCHANGED <<runStatus, recorded>>
  BY <1>6 DEF Enqueue
<1>7. CASE UNCHANGED vars
  BY <1>7 DEF vars
<1>8. QED
  BY <1>1, <1>2, <1>3, <1>4, <1>5, <1>6, <1>7 DEF Next

\* The workers implement RunLifecycle: seen from a client, a run's steps finish one
\* at a time after their dependencies, and the run settles once and for all.
THEOREM Refinement == Spec => ImplementsRunLifecycle
<1>1. Init => Lifecycle!Init
  BY DEF Init, Lifecycle!Init
<1>2. QED
  BY <1>1, StepRefines, Invariance, PTL DEF Spec, Lifecycle!Spec, ImplementsRunLifecycle

===============================================================================
