------------------------ MODULE DurableExecutionProofs ------------------------
(***************************************************************************)
(* The safety of the durable-execution primitives for any number of        *)
(* workers, signallers, executions and waits and for any lease: the        *)
(* inductive invariant of DurableExecution and the properties TLC checks   *)
(* on two executions and two waits.                                        *)
(***************************************************************************)
EXTENDS DurableHistory, SequenceTheorems, TLAPS

\* The waits table keeps its rows and what each one waits for.
RowsKept ==
    /\ WaitIds \subseteq WaitIds'
    /\ \A i \in WaitIds : waits'[i].exec = waits[i].exec

\* A waits row is a record of the type; no id is NoWait.
LEMMA WaitRows ==
    ASSUME TypeOK
    PROVE  /\ WaitIds = 1 .. Len(waits) /\ Len(waits) \in Nat
           /\ \A i \in WaitIds : waits[i] \in Wait /\ i \in Nat /\ i # NoWait
BY DEF TypeOK, WaitIds, NoWait

\* A worker holds the row of the execution it is about to claim or to leave.
LEMMA WorkerHolds ==
    ASSUME NEW w \in Workers
    PROVE  /\ RowsOf(w) = WorkerRows(w)
           /\ pc[w] \in {"claiming", "leaving"} => RowsOf(w) = {<<"execution", mine[w]>>}
           /\ pc[w] \notin {"claiming", "leaving"} => RowsOf(w) = {}
BY DEF RowsOf, WorkerRows

\* A signal_wait() call holds the waits rows it has visited, their executions' rows
\* and the row of the execution it is at, and no other: now and after a step.
LEMMA SignalHolds ==
    ASSUME NEW s \in Signallers, NEW row
    PROVE  /\ row \in RowsOf(s) <=>
                \/ \E i \in visited[s] :
                     row = <<"wait", i>> \/ row = <<"execution", waits[i].exec>>
                \/ cur[s] # NoWait /\ row = <<"execution", waits[cur[s]].exec>>
           /\ row \in (RowsOf(s))' <=>
                \/ \E i \in visited'[s] :
                     row = <<"wait", i>> \/ row = <<"execution", waits'[i].exec>>
                \/ cur'[s] # NoWait /\ row = <<"execution", waits'[cur'[s]].exec>>
<1>1. RowsOf(s) = SignalRows(s) /\ (RowsOf(s))' = (SignalRows(s))'
  BY ConstantsAssumption DEF RowsOf
<1>2. 1 .. 2 = {1, 2}
  OBVIOUS
<1>3. \A i : LockOrder(i)[1] = <<"execution", waits[i].exec>> /\ LockOrder(i)[2] = <<"wait", i>>
  BY DEF LockOrder
<1>4. row \in {LockOrder(i)[n] : i \in visited[s], n \in 1 .. 2} <=>
        \E i \in visited[s] : row = LockOrder(i)[1] \/ row = LockOrder(i)[2]
  BY <1>2
<1>5. \A i : (LockOrder(i))'[1] = <<"execution", waits'[i].exec>> /\ (LockOrder(i))'[2] = <<"wait", i>>
  BY DEF LockOrder
<1>6. row \in {(LockOrder(i))'[n] : i \in visited'[s], n \in 1 .. 2} <=>
        \E i \in visited'[s] : row = (LockOrder(i))'[1] \/ row = (LockOrder(i))'[2]
  BY <1>2
<1>7. row \in SignalRows(s) <=>
        \/ \E i \in visited[s] : row = LockOrder(i)[1] \/ row = LockOrder(i)[2]
        \/ cur[s] # NoWait /\ row = LockOrder(cur[s])[1]
  BY <1>4 DEF SignalRows
<1>8. row \in (SignalRows(s))' <=>
        \/ \E i \in visited'[s] : row = (LockOrder(i))'[1] \/ row = (LockOrder(i))'[2]
        \/ cur'[s] # NoWait /\ row = <<"execution", waits'[cur'[s]].exec>>
  BY <1>6 DEF SignalRows, LockOrder
<1>9. QED
  BY ZenonT(60), <1>1, <1>3, <1>5, <1>7, <1>8

\* Who was given no row in a step in which no other was holds no row of another.
LEMMA LocksStayExclusive ==
    ASSUME LocksExclusive, NEW t \in Workers \union Signallers,
           \A u \in (Workers \union Signallers) \ {t} : (RowsOf(u))' \subseteq RowsOf(u),
           \A row \in (RowsOf(t))' : row \in RowsOf(t) \/ Free(t, row)
    PROVE  LocksExclusive'
<1> SUFFICES ASSUME NEW u \in Workers \union Signallers, NEW v \in Workers \union Signallers,
                    u # v, NEW row \in (RowsOf(u))', row \in (RowsOf(v))'
             PROVE  FALSE
  BY DEF LocksExclusive
<1>1. CASE u # t /\ v # t
  BY <1>1 DEF LocksExclusive
<1>2. CASE u = t \/ v = t
  BY <1>2 DEF LocksExclusive, Free
<1>3. QED
  BY <1>1, <1>2

\* A transaction that keeps its place keeps its rows.
LEMMA RowsOfOthersKept ==
    ASSUME TypeOK, CallsWellFormed, RowsKept
    PROVE  /\ \A w \in Workers : pc'[w] = pc[w] /\ mine'[w] = mine[w] => (RowsOf(w))' \subseteq RowsOf(w)
           /\ \A s \in Signallers :
                visited'[s] = visited[s] /\ cur'[s] = cur[s] => (RowsOf(s))' \subseteq RowsOf(s)
<1>1. ASSUME NEW w \in Workers, pc'[w] = pc[w], mine'[w] = mine[w]
      PROVE  (RowsOf(w))' \subseteq RowsOf(w)
  BY <1>1 DEF RowsOf, WorkerRows
<1>2. ASSUME NEW s \in Signallers, visited'[s] = visited[s], cur'[s] = cur[s]
      PROVE  (RowsOf(s))' \subseteq RowsOf(s)
  <2>1. /\ \A i \in visited[s] : i \in WaitIds
        /\ cur[s] # NoWait => cur[s] \in WaitIds
    BY DEF CallsWellFormed
  <2>2. /\ \A i \in visited[s] : waits'[i].exec = waits[i].exec
        /\ cur[s] # NoWait => waits'[cur[s]].exec = waits[cur[s]].exec
    BY <2>1 DEF RowsKept
  <2>3. ASSUME NEW row PROVE row \in (RowsOf(s))' <=> row \in RowsOf(s)
    BY <1>2, <2>2, SignalHolds
  <2>4. QED
    BY <2>3
<1>3. QED
  BY <1>1, <1>2

\* Rewriting rows without changing what they wait for keeps the table's shape.
LEMMA RewrittenRows ==
    ASSUME TypeOK, waits' \in [WaitIds -> Wait],
           \A i \in WaitIds : waits'[i].exec = waits[i].exec
    PROVE  waits' \in Seq(Wait) /\ WaitIds' = WaitIds /\ RowsKept
<1>1. WaitIds = 1 .. Len(waits) /\ Len(waits) \in Nat
  BY WaitRows
<1>2. waits' \in Seq(Wait)
  BY <1>1, IsASeq
<1>3. DOMAIN waits' = WaitIds
  OBVIOUS
<1>4. QED
  BY <1>2, <1>3 DEF WaitIds, RowsKept

\* Who does not fall asleep and loses no wait can still be woken.
LEMMA SleepersKept ==
    ASSUME TypeOK, SleeperCanWake, RowsKept,
           \A e \in Execs : status'[e] = "waiting" =>
              /\ status[e] = "waiting"
              /\ \A i \in Pending(e) : waits'[i].satisfied = waits[i].satisfied
    PROVE  SleeperCanWake'
<1> SUFFICES ASSUME NEW e \in Execs, status'[e] = "waiting" PROVE (Pending(e))' # {}
  BY DEF SleeperCanWake
<1>1. PICK i \in WaitIds : waits[i].exec = e /\ ~waits[i].satisfied
  BY DEF SleeperCanWake, Pending
<1>2. waits'[i].satisfied = waits[i].satisfied
  BY <1>1 DEF Pending
<1>3. i \in WaitIds' /\ waits'[i].exec = e /\ ~waits'[i].satisfied
  BY <1>1, <1>2 DEF RowsKept
<1>4. QED
  BY <1>3 DEF Pending

\* A worker's step preserves the invariant if it takes no row another holds, and
\* satisfies no wait whose row a signal_wait() call holds.
LEMMA WorkerStepInvariant ==
    ASSUME InductiveInvariant, NEW w \in Workers, UNCHANGED signalVars,
           TypeOK', RowsKept, SleeperCanWake',
           \A v \in Workers \ {w} : pc'[v] = pc[v] /\ mine'[v] = mine[v],
           pc'[w] # "idle" => mine'[w] \in Execs,
           pc'[w] \in {"claiming", "leaving"} =>
              \/ pc[w] \in {"claiming", "leaving"} /\ mine'[w] = mine[w]
              \/ Free(w, <<"execution", mine'[w]>>),
           \A s \in Signallers : \A i \in visited[s] : waits'[i].satisfied = waits[i].satisfied
    PROVE  InductiveInvariant'
<1> USE DEF InductiveInvariant, signalVars
<1>1. CallsWellFormed'
  <2>1. \A v \in Workers : pc'[v] # "idle" => mine'[v] \in Execs
    BY DEF CallsWellFormed
  <2>2. QED
    BY <2>1 DEF CallsWellFormed, RowsKept
<1>2. LocksExclusive'
  <2>1. \A u \in (Workers \union Signallers) \ {w} : (RowsOf(u))' \subseteq RowsOf(u)
    BY RowsOfOthersKept
  <2>2. \A row \in (RowsOf(w))' : row \in RowsOf(w) \/ Free(w, row)
    BY DEF RowsOf, WorkerRows
  <2>3. QED
    BY <2>1, <2>2, LocksStayExclusive
<1>3. VisitedJudged'
  BY DEF VisitedJudged
<1>4. QED
  BY <1>1, <1>2, <1>3

\* Taking an execution's row to claim it, or to leave it, waits for its holder.
LEMMA LockInvariant ==
    ASSUME InductiveInvariant, NEW w \in Workers, ClaimRow(w) \/ LockOwnRow(w)
    PROVE  InductiveInvariant'
<1>1. TypeOK'
  <2>1. /\ pc' \in [Workers -> {"idle", "claiming", "working", "leaving"}]
        /\ mine' \in [Workers -> Execs \union {NoExec}]
    BY DEF InductiveInvariant, TypeOK, ClaimRow, LockOwnRow
  <2>2. left' \in [Workers -> Nat]
    BY ConstantsAssumption DEF InductiveInvariant, TypeOK, ClaimRow, LockOwnRow
  <2>3. UNCHANGED <<status, lease, checkpoint, waits, signalVars, crashes>>
    BY DEF ClaimRow, LockOwnRow
  <2>4. QED
    BY <2>1, <2>2, <2>3 DEF InductiveInvariant, TypeOK, signalVars
<1>2. RowsKept /\ SleeperCanWake'
  BY DEF InductiveInvariant, RowsKept, WaitIds, SleeperCanWake, Pending, ClaimRow, LockOwnRow
<1>3. /\ \A v \in Workers \ {w} : pc'[v] = pc[v] /\ mine'[v] = mine[v]
      /\ mine'[w] \in Execs /\ Free(w, <<"execution", mine'[w]>>)
      /\ UNCHANGED <<signalVars, waits>>
  BY DEF InductiveInvariant, TypeOK, CallsWellFormed, ClaimRow, LockOwnRow
<1>4. QED
  BY <1>1, <1>2, <1>3, WorkerStepInvariant

\* A claim satisfies waits of its own execution, whose row no signal_wait() call
\* holds while the claim does: it touches no waits row such a call has visited.
LEMMA ClaimTouchesNoVisitedWait ==
    ASSUME InductiveInvariant, NEW w \in Workers, pc[w] = "claiming",
           NEW s \in Signallers, NEW i \in visited[s]
    PROVE  i \notin Due(mine[w])
<1> SUFFICES ASSUME waits[i].exec = mine[w] PROVE FALSE
  BY DEF Due, Pending
<1>1. <<"execution", mine[w]>> \in RowsOf(w)
  BY WorkerHolds
<1>2. <<"execution", mine[w]>> \in RowsOf(s)
  BY SignalHolds
<1>3. w # s
  BY ConstantsAssumption
<1>4. QED
  BY <1>1, <1>2, <1>3 DEF InductiveInvariant, LocksExclusive

\* The claim commits: its execution wakes, and nobody else's waits change.
LEMMA ClaimCommitInvariant ==
    ASSUME InductiveInvariant, NEW w \in Workers, ClaimCommit(w)
    PROVE  InductiveInvariant'
<1> DEFINE e == mine[w]
<1>1. /\ pc[w] = "claiming" /\ e \in Execs
      /\ waits' = [i \in WaitIds |-> [waits[i] EXCEPT !.satisfied = @ \/ i \in Due(e)]]
      /\ status' = [status EXCEPT ![e] = "running"]
      /\ lease' = [lease EXCEPT ![e] = left[w]]
      /\ pc' = [pc EXCEPT ![w] = "working"]
      /\ UNCHANGED <<checkpoint, mine, left, signalVars, crashes>>
  BY DEF ClaimCommit, InductiveInvariant, CallsWellFormed
<1> HIDE DEF e
<1>2. TypeOK /\ \A i \in WaitIds : waits[i] \in Wait
  BY WaitRows DEF InductiveInvariant
<1>3. waits' \in [WaitIds -> Wait] /\ \A i \in WaitIds : waits'[i].exec = waits[i].exec
  BY <1>1, <1>2 DEF Wait
<1>4. waits' \in Seq(Wait) /\ RowsKept
  BY <1>2, <1>3, RewrittenRows
<1>5. TypeOK'
  BY <1>1, <1>2, <1>4 DEF TypeOK, Statuses, signalVars
<1>6. \A i \in WaitIds : i \notin Due(e) => waits'[i].satisfied = waits[i].satisfied
  BY <1>1, <1>2 DEF Wait
<1>7. \A s \in Signallers : \A i \in visited[s] : waits'[i].satisfied = waits[i].satisfied
  BY <1>1, <1>6, ClaimTouchesNoVisitedWait DEF InductiveInvariant, CallsWellFormed, e
<1>8. SleeperCanWake'
  <2>1. \A d \in Execs : status'[d] = "waiting" => status[d] = "waiting" /\ d # e
    BY <1>1, <1>2 DEF TypeOK
  <2>2. \A d \in Execs \ {e} : \A i \in Pending(d) : i \in WaitIds /\ i \notin Due(e)
    BY DEF Pending, Due
  <2>3. QED
    BY <1>2, <1>4, <1>6, <2>1, <2>2, SleepersKept DEF InductiveInvariant
<1>9. /\ \A v \in Workers \ {w} : pc'[v] = pc[v] /\ mine'[v] = mine[v]
      /\ pc'[w] = "working" /\ mine'[w] \in Execs
  BY <1>1, <1>2 DEF TypeOK, e
<1>10. QED
  BY <1>1, <1>4, <1>5, <1>7, <1>8, <1>9, WorkerStepInvariant

\* Completing an execution or losing its worker changes no wait.
LEMMA LeaveInvariant ==
    ASSUME InductiveInvariant, NEW w \in Workers, Complete(w) \/ Crash(w)
    PROVE  InductiveInvariant'
<1>1. /\ UNCHANGED <<waits, signalVars>>
      /\ \A v \in Workers \ {w} : pc'[v] = pc[v] /\ mine'[v] = mine[v]
      /\ pc'[w] = "idle"
      /\ \A e \in Execs : status'[e] = "waiting" => status[e] = "waiting"
  BY DEF Complete, Crash, Leave, InductiveInvariant, TypeOK
<1>2. TypeOK'
  <2>1. CASE Complete(w)
    BY <2>1, ConstantsAssumption
       DEF InductiveInvariant, TypeOK, Statuses, CallsWellFormed, Complete, Leave, signalVars
  <2>2. CASE Crash(w)
    BY <2>2, ConstantsAssumption DEF InductiveInvariant, TypeOK, Crash, Leave, signalVars
  <2>3. QED
    BY <2>1, <2>2
<1>3. RowsKept
  BY <1>1 DEF RowsKept, WaitIds
<1>4. SleeperCanWake'
  BY <1>1, <1>3, SleepersKept DEF InductiveInvariant
<1>5. QED
  BY <1>1, <1>2, <1>3, <1>4, WorkerStepInvariant

\* An execution that goes to sleep does so with a new wait of its own.
LEMMA WaitForInvariant ==
    ASSUME InductiveInvariant, NEW w \in Workers, NEW key \in Keys \union {NoKey},
           NEW timer \in 0 .. NoTimer, WaitFor(w, key, timer)
    PROVE  InductiveInvariant'
<1> DEFINE e == mine[w]
           row == [exec |-> e, key |-> key, timer |-> timer, satisfied |-> FALSE]
           n == Len(waits) + 1
<1>1. /\ pc[w] = "leaving" /\ e \in Execs
      /\ waits' = Append(waits, row)
      /\ status' = [status EXCEPT ![e] = "waiting"]
      /\ Leave(w)
      /\ UNCHANGED <<lease, checkpoint, signalVars, crashes>>
  BY DEF WaitFor, InductiveInvariant, CallsWellFormed
<1>2. TypeOK /\ row \in Wait
  BY <1>1 DEF InductiveInvariant, Wait
<1> HIDE DEF e, row
<1>3. /\ waits' \in Seq(Wait) /\ Len(waits') = n /\ Len(waits) \in Nat
      /\ \A i \in 1 .. Len(waits) : waits'[i] = waits[i]
      /\ waits'[n] = row
  BY <1>1, <1>2, AppendProperties, LenProperties DEF TypeOK
<1>4. WaitIds = 1 .. Len(waits) /\ WaitIds' = 1 .. n
  BY <1>3, <1>2, LenProperties DEF WaitIds, TypeOK
<1>5. RowsKept /\ n \in WaitIds' /\ \A i \in WaitIds : waits'[i] = waits[i]
  BY <1>3, <1>4 DEF RowsKept
<1>6. TypeOK'
  BY <1>1, <1>2, <1>3, ConstantsAssumption DEF TypeOK, Statuses, Leave, signalVars
<1>7. SleeperCanWake'
  <2> SUFFICES ASSUME NEW d \in Execs, status'[d] = "waiting" PROVE (Pending(d))' # {}
    BY DEF SleeperCanWake
  <2>1. CASE d = e
    <3>1. waits'[n].exec = d /\ ~waits'[n].satisfied
      BY <1>3, <2>1 DEF row
    <3>2. QED
      BY <1>5, <3>1 DEF Pending
  <2>2. CASE d # e
    <3>1. status[d] = "waiting"
      BY <1>1, <1>2, <2>2 DEF TypeOK
    <3>2. PICK i \in WaitIds : waits[i].exec = d /\ ~waits[i].satisfied
      BY <3>1 DEF InductiveInvariant, SleeperCanWake, Pending
    <3>3. i \in WaitIds' /\ waits'[i] = waits[i]
      BY <1>5 DEF RowsKept
    <3>4. QED
      BY <3>2, <3>3 DEF Pending
  <2>3. QED
    BY <2>1, <2>2
<1>8. /\ \A v \in Workers \ {w} : pc'[v] = pc[v] /\ mine'[v] = mine[v]
      /\ pc'[w] = "idle"
  BY <1>1, <1>2 DEF TypeOK, Leave
<1>9. \A s \in Signallers : \A i \in visited[s] : waits'[i].satisfied = waits[i].satisfied
  BY <1>5 DEF InductiveInvariant, CallsWellFormed
<1>10. QED
  BY <1>1, <1>5, <1>6, <1>7, <1>8, <1>9, WorkerStepInvariant

\* A signaller's step preserves the invariant if it takes no row another holds, and
\* satisfies no wait whose row another call holds.
LEMMA SignalStepInvariant ==
    ASSUME InductiveInvariant, NEW s \in Signallers, UNCHANGED <<pc, mine>>,
           TypeOK', RowsKept, SleeperCanWake',
           \A t \in Signallers \ {s} :
              /\ found'[t] = found[t] /\ visited'[t] = visited[t]
              /\ woken'[t] = woken[t] /\ cur'[t] = cur[t]
              /\ \A i \in visited[t] : waits'[i].satisfied = waits[i].satisfied,
           found'[s] \subseteq WaitIds /\ visited'[s] \subseteq found'[s],
           woken'[s] \subseteq visited'[s],
           cur'[s] # NoWait => cur'[s] \in found'[s] \ visited'[s],
           \A row \in (RowsOf(s))' : row \in RowsOf(s) \/ Free(s, row),
           \A i \in visited'[s] : waits'[i].satisfied <=> i \notin woken'[s]
    PROVE  InductiveInvariant'
<1> USE DEF InductiveInvariant
<1>1. CallsWellFormed'
  <2>1. WaitIds \subseteq WaitIds'
    BY DEF RowsKept
  <2>2. \A t \in Signallers : found'[t] \subseteq WaitIds'
    BY <2>1 DEF CallsWellFormed
  <2>3. \A t \in Signallers : /\ visited'[t] \subseteq found'[t] /\ woken'[t] \subseteq visited'[t]
                              /\ cur'[t] # NoWait => cur'[t] \in found'[t] \ visited'[t]
    BY DEF CallsWellFormed
  <2>4. QED
    BY <2>2, <2>3 DEF CallsWellFormed
<1>2. LocksExclusive'
  <2>1. \A u \in (Workers \union Signallers) \ {s} : (RowsOf(u))' \subseteq RowsOf(u)
    BY RowsOfOthersKept
  <2>2. QED
    BY <2>1, LocksStayExclusive
<1>3. VisitedJudged'
  BY DEF VisitedJudged
<1>4. QED
  BY <1>1, <1>2, <1>3

\* A call scans, or takes the row of a candidate's execution.
LEMMA SignalLockInvariant ==
    ASSUME InductiveInvariant, NEW s \in Signallers,
           (\E key \in Keys : SignalScan(s, key)) \/ (\E i \in found[s] : SignalLock(s, i))
    PROVE  InductiveInvariant'
<1>1. TypeOK /\ \A i \in WaitIds : i \in Nat /\ i # NoWait
  BY WaitRows DEF InductiveInvariant
<1>2. UNCHANGED <<status, waits, pc, mine>> /\ RowsKept /\ SleeperCanWake'
  BY DEF InductiveInvariant, RowsKept, WaitIds, SleeperCanWake, Pending, SignalScan,
         SignalLock, workerVars
<1>3. ASSUME NEW key \in Keys, SignalScan(s, key) PROVE InductiveInvariant'
  <2>1. /\ found[s] = {} /\ found' = [found EXCEPT ![s] = found'[s]]
        /\ found'[s] \subseteq WaitIds
        /\ UNCHANGED <<visited, woken, cur>>
    BY <1>1, <1>3 DEF SignalScan, TypeOK
  <2>2. visited[s] = {} /\ woken[s] = {} /\ cur[s] = NoWait
    BY <2>1 DEF InductiveInvariant, CallsWellFormed
  <2>3. TypeOK'
    BY <1>1, <1>3, <2>1 DEF TypeOK, SignalScan, workerVars
  <2>4. \A row \in (RowsOf(s))' : row \in RowsOf(s)
    BY <2>1, <2>2, SignalHolds
  <2>5. \A t \in Signallers \ {s} : found'[t] = found[t]
    BY <1>1, <2>1 DEF TypeOK
  <2>6. QED
    BY <1>2, <2>1, <2>2, <2>3, <2>4, <2>5, SignalStepInvariant
<1>4. ASSUME NEW i \in found[s], SignalLock(s, i) PROVE InductiveInvariant'
  <2>1. /\ i \notin visited[s] /\ cur' = [cur EXCEPT ![s] = i] /\ cur[s] = NoWait
        /\ UNCHANGED <<found, visited, woken>>
        /\ Free(s, LockOrder(i)[1])
    BY <1>4 DEF SignalLock
  <2>2. i \in WaitIds /\ cur'[s] = i
    BY <1>1, <2>1 DEF InductiveInvariant, CallsWellFormed, TypeOK
  <2>3. TypeOK'
    BY <1>1, <1>4, <2>1, <2>2 DEF TypeOK, SignalLock, workerVars
  <2>4. LockOrder(i)[1] = <<"execution", waits[i].exec>>
    BY DEF LockOrder
  <2>5. \A row \in (RowsOf(s))' : row \in RowsOf(s) \/ Free(s, row)
    BY <1>2, <2>1, <2>2, <2>4, SignalHolds
  <2>6. \A t \in Signallers \ {s} : cur'[t] = cur[t]
    BY <1>1, <2>1 DEF TypeOK
  <2>7. /\ visited[s] \subseteq found[s] /\ woken[s] \subseteq visited[s]
        /\ found[s] \subseteq WaitIds
        /\ \A j \in visited[s] : waits[j].satisfied <=> j \notin woken[s]
    BY DEF InductiveInvariant, CallsWellFormed, VisitedJudged
  <2>8. QED
    BY <1>2, <2>1, <2>2, <2>3, <2>5, <2>6, <2>7, SignalStepInvariant
<1>5. QED
  BY <1>3, <1>4

\* Under both of its locks the candidate's wait is judged once and for all.
LEMMA SignalSatisfyInvariant ==
    ASSUME InductiveInvariant, NEW s \in Signallers, SignalSatisfy(s)
    PROVE  InductiveInvariant'
<1> DEFINE i == cur[s]
<1>1. /\ i # NoWait /\ Free(s, LockOrder(i)[2])
      /\ visited' = [visited EXCEPT ![s] = @ \union {i}]
      /\ woken' = [woken EXCEPT ![s] = IF waits[i].satisfied THEN @ ELSE @ \union {i}]
      /\ cur' = [cur EXCEPT ![s] = NoWait]
      /\ UNCHANGED <<status, lease, checkpoint, waits, workerVars, found, crashes>>
  BY DEF SignalSatisfy
<1> HIDE DEF i
<1>2. TypeOK /\ i \in Nat
  BY DEF InductiveInvariant, TypeOK, i
<1>3. /\ visited'[s] = visited[s] \union {i} /\ cur'[s] = NoWait
      /\ woken'[s] = IF waits[i].satisfied THEN woken[s] ELSE woken[s] \union {i}
  BY <1>1, <1>2 DEF TypeOK
<1>4. TypeOK'
  BY <1>1, <1>2 DEF TypeOK, workerVars, NoWait
<1>5. RowsKept /\ SleeperCanWake'
  BY <1>1 DEF InductiveInvariant, RowsKept, WaitIds, SleeperCanWake, Pending
<1>6. \A row \in (RowsOf(s))' : row \in RowsOf(s) \/ Free(s, row)
  <2>1. LockOrder(i)[2] = <<"wait", i>>
    BY DEF LockOrder
  <2>2. <<"execution", waits[i].exec>> \in RowsOf(s)
    BY <1>1, SignalHolds DEF i
  <2>3. QED
    BY <1>1, <1>3, <2>1, <2>2, SignalHolds
<1>7. /\ i \in found[s] \ visited[s] /\ found[s] \subseteq WaitIds
      /\ visited[s] \subseteq found[s] /\ woken[s] \subseteq visited[s]
      /\ \A j \in visited[s] : waits[j].satisfied <=> j \notin woken[s]
  BY <1>1 DEF InductiveInvariant, CallsWellFormed, VisitedJudged, i
<1>8. \A j \in visited'[s] : waits'[j].satisfied <=> j \notin woken'[s]
  BY <1>1, <1>3, <1>7
<1>9. \A t \in Signallers \ {s} :
         visited'[t] = visited[t] /\ woken'[t] = woken[t] /\ cur'[t] = cur[t]
  BY <1>1, <1>2 DEF TypeOK
<1>10. /\ found' = found /\ waits' = waits /\ UNCHANGED <<pc, mine>>
       /\ visited'[s] \subseteq found'[s] /\ woken'[s] \subseteq visited'[s]
  BY <1>1, <1>3, <1>7 DEF workerVars
<1>11. QED
  BY <1>3, <1>4, <1>5, <1>6, <1>7, <1>8, <1>9, <1>10, SignalStepInvariant

\* What a call that is over leaves of its own state: nothing.
LEMMA EndedCall ==
    ASSUME TypeOK, NEW s \in Signallers, SignalEnd(s)
    PROVE  /\ found'[s] = {} /\ visited'[s] = {} /\ woken'[s] = {} /\ cur'[s] = NoWait
           /\ \A t \in Signallers \ {s} :
                /\ found'[t] = found[t] /\ visited'[t] = visited[t]
                /\ woken'[t] = woken[t] /\ cur'[t] = cur[t]
           /\ \A row : row \notin (RowsOf(s))'
           /\ found' \in [Signallers -> SUBSET Nat] /\ visited' \in [Signallers -> SUBSET Nat]
           /\ woken' \in [Signallers -> SUBSET Nat] /\ cur' \in [Signallers -> Nat]
<1>1. /\ found'[s] = {} /\ visited'[s] = {} /\ woken'[s] = {} /\ cur'[s] = NoWait
      /\ \A t \in Signallers \ {s} :
           /\ found'[t] = found[t] /\ visited'[t] = visited[t]
           /\ woken'[t] = woken[t] /\ cur'[t] = cur[t]
  BY DEF SignalEnd, TypeOK
<1>2. \A row : row \notin (RowsOf(s))'
  BY <1>1, SignalHolds
<1>3. QED
  BY <1>1, <1>2 DEF SignalEnd, TypeOK, NoWait

\* A call commits: it satisfies the waits it woke, whose rows it alone holds, and
\* whoever of their executions sleeps is queued.
LEMMA SignalCommitInvariant ==
    ASSUME InductiveInvariant, NEW s \in Signallers, SignalCommit(s)
    PROVE  InductiveInvariant'
<1>1. /\ waits' = [i \in WaitIds |-> [waits[i] EXCEPT !.satisfied = @ \/ i \in woken[s]]]
      /\ status' = [e \in Execs |-> IF e \in Promoted(s) THEN "queued" ELSE status[e]]
      /\ SignalEnd(s)
      /\ UNCHANGED <<lease, checkpoint, workerVars, crashes>>
  BY DEF SignalCommit
<1>2. TypeOK /\ \A i \in WaitIds : waits[i] \in Wait
  BY WaitRows DEF InductiveInvariant
<1>3. waits' \in [WaitIds -> Wait] /\ \A i \in WaitIds : waits'[i].exec = waits[i].exec
  BY <1>1, <1>2 DEF Wait
<1>4. waits' \in Seq(Wait) /\ RowsKept
  BY <1>2, <1>3, RewrittenRows
<1>5. TypeOK'
  BY <1>1, <1>2, <1>4, EndedCall DEF TypeOK, Statuses, workerVars
<1>6. \A i \in WaitIds : i \notin woken[s] => waits'[i].satisfied = waits[i].satisfied
  BY <1>1, <1>2 DEF Wait
<1>7. ASSUME NEW t \in Signallers \ {s}, NEW i \in visited[t]
      PROVE  waits'[i].satisfied = waits[i].satisfied
  <2>1. i \in WaitIds
    BY DEF InductiveInvariant, CallsWellFormed
  <2>2. i \notin visited[s]
    <3>1. <<"wait", i>> \in RowsOf(t)
      BY SignalHolds
    <3>2. i \in visited[s] => <<"wait", i>> \in RowsOf(s)
      BY SignalHolds
    <3>3. QED
      BY <3>1, <3>2 DEF InductiveInvariant, LocksExclusive
  <2>3. i \notin woken[s]
    BY <2>2 DEF InductiveInvariant, CallsWellFormed
  <2>4. QED
    BY <1>6, <2>1, <2>3
<1>8. SleeperCanWake'
  <2>1. ASSUME NEW e \in Execs, status'[e] = "waiting"
        PROVE  /\ status[e] = "waiting"
               /\ \A i \in Pending(e) : waits'[i].satisfied = waits[i].satisfied
    <3>1. status[e] = "waiting" /\ e \notin Promoted(s)
      BY <1>1, <2>1
    <3>2. \A i \in woken[s] : waits[i].exec # e
      BY <3>1 DEF Promoted
    <3>3. QED
      BY <1>6, <3>1, <3>2 DEF Pending
  <2>2. QED
    BY <1>2, <1>4, <2>1, SleepersKept DEF InductiveInvariant
<1>9. UNCHANGED <<pc, mine>>
  BY <1>1 DEF workerVars
<1>10. QED
  BY <1>1, <1>2, <1>4, <1>5, <1>7, <1>8, <1>9, EndedCall, SignalStepInvariant

\* A call that PostgreSQL aborts leaves the tables as they were.
LEMMA SignalVictimInvariant ==
    ASSUME InductiveInvariant, NEW s \in Signallers, SignalVictim(s)
    PROVE  InductiveInvariant'
<1>1. SignalEnd(s) /\ UNCHANGED <<status, lease, checkpoint, waits, workerVars, crashes>>
  BY DEF SignalVictim
<1>2. TypeOK
  BY DEF InductiveInvariant
<1>3. TypeOK'
  BY <1>1, <1>2, EndedCall DEF TypeOK, workerVars
<1>4. RowsKept /\ SleeperCanWake'
  BY <1>1 DEF InductiveInvariant, RowsKept, WaitIds, SleeperCanWake, Pending
<1>5. UNCHANGED <<pc, mine, waits>>
  BY <1>1 DEF workerVars
<1>6. QED
  BY <1>1, <1>2, <1>3, <1>4, <1>5, EndedCall, SignalStepInvariant

\* Enqueueing an execution and the passing of time take no lock and wake nobody.
LEMMA QuietInvariant ==
    ASSUME InductiveInvariant, Tick \/ \E e \in Execs : Enqueue(e)
    PROVE  InductiveInvariant'
<1>1. /\ UNCHANGED <<pc, mine, signalVars>>
      /\ \A e \in Execs : status'[e] = "waiting" => status[e] = "waiting"
  BY DEF Tick, Enqueue, workerVars, InductiveInvariant, TypeOK
<1>2. TypeOK /\ \A i \in WaitIds : waits[i] \in Wait
  BY WaitRows DEF InductiveInvariant
<1>3. \A n \in Nat : Earlier(n) \in 0 .. n
  BY DEF Earlier
<1>4. waits' \in Seq(Wait) /\ WaitIds' = WaitIds /\ RowsKept
      /\ \A i \in WaitIds : waits'[i].satisfied = waits[i].satisfied
  <2>1. CASE Tick
    <3>1. waits' = [i \in WaitIds |->
                      [waits[i] EXCEPT !.timer = IF @ = NoTimer THEN @ ELSE Earlier(@)]]
      BY <2>1 DEF Tick
    <3>2. NoTimer \in Nat
      BY ConstantsAssumption DEF NoTimer
    <3>3. \A i \in WaitIds : /\ waits'[i] \in Wait /\ waits'[i].exec = waits[i].exec
                             /\ waits'[i].satisfied = waits[i].satisfied
      BY <1>2, <1>3, <3>1, <3>2 DEF Wait
    <3>4. waits' \in [WaitIds -> Wait]
      BY <3>1, <3>3
    <3>5. QED
      BY <1>2, <3>3, <3>4, RewrittenRows
  <2>2. CASE \E e \in Execs : Enqueue(e)
    BY <1>2, <2>2 DEF Enqueue, TypeOK, RowsKept, WaitIds
  <2>3. QED
    BY <2>1, <2>2
<1>5. TypeOK'
  <2>1. CASE Tick
    BY <1>2, <1>3, <1>4, <2>1 DEF Tick, TypeOK, signalVars
  <2>2. CASE \E e \in Execs : Enqueue(e)
    BY <1>2, <2>2 DEF Enqueue, TypeOK, Statuses, workerVars, signalVars
  <2>3. QED
    BY <2>1, <2>2
<1>6. SleeperCanWake'
  <2>1. \A e \in Execs : \A i \in Pending(e) : i \in WaitIds
    BY DEF Pending
  <2>2. QED
    BY <1>1, <1>2, <1>4, <2>1, SleepersKept DEF InductiveInvariant
<1>7. CallsWellFormed'
  BY <1>1, <1>4 DEF InductiveInvariant, CallsWellFormed, signalVars
<1>8. LocksExclusive'
  <2>1. \A u \in Workers \union Signallers : (RowsOf(u))' \subseteq RowsOf(u)
    BY <1>1, <1>2, <1>4, RowsOfOthersKept DEF InductiveInvariant, signalVars
  <2>2. QED
    BY <2>1 DEF InductiveInvariant, LocksExclusive
<1>9. VisitedJudged'
  BY <1>1, <1>4 DEF InductiveInvariant, CallsWellFormed, VisitedJudged, signalVars
<1>10. QED
  BY <1>5, <1>6, <1>7, <1>8, <1>9 DEF InductiveInvariant

\* Initially nothing is enqueued and nobody is at work.
LEMMA InitInvariant == Init => InductiveInvariant
<1> SUFFICES ASSUME Init PROVE InductiveInvariant
  OBVIOUS
<1>1. TypeOK
  BY ConstantsAssumption DEF Init, TypeOK, Statuses, NoWait
<1>2. CallsWellFormed /\ VisitedJudged /\ SleeperCanWake
  BY DEF Init, CallsWellFormed, VisitedJudged, SleeperCanWake
<1>3. LocksExclusive
  <2>1. \A w \in Workers : \A row : row \notin RowsOf(w)
    BY WorkerHolds DEF Init
  <2>2. \A s \in Signallers : \A row : row \notin RowsOf(s)
    BY SignalHolds DEF Init
  <2>3. QED
    BY <2>1, <2>2 DEF LocksExclusive
<1>4. QED
  BY <1>1, <1>2, <1>3 DEF InductiveInvariant

\* Every step preserves the invariant.
LEMMA StepInvariant == InductiveInvariant /\ [Next]_vars => InductiveInvariant'
<1> SUFFICES ASSUME InductiveInvariant, [Next]_vars PROVE InductiveInvariant'
  OBVIOUS
<1>1. ASSUME NEW w \in Workers, Work(w) \/ Crash(w) PROVE InductiveInvariant'
  BY <1>1, LockInvariant, ClaimCommitInvariant, LeaveInvariant, WaitForInvariant DEF Work
<1>2. ASSUME NEW s \in Signallers,
             (\E key \in Keys : SignalScan(s, key)) \/ SignalStep(s) \/ SignalVictim(s)
      PROVE  InductiveInvariant'
  BY <1>2, SignalLockInvariant, SignalSatisfyInvariant, SignalCommitInvariant,
     SignalVictimInvariant DEF SignalStep
<1>3. CASE UNCHANGED vars
  <2>1. UNCHANGED <<status, lease, checkpoint, waits, pc, mine, left, signalVars, crashes>>
    BY <1>3 DEF vars, workerVars
  <2>2. TypeOK' /\ CallsWellFormed' /\ VisitedJudged' /\ SleeperCanWake'
    BY <2>1
       DEF InductiveInvariant, TypeOK, CallsWellFormed, VisitedJudged, SleeperCanWake,
           WaitIds, Pending, signalVars
  <2>3. LocksExclusive'
    <3>1. RowsKept /\ UNCHANGED <<visited, cur>>
      BY <2>1 DEF RowsKept, WaitIds, signalVars
    <3>2. \A u \in Workers \union Signallers : (RowsOf(u))' \subseteq RowsOf(u)
      BY <2>1, <3>1, RowsOfOthersKept DEF InductiveInvariant
    <3>3. QED
      BY <3>2 DEF InductiveInvariant, LocksExclusive
  <2>4. QED
    BY <2>2, <2>3 DEF InductiveInvariant
<1>4. QED
  BY <1>1, <1>2, <1>3, QuietInvariant DEF Next

\* What every state satisfies: locks are exclusive, a call in progress has judged
\* what it visited, and who sleeps has a wait.
THEOREM InvariantHolds == Spec => []InductiveInvariant
<1>1. QED
  BY InitInvariant, StepInvariant, PTL DEF Spec

\* No wakeup is lost: an execution asleep always has a pending wait.
THEOREM SleeperCanWakeHolds == Spec => []SleeperCanWake
<1>1. InductiveInvariant => SleeperCanWake
  BY DEF InductiveInvariant
<1>2. QED
  BY <1>1, InvariantHolds, PTL

\* claim_execution() finds every waits row it is to update free: whoever held one
\* would hold the execution's row, which the claim holds.
THEOREM ClaimNeverBlockedHolds == Spec => []ClaimNeverBlocked
<1>1. InductiveInvariant => ClaimNeverBlocked
  <2> SUFFICES ASSUME InductiveInvariant, NEW w \in Workers, pc[w] = "claiming",
                      NEW i \in Due(mine[w]),
                      NEW u \in (Workers \union Signallers) \ {w}, <<"wait", i>> \in RowsOf(u)
               PROVE  FALSE
    BY DEF ClaimNeverBlocked, Free
  <2>1. u \notin Workers
    BY WorkerHolds
  <2>2. i \in visited[u]
    BY <2>1, SignalHolds
  <2>3. QED
    BY <2>1, <2>2, ClaimTouchesNoVisitedWait
<1>2. QED
  BY <1>1, InvariantHolds, PTL

\* A signal delivers each wakeup once: a call that commits has judged every wait its
\* scan found, and wakes those that nobody satisfied before (schema.sql:222-240).
THEOREM BroadcastDeliversOnceHolds == Spec => BroadcastDeliversOnce
<1>1. ASSUME InductiveInvariant, NEW s \in Signallers, SignalCommit(s)
      PROVE  /\ \A i \in found[s] : waits'[i].satisfied
             /\ \A i \in woken[s] : ~waits[i].satisfied
  <2>1. /\ visited[s] = found[s] /\ found[s] \subseteq WaitIds /\ woken[s] \subseteq visited[s]
        /\ waits' = [i \in WaitIds |-> [waits[i] EXCEPT !.satisfied = @ \/ i \in woken[s]]]
    BY <1>1 DEF SignalCommit, InductiveInvariant, CallsWellFormed
  <2>2. \A i \in WaitIds : waits[i] \in Wait
    BY <1>1, WaitRows DEF InductiveInvariant
  <2>3. \A i \in visited[s] : waits[i].satisfied <=> i \notin woken[s]
    BY <1>1 DEF InductiveInvariant, VisitedJudged
  <2>4. \A i \in WaitIds : waits'[i].satisfied <=> waits[i].satisfied \/ i \in woken[s]
    BY <2>1, <2>2 DEF Wait
  <2>5. QED
    BY <2>1, <2>3, <2>4
<1>2. InductiveInvariant =>
        [\A s \in Signallers : SignalCommit(s) =>
           /\ \A i \in found[s] : waits'[i].satisfied
           /\ \A i \in woken[s] : ~waits[i].satisfied]_vars
  BY <1>1
<1>3. QED
  BY <1>2, InvariantHolds, PTL DEF BroadcastDeliversOnce

\* Whom a step concerns: a client that claims, leaves or is lost changes no other's
\* place.
Elsewhere(w) ==
    \A v \in Workers \ {w} : pc'[v] = pc[v] /\ mine'[v] = mine[v] /\ left'[v] = left[v]

\* An execution nobody has taken late: what the history says of it.
Covered(e) ==
    /\ \A v, w \in Workers : AtWork(v, e) /\ AtWork(w, e) => v = w
    /\ e \in checkpoint => status[e] = "done" /\ \A w \in Workers : ~AtWork(w, e)
    /\ \A w \in Workers :
         /\ AtWork(w, e) => status[e] = "running"
         /\ pc[w] = "working" /\ mine[w] = e => left[w] <= lease[e]
         /\ pc[w] = "claiming" /\ mine[w] = e =>
              status[e] # "done" /\ \A v \in Workers : ~AtWork(v, e)

LEMMA HistoryByExecution ==
    HistoryInvariant <=> late \subseteq Execs /\ \A e \in Execs \ late : Covered(e)
BY DEF HistoryInvariant, AloneUnlessLate, LeaseCoversWork, Covered

\* Who holds an execution's row has no rival that claims or leaves it.
LEMMA HolderIsAlone ==
    ASSUME InductiveInvariant, NEW v \in Workers, NEW w \in Workers, v # w,
           pc[v] \in {"claiming", "leaving"}, pc[w] \in {"claiming", "leaving"}
    PROVE  mine[v] # mine[w]
<1>1. RowsOf(v) = {<<"execution", mine[v]>>} /\ RowsOf(w) = {<<"execution", mine[w]>>}
  BY WorkerHolds
<1>2. RowsOf(v) \intersect RowsOf(w) = {}
  BY DEF InductiveInvariant, LocksExclusive
<1>3. QED
  BY <1>1, <1>2

\* A claim takes no execution somebody is at work on, and none that is done.
LEMMA ClaimRowCovered ==
    ASSUME InductiveInvariant, NEW w \in Workers, ClaimRow(w), NEW e \in Execs, Covered(e)
    PROVE  Covered(e)'
<1>1. /\ pc[w] = "idle" /\ mine'[w] \in Execs
      /\ Claimable(mine'[w]) /\ Free(w, <<"execution", mine'[w]>>)
      /\ pc'[w] = "claiming" /\ Elsewhere(w)
      /\ UNCHANGED <<status, lease, checkpoint>>
  BY DEF ClaimRow, Elsewhere, InductiveInvariant, TypeOK
<1>2. \A v \in Workers : AtWork(v, e)' <=> v # w /\ AtWork(v, e)
  BY <1>1 DEF AtWork, Elsewhere
<1>3. ASSUME mine'[w] = e, NEW v \in Workers, AtWork(v, e) PROVE FALSE
  <2>1. pc[v] # "leaving"
    <3>1. v # w /\ <<"execution", e>> \notin RowsOf(v)
      BY <1>1, <1>3 DEF Free, AtWork
    <3>2. QED
      BY <1>3, <3>1, WorkerHolds DEF AtWork
  <2>2. pc[v] = "working" /\ mine[v] = e /\ left[v] > 0 /\ status[e] = "running"
    BY <1>3, <2>1 DEF AtWork, Covered
  <2>3. left[v] <= lease[e] /\ left[v] \in Nat /\ lease[e] \in Nat
    BY <2>2 DEF Covered, InductiveInvariant, TypeOK
  <2>4. lease[e] = 0
    BY <1>1, <1>3, <2>2 DEF Claimable
  <2>5. QED
    BY <2>2, <2>3, <2>4
<1>4. mine'[w] = e => status[e] # "done"
  BY <1>1 DEF Claimable
<1>5. \A v \in Workers : pc'[v] = "working" => v # w /\ pc[v] = "working"
  BY <1>1 DEF Elsewhere
<1>6. QED
  BY <1>1, <1>2, <1>3, <1>4, <1>5 DEF Covered, Elsewhere

\* The lease a claim commits covers the one its client goes by.
LEMMA ClaimCommitCovered ==
    ASSUME InductiveInvariant, NEW w \in Workers, ClaimCommit(w), NEW e \in Execs, Covered(e)
    PROVE  Covered(e)'
<1>1. /\ pc[w] = "claiming" /\ pc'[w] = "working" /\ Elsewhere(w)
      /\ mine'[w] = mine[w] /\ left'[w] = left[w]
      /\ status' = [status EXCEPT ![mine[w]] = "running"]
      /\ lease' = [lease EXCEPT ![mine[w]] = left[w]]
      /\ checkpoint' = checkpoint
  BY DEF ClaimCommit, Elsewhere, InductiveInvariant, TypeOK
<1>2. TypeOK /\ left[w] \in Nat
  BY DEF InductiveInvariant, TypeOK
<1>3. CASE mine[w] # e
  <2>1. status'[e] = status[e] /\ lease'[e] = lease[e]
    BY <1>1, <1>2, <1>3 DEF TypeOK
  <2>2. \A v \in Workers : AtWork(v, e)' <=> AtWork(v, e)
    BY <1>1, <1>3 DEF AtWork, Elsewhere
  <2>3. QED
    BY <1>1, <1>3, <2>1, <2>2 DEF Covered, Elsewhere
<1>4. CASE mine[w] = e
  <2>1. status'[e] = "running" /\ lease'[e] = left[w]
    BY <1>1, <1>2, <1>4 DEF TypeOK
  <2>2. status[e] # "done" /\ \A v \in Workers : ~AtWork(v, e)
    BY <1>1, <1>4 DEF Covered
  <2>3. e \notin checkpoint
    BY <2>2 DEF Covered
  <2>4. \A v \in Workers \ {w} : ~AtWork(v, e)'
    BY <1>1, <2>2 DEF AtWork, Elsewhere
  <2>5. ASSUME NEW v \in Workers \ {w}, pc'[v] = "working", mine'[v] = e
        PROVE  left'[v] <= lease'[e]
    <3>1. left[v] \in Nat /\ left'[v] = left[v] /\ ~(left[v] > 0)
      BY <1>1, <1>2, <2>2, <2>5 DEF AtWork, Elsewhere, TypeOK
    <3>2. QED
      BY <1>2, <2>1, <3>1
  <2>6. \A v \in Workers : ~(pc'[v] = "claiming" /\ mine'[v] = e)
    <3>1. \A v \in Workers \ {w} : pc[v] = "claiming" => mine[v] # e
      BY <1>1, <1>4, HolderIsAlone
    <3>2. QED
      BY <1>1, <3>1 DEF Elsewhere
  <2>7. left'[w] <= lease'[e]
    BY <1>1, <1>2, <2>1
  <2>8. QED
    BY <1>1, <2>1, <2>3, <2>4, <2>5, <2>6, <2>7 DEF Covered
<1>5. QED
  BY <1>3, <1>4

\* Who takes its row in time was at work before.
LEMMA LockOwnRowCovered ==
    ASSUME InductiveInvariant, NEW w \in Workers, LockOwnRow(w), NEW e \in Execs, Covered(e),
           mine[w] = e => left[w] # 0
    PROVE  Covered(e)'
<1>1. /\ pc[w] = "working" /\ pc'[w] = "leaving" /\ Elsewhere(w)
      /\ UNCHANGED <<status, lease, checkpoint, mine, left>>
  BY DEF LockOwnRow, Elsewhere, InductiveInvariant, TypeOK
<1>2. left[w] \in Nat
  BY DEF InductiveInvariant, TypeOK
<1>3. \A v \in Workers : AtWork(v, e)' <=> AtWork(v, e)
  BY <1>1, <1>2 DEF AtWork, Elsewhere
<1>4. \A v \in Workers : pc'[v] = pc[v] \/ (v = w /\ pc'[v] = "leaving")
  BY <1>1 DEF Elsewhere
<1>5. QED
  BY <1>1, <1>3, <1>4 DEF Covered

\* Who leaves an execution leaves nobody at work on it.
LEMMA LeaveCovered ==
    ASSUME InductiveInvariant, NEW w \in Workers, NEW e \in Execs, Covered(e), Leave(w),
           lease' = lease,
           \/ UNCHANGED <<status, checkpoint>>
           \/ /\ pc[w] = "leaving"
              /\ \/ status' = [status EXCEPT ![mine[w]] = "done"]
                    /\ checkpoint' = checkpoint \union {mine[w]}
                 \/ status' = [status EXCEPT ![mine[w]] = "waiting"]
                    /\ checkpoint' = checkpoint
    PROVE  Covered(e)'
<1>1. pc'[w] = "idle" /\ mine'[w] = NoExec /\ Elsewhere(w)
  BY DEF Leave, Elsewhere, InductiveInvariant, TypeOK
<1>2. \A v \in Workers : AtWork(v, e)' <=> v # w /\ AtWork(v, e)
  BY <1>1 DEF AtWork, Elsewhere
<1>3. \A v \in Workers : pc'[v] \in {"working", "claiming"} =>
        v # w /\ pc'[v] = pc[v] /\ mine'[v] = mine[v] /\ left'[v] = left[v]
  BY <1>1 DEF Elsewhere
<1>4. CASE status'[e] = status[e] /\ (e \in checkpoint' <=> e \in checkpoint)
  BY <1>2, <1>3, <1>4 DEF Covered
<1>5. CASE pc[w] = "leaving" /\ mine[w] = e
  <2>1. AtWork(w, e)
    BY <1>5 DEF AtWork
  <2>2. \A v \in Workers : ~AtWork(v, e)'
    BY <1>2, <2>1 DEF Covered
  <2>3. \A v \in Workers : ~(pc'[v] = "claiming" /\ mine'[v] = e)
    BY <1>3, <1>5, HolderIsAlone
  <2>4. e \notin checkpoint
    BY <2>1 DEF Covered
  <2>5. e \in checkpoint' => status'[e] = "done"
    BY <1>5, <2>4 DEF InductiveInvariant, TypeOK
  <2>6. QED
    BY <1>3, <2>2, <2>3, <2>5 DEF Covered
<1>6. QED
  <2>1. mine[w] # e => status'[e] = status[e] /\ (e \in checkpoint' <=> e \in checkpoint)
    BY DEF InductiveInvariant, TypeOK
  <2>2. QED
    BY <1>4, <1>5, <2>1

\* Who enqueues, signals or lets time pass finishes nothing and starts nothing.
LEMMA QuietCovered ==
    ASSUME InductiveInvariant, NEW e \in Execs, Covered(e), UNCHANGED <<checkpoint, pc, mine>>,
           Tick \/ UNCHANGED <<lease, left>>,
           status[e] \in {"running", "done"} \/ status'[e] = "done" => status'[e] = status[e]
    PROVE  Covered(e)'
<1>1. \A v \in Workers : left[v] \in Nat /\ lease[e] \in Nat
  BY DEF InductiveInvariant, TypeOK
<1>2. \A m, n \in Nat : (Earlier(m) > 0 => m > 0) /\ (m <= n => Earlier(m) <= Earlier(n))
  BY DEF Earlier
<1>3. /\ \A v \in Workers : left'[v] > 0 => left[v] > 0
      /\ \A v \in Workers : left[v] <= lease[e] => left'[v] <= lease'[e]
  <2>1. CASE UNCHANGED <<lease, left>>
    BY <2>1
  <2>2. CASE Tick
    <3>1. lease'[e] = Earlier(lease[e]) /\ \A v \in Workers : left'[v] = Earlier(left[v])
      BY <2>2 DEF Tick
    <3>2. QED
      BY <1>1, <1>2, <3>1
  <2>3. QED
    BY <2>1, <2>2
<1>4. \A v \in Workers : AtWork(v, e)' => AtWork(v, e)
  BY <1>3 DEF AtWork
<1>5. QED
  BY <1>3, <1>4 DEF Covered

\* Every step leaves an execution covered unless a client takes it late.
LEMMA StepCovered ==
    ASSUME InductiveInvariant, [Next]_vars, NEW e \in Execs, Covered(e), e \notin TakenLate
    PROVE  Covered(e)'
<1>1. ASSUME NEW w \in Workers, Work(w) \/ Crash(w) PROVE Covered(e)'
  <2>1. CASE LockOwnRow(w)
    <3>1. pc[w] = "working" /\ pc'[w] = "leaving"
      BY <2>1 DEF LockOwnRow, InductiveInvariant, TypeOK
    <3>2. mine[w] = e => left[w] # 0
      BY <3>1 DEF TakenLate
    <3>3. QED
      BY <2>1, <3>2, LockOwnRowCovered
  <2>2. CASE Complete(w)
    BY <2>2, LeaveCovered DEF Complete
  <2>3. CASE \E key \in Keys \union {NoKey}, timer \in 0 .. NoTimer : WaitFor(w, key, timer)
    BY <2>3, LeaveCovered DEF WaitFor
  <2>4. CASE Crash(w)
    BY <2>4, LeaveCovered DEF Crash
  <2>5. QED
    BY <1>1, <2>1, <2>2, <2>3, <2>4, ClaimRowCovered, ClaimCommitCovered DEF Work
<1>2. ASSUME NEW s \in Signallers,
             (\E key \in Keys : SignalScan(s, key)) \/ SignalStep(s) \/ SignalVictim(s)
      PROVE  Covered(e)'
  <2>1. UNCHANGED <<checkpoint, pc, mine, lease, left>>
    BY <1>2 DEF SignalScan, SignalStep, SignalLock, SignalSatisfy, SignalCommit, SignalVictim,
                workerVars
  <2>2. status[e] \in {"running", "done"} \/ status'[e] = "done" => status'[e] = status[e]
    BY <1>2 DEF SignalScan, SignalStep, SignalLock, SignalSatisfy, SignalCommit, SignalVictim,
                Promoted
  <2>3. QED
    BY <2>1, <2>2, QuietCovered
<1>3. CASE \E d \in Execs : Enqueue(d)
  <2>1. UNCHANGED <<checkpoint, pc, mine, lease, left>>
    BY <1>3 DEF Enqueue, workerVars
  <2>2. status[e] \in {"running", "done"} \/ status'[e] = "done" => status'[e] = status[e]
    BY <1>3 DEF Enqueue, InductiveInvariant, TypeOK
  <2>3. QED
    BY <2>1, <2>2, QuietCovered
<1>4. CASE Tick
  BY <1>4, QuietCovered DEF Tick
<1>5. CASE UNCHANGED vars
  BY <1>5, QuietCovered DEF vars, workerVars
<1>6. QED
  BY <1>1, <1>2, <1>3, <1>4, <1>5 DEF Next

\* The history changes nothing of the behaviour it is kept of.
LEMMA HistoryInvariantHolds == HistorySpec => []InductiveInvariant /\ []HistoryInvariant
<1>1. HistoryInit => InductiveInvariant /\ HistoryInvariant
  <2> SUFFICES ASSUME HistoryInit PROVE HistoryInvariant
    BY InitInvariant DEF HistoryInit
  <2>1. \A w \in Workers : pc[w] = "idle"
    BY DEF HistoryInit, Init
  <2>2. \A e \in Execs : Covered(e)
    BY <2>1 DEF HistoryInit, Init, Covered, AtWork
  <2>3. QED
    BY <2>2, HistoryByExecution DEF HistoryInit
<1>2. InductiveInvariant /\ HistoryInvariant /\ [HistoryNext]_<<vars, late>> =>
        InductiveInvariant' /\ HistoryInvariant'
  <2> SUFFICES ASSUME InductiveInvariant, HistoryInvariant, [HistoryNext]_<<vars, late>>
               PROVE  InductiveInvariant' /\ HistoryInvariant'
    OBVIOUS
  <2>1. [Next]_vars
    BY DEF HistoryNext
  <2>2. InductiveInvariant'
    BY <2>1, StepInvariant
  <2>3. late' = late \union TakenLate
    <3>1. UNCHANGED vars => TakenLate = {}
      BY DEF vars, workerVars, TakenLate
    <3>2. QED
      BY <3>1 DEF HistoryNext
  <2>4. TakenLate \subseteq Execs
    BY DEF TakenLate, InductiveInvariant, CallsWellFormed
  <2>5. late' \subseteq Execs
    BY <2>3, <2>4 DEF HistoryInvariant
  <2>6. \A e \in Execs \ late' : Covered(e)'
    BY <2>1, <2>3, StepCovered, HistoryByExecution
  <2>7. HistoryInvariant'
    BY <2>5, <2>6 DEF HistoryInvariant, AloneUnlessLate, LeaseCoversWork, Covered
  <2>8. QED
    BY <2>2, <2>7
<1>3. QED
  BY <1>1, <1>2, PTL DEF HistorySpec

\* The lease keeps its promise: of an execution no client has taken after its own
\* lease ended, one client at most is at work, and its output is its last word.
THEOREM AloneUnlessLateHolds == HistorySpec => []AloneUnlessLate
<1>1. HistoryInvariant => AloneUnlessLate
  BY DEF HistoryInvariant
<1>2. QED
  BY <1>1, HistoryInvariantHolds, PTL
===============================================================================
