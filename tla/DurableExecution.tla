--------------------------- MODULE DurableExecution ---------------------------
(***************************************************************************)
(* The durable-execution primitives of engine/ and core/: claimExecution,  *)
(* completeExecution, waitFor and signalWait, used by library clients that *)
(* commit their claim, work outside any transaction, and then complete the *)
(* execution or put it to sleep in a second transaction.  A client that    *)
(* dies, or is merely slow, loses its lease and another one reclaims the   *)
(* execution; nothing tells a slow client that it has been replaced.       *)
(*                                                                         *)
(* The model keeps the row locks a transaction holds, in the order the SQL *)
(* functions take them, and the committed rows; uncommitted writes are     *)
(* what a transaction will do when it commits.  Time is relative: a Tick   *)
(* brings every lease and every timer one step nearer to its end.          *)
(***************************************************************************)
EXTENDS Naturals, Sequences

CONSTANTS
    Workers,     \* clients that claim executions
    Signallers,  \* clients that call signalWait
    Execs,       \* executions.id values; claim_execution() takes the lowest
    Keys,        \* wait keys
    Lease,       \* p_lease_seconds, in ticks
    Horizon,     \* the longest timer a client sets, in ticks
    MaxWaits,    \* bound: waitFor calls in one behaviour
    MaxCrashes   \* bound: workers lost in one behaviour

NoExec == 0
NoWait == 0
NoKey == "none"          \* waits.wait_key IS NULL
NoTimer == Horizon + 1   \* waits.wake_at IS NULL

ASSUME ConstantsAssumption ==
    /\ Execs \subseteq Nat \ {0}
    /\ Workers \intersect Signallers = {}
    /\ NoKey \notin Keys
    /\ Lease \in Nat \ {0} /\ Horizon \in Nat
    /\ MaxWaits \in Nat /\ MaxCrashes \in Nat

VARIABLES
    status,      \* committed executions.status, "absent" before enqueue
    lease,       \* ticks until executions.lease_until, 0 when it has passed
    checkpoint,  \* executions whose output the checkpoints table holds
    waits,       \* the waits table, a row's id its index
    pc,          \* where each worker is
    mine,        \* the execution each worker has claimed
    left,        \* ticks until the lease a worker was given ends
    found,       \* wait ids the open signal_wait() call's scan returned
    visited,     \* those of them whose rows it has locked and re-checked
    woken,       \* those of them it satisfied itself
    cur,         \* the one whose first row it has locked
    crashes

workerVars == <<pc, mine, left>>
signalVars == <<found, visited, woken, cur>>
vars == <<status, lease, checkpoint, waits, workerVars, signalVars, crashes>>

WaitIds == DOMAIN waits
Pending(e) == {i \in WaitIds : waits[i].exec = e /\ ~waits[i].satisfied}
Due(e) == {i \in Pending(e) : waits[i].timer = 0}

\* ---------------------------------------------------------------- row locks

\* Mutant: signal_wait() locks the waits row it found before its execution.
WaitRowFirst(i) == <<<<"wait", i>>, <<"execution", waits[i].exec>>>>

\* The rows signal_wait() locks for a candidate, in its order.
LockOrder(i) == <<<<"execution", waits[i].exec>>, <<"wait", i>>>>

WorkerRows(w) ==
    IF pc[w] \in {"claiming", "leaving"} THEN {<<"execution", mine[w]>>} ELSE {}

SignalRows(s) ==
    {LockOrder(i)[n] : i \in visited[s], n \in 1 .. 2}
        \union (IF cur[s] = NoWait THEN {} ELSE {LockOrder(cur[s])[1]})

RowsOf(t) == IF t \in Workers THEN WorkerRows(t) ELSE SignalRows(t)

Free(t, row) == \A u \in (Workers \union Signallers) \ {t} : row \notin RowsOf(u)

\* signal_wait()'s scan has no ORDER BY, so any candidate left may be its next.
MayWaitFor(s, t) ==
    \/ cur[s] = NoWait /\ \E i \in found[s] \ visited[s] : LockOrder(i)[1] \in RowsOf(t)
    \/ cur[s] # NoWait /\ LockOrder(cur[s])[2] \in RowsOf(t)

InLockCycle(s) ==
    \E t \in Signallers \ {s} : MayWaitFor(s, t) /\ MayWaitFor(t, s)

\* ------------------------------------------------------------------- claims

\* ExecutionsRepo.enqueue
Enqueue(e) ==
    /\ status[e] = "absent"
    /\ status' = [status EXCEPT ![e] = "queued"]
    /\ UNCHANGED <<lease, checkpoint, waits, workerVars, signalVars, crashes>>

\* Mutants of claim_execution()'s WHERE: leases, or timers, left to a sweeper.
ClaimableIgnoringLeases(e) ==
    \/ status[e] = "queued"
    \/ status[e] = "waiting" /\ Due(e) # {}

ClaimableIgnoringTimers(e) ==
    \/ status[e] = "queued"
    \/ status[e] = "running" /\ lease[e] = 0

\* queued, running with an expired lease, or waiting with a due timer.
Claimable(e) ==
    \/ status[e] = "queued"
    \/ status[e] = "running" /\ lease[e] = 0
    \/ status[e] = "waiting" /\ Due(e) # {}

\* FOR UPDATE SKIP LOCKED LIMIT 1, ORDER BY id.
ClaimRow(w) ==
    /\ pc[w] = "idle"
    /\ \E e \in {x \in Execs : Claimable(x) /\ Free(w, <<"execution", x>>)} :
         /\ \A x \in Execs : x < e => ~(Claimable(x) /\ Free(w, <<"execution", x>>))
         /\ mine' = [mine EXCEPT ![w] = e]
    /\ pc' = [pc EXCEPT ![w] = "claiming"]
    /\ left' = [left EXCEPT ![w] = Lease]
    /\ UNCHANGED <<status, lease, checkpoint, waits, signalVars, crashes>>

\* Mutant: without `lease_until = now() + ...`.
ClaimCommitUnleased(w) ==
    LET e == mine[w] IN
    /\ pc[w] = "claiming"
    /\ \A i \in Due(e) : Free(w, <<"wait", i>>)
    /\ waits' = [i \in WaitIds |->
                   [waits[i] EXCEPT !.satisfied = @ \/ i \in Due(e)]]
    /\ status' = [status EXCEPT ![e] = "running"]
    /\ pc' = [pc EXCEPT ![w] = "working"]
    /\ UNCHANGED <<lease, checkpoint, mine, left, signalVars, crashes>>

\* The due timer waits are satisfied, the row becomes `running` with a lease that
\* counts from the transaction's start (now()), COMMIT.
ClaimCommit(w) ==
    LET e == mine[w] IN
    /\ pc[w] = "claiming"
    /\ \A i \in Due(e) : Free(w, <<"wait", i>>)
    /\ waits' = [i \in WaitIds |->
                   [waits[i] EXCEPT !.satisfied = @ \/ i \in Due(e)]]
    /\ status' = [status EXCEPT ![e] = "running"]
    /\ lease' = [lease EXCEPT ![e] = left[w]]
    /\ pc' = [pc EXCEPT ![w] = "working"]
    /\ UNCHANGED <<checkpoint, mine, left, signalVars, crashes>>

\* ----------------------------------------- the worker's second transaction

Leave(w) ==
    /\ pc' = [pc EXCEPT ![w] = "idle"]
    /\ mine' = [mine EXCEPT ![w] = NoExec]
    /\ left' = [left EXCEPT ![w] = 0]

\* Its INSERT ... REFERENCES executions waits for a FOR UPDATE holder of the row;
\* the UPDATE that follows waits for another writer, taken here at once.
LockOwnRow(w) ==
    /\ pc[w] = "working"
    /\ Free(w, <<"execution", mine[w]>>)
    /\ pc' = [pc EXCEPT ![w] = "leaving"]
    /\ UNCHANGED <<status, lease, checkpoint, waits, mine, left, signalVars, crashes>>

\* completeExecution: a checkpoint that is there stays and the new output is dropped
\* (ON CONFLICT DO NOTHING); markDone has no guard.
Complete(w) ==
    /\ pc[w] = "leaving"
    /\ checkpoint' = checkpoint \union {mine[w]}
    /\ status' = [status EXCEPT ![mine[w]] = "done"]
    /\ Leave(w)
    /\ UNCHANGED <<lease, waits, signalVars, crashes>>

\* waitFor with a key, a timer or both; markWaiting has no guard.
WaitFor(w, key, timer) ==
    /\ pc[w] = "leaving"
    /\ Len(waits) < MaxWaits
    /\ key # NoKey \/ timer # NoTimer
    /\ waits' = Append(waits, [exec |-> mine[w], key |-> key,
                               timer |-> timer, satisfied |-> FALSE])
    /\ status' = [status EXCEPT ![mine[w]] = "waiting"]
    /\ Leave(w)
    /\ UNCHANGED <<lease, checkpoint, signalVars, crashes>>

\* A worker is lost with or without an open transaction.
Crash(w) ==
    /\ pc[w] # "idle" /\ crashes < MaxCrashes
    /\ crashes' = crashes + 1
    /\ Leave(w)
    /\ UNCHANGED <<status, lease, checkpoint, waits, signalVars>>

\* --------------------------------------------------------------- signal_wait

\* The unlocked scan; a call that finds nothing changes nothing.
SignalScan(s, key) ==
    /\ found[s] = {}
    /\ found' = [found EXCEPT ![s] = {i \in WaitIds : waits[i].key = key /\ ~waits[i].satisfied}]
    /\ found'[s] # {}
    /\ UNCHANGED <<status, lease, checkpoint, waits, workerVars, visited, woken, cur, crashes>>

\* PERFORM 1 FROM executions ... FOR UPDATE
SignalLock(s, i) ==
    /\ cur[s] = NoWait /\ i \in found[s] \ visited[s]
    /\ Free(s, LockOrder(i)[1])
    /\ cur' = [cur EXCEPT ![s] = i]
    /\ UNCHANGED <<status, lease, checkpoint, waits, workerVars, found, visited, woken, crashes>>

\* Mutant: the wait is not re-checked under the lock.
SignalSatisfyUnchecked(s) ==
    /\ cur[s] # NoWait
    /\ Free(s, LockOrder(cur[s])[2])
    /\ visited' = [visited EXCEPT ![s] = @ \union {cur[s]}]
    /\ woken' = [woken EXCEPT ![s] = @ \union {cur[s]}]
    /\ cur' = [cur EXCEPT ![s] = NoWait]
    /\ UNCHANGED <<status, lease, checkpoint, waits, workerVars, found, crashes>>

\* The waits row is locked and re-checked; CONTINUE if somebody satisfied it.
SignalSatisfy(s) ==
    /\ cur[s] # NoWait
    /\ Free(s, LockOrder(cur[s])[2])
    /\ visited' = [visited EXCEPT ![s] = @ \union {cur[s]}]
    /\ woken' = [woken EXCEPT ![s] = IF waits[cur[s]].satisfied THEN @ ELSE @ \union {cur[s]}]
    /\ cur' = [cur EXCEPT ![s] = NoWait]
    /\ UNCHANGED <<status, lease, checkpoint, waits, workerVars, found, crashes>>

\* The call's transaction is over, committed or not.
SignalEnd(s) ==
    /\ found' = [found EXCEPT ![s] = {}]
    /\ visited' = [visited EXCEPT ![s] = {}]
    /\ woken' = [woken EXCEPT ![s] = {}]
    /\ cur' = [cur EXCEPT ![s] = NoWait]

\* Mutant: a hybrid wait is left to its timer.
PromotedUnlessHybrid(s) ==
    {e \in {waits[i].exec : i \in {j \in woken[s] : waits[j].timer = NoTimer}} :
        status[e] = "waiting"}

\* The executions a call puts back in the queue: those still `waiting`.
Promoted(s) == {e \in {waits[i].exec : i \in woken[s]} : status[e] = "waiting"}

SignalCommit(s) ==
    /\ found[s] # {} /\ visited[s] = found[s]
    /\ waits' = [i \in WaitIds |-> [waits[i] EXCEPT !.satisfied = @ \/ i \in woken[s]]]
    /\ status' = [e \in Execs |-> IF e \in Promoted(s) THEN "queued" ELSE status[e]]
    /\ SignalEnd(s)
    /\ UNCHANGED <<lease, checkpoint, workerVars, crashes>>

\* Postgres aborts one of two signal_wait() calls that wait for each other.
SignalVictim(s) ==
    /\ InLockCycle(s)
    /\ SignalEnd(s)
    /\ UNCHANGED <<status, lease, checkpoint, waits, workerVars, crashes>>

\* ---------------------------------------------------------------------- time

Earlier(n) == IF n = 0 THEN 0 ELSE n - 1

Tick ==
    /\ lease' = [e \in Execs |-> Earlier(lease[e])]
    /\ left' = [w \in Workers |-> Earlier(left[w])]
    /\ waits' = [i \in WaitIds |->
                   [waits[i] EXCEPT !.timer = IF @ = NoTimer THEN @ ELSE Earlier(@)]]
    /\ UNCHANGED <<status, checkpoint, pc, mine, signalVars, crashes>>

\* ------------------------------------------------------------- specification

Init ==
    /\ status = [e \in Execs |-> "absent"]
    /\ lease = [e \in Execs |-> 0]
    /\ checkpoint = {}
    /\ waits = <<>>
    /\ pc = [w \in Workers |-> "idle"]
    /\ mine = [w \in Workers |-> NoExec]
    /\ left = [w \in Workers |-> 0]
    /\ found = [s \in Signallers |-> {}]
    /\ visited = [s \in Signallers |-> {}]
    /\ woken = [s \in Signallers |-> {}]
    /\ cur = [s \in Signallers |-> NoWait]
    /\ crashes = 0

Work(w) ==
    \/ ClaimRow(w) \/ ClaimCommit(w) \/ LockOwnRow(w) \/ Complete(w)
    \/ \E key \in Keys \union {NoKey}, timer \in 0 .. NoTimer : WaitFor(w, key, timer)

SignalStep(s) ==
    \/ \E i \in found[s] : SignalLock(s, i)
    \/ SignalSatisfy(s) \/ SignalCommit(s)

Next ==
    \/ \E e \in Execs : Enqueue(e)
    \/ \E w \in Workers : Work(w) \/ Crash(w)
    \/ \E s \in Signallers :
         (\E key \in Keys : SignalScan(s, key)) \/ SignalStep(s) \/ SignalVictim(s)
    \/ Tick

Spec == Init /\ [][Next]_vars

\* Workers poll and finish what they hold, a signal_wait() call runs to its end
\* or is aborted, and time passes.  Nobody has to call signalWait.
Fairness ==
    /\ \A w \in Workers : WF_vars(Work(w))
    /\ \A s \in Signallers : WF_vars(SignalStep(s)) /\ WF_vars(SignalVictim(s))
    /\ WF_vars(Tick)

FairSpec == Spec /\ Fairness

\* ---------------------------------------------------------------- properties

\* No wakeup is lost: whatever race timers, signals, reclaims and late waitFor
\* calls run, an execution asleep has a pending wait that can still wake it.
SleeperCanWake ==
    \A e \in Execs : status[e] = "waiting" => Pending(e) # {}

\* claim_execution() never blocks on a waits row signal_wait() holds, so the two
\* racing on one hybrid wait cannot deadlock (both lock the execution first).
ClaimNeverBlocked ==
    \A w \in Workers : pc[w] = "claiming" =>
        \A i \in Due(mine[w]) : Free(w, <<"wait", i>>)

\* A signal is a broadcast that delivers each wakeup once: when a call commits,
\* every wait its scan found is satisfied, those whose rows were contended
\* included, and by this call only if nobody was before it - neither the timer
\* side of a hybrid wait nor another signal (schema.sql:222-240).
BroadcastDeliversOnce ==
    [][\A s \in Signallers : SignalCommit(s) =>
         /\ \A i \in found[s] : waits'[i].satisfied
         /\ \A i \in woken[s] : ~waits[i].satisfied]_vars

\* Two signal_wait() calls that visit two executions in opposite orders hold their
\* rows until PostgreSQL aborts one.  Calls that do so again and again leave the
\* waits pending and the rows locked whenever a claim looks at them.
SignalsDeadlockForEver == []<>(\E s \in Signallers : InLockCycle(s))

\* A step survives its worker: an execution queued, or claimed by a worker that
\* died or is stuck, is completed or goes to sleep in the end, whatever signals
\* arrive, unless they deadlock for ever (schema.sql:138).
NoExecutionLost ==
    \A e \in Execs :
        status[e] \in {"queued", "running"} ~>
            (status[e] \in {"done", "waiting"} \/ SignalsDeadlockForEver)

\* A due timer wakes its execution without any sweeper and without a signal, if
\* signals that deadlock for ever do not keep its row from the claim scan, which
\* skips locked rows (schema.sql:139).
DueTimerWakes ==
    \A e \in Execs :
        (status[e] = "waiting" /\ Due(e) # {}) ~>
            (status[e] # "waiting" \/ SignalsDeadlockForEver)

\* ------------------------------------------------------ inductive invariant

Statuses == {"absent", "queued", "running", "waiting", "done"}

Wait == [exec : Execs, key : Keys \union {NoKey}, timer : 0 .. NoTimer, satisfied : BOOLEAN]

\* Every variable stays within its type.
TypeOK ==
    /\ status \in [Execs -> Statuses]
    /\ lease \in [Execs -> Nat]
    /\ checkpoint \subseteq Execs
    /\ waits \in Seq(Wait)
    /\ pc \in [Workers -> {"idle", "claiming", "working", "leaving"}]
    /\ mine \in [Workers -> Execs \union {NoExec}]
    /\ left \in [Workers -> Nat]
    /\ found \in [Signallers -> SUBSET Nat]
    /\ visited \in [Signallers -> SUBSET Nat]
    /\ woken \in [Signallers -> SUBSET Nat]
    /\ cur \in [Signallers -> Nat]
    /\ crashes \in Nat

\* A busy worker has an execution; a call has found waits, visits those, wakes some
\* of the visited and is at one it has not visited.
CallsWellFormed ==
    /\ \A w \in Workers : pc[w] # "idle" => mine[w] \in Execs
    /\ \A s \in Signallers :
         /\ found[s] \subseteq WaitIds /\ visited[s] \subseteq found[s]
         /\ woken[s] \subseteq visited[s]
         /\ cur[s] # NoWait => cur[s] \in found[s] \ visited[s]

\* Two transactions never hold one row.
LocksExclusive ==
    \A t, u \in Workers \union Signallers : t # u => RowsOf(t) \intersect RowsOf(u) = {}

\* What a call has visited it either found satisfied, or holds and will satisfy.
VisitedJudged ==
    \A s \in Signallers : \A i \in visited[s] : waits[i].satisfied <=> i \notin woken[s]

InductiveInvariant ==
    /\ TypeOK /\ CallsWellFormed /\ LocksExclusive /\ VisitedJudged /\ SleeperCanWake

===============================================================================
