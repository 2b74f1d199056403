---------------------------- MODULE DurableHistory ----------------------------
(***************************************************************************)
(* DurableExecution with a history variable: the executions whose row some *)
(* client has taken after its own lease on it had ended.  Nothing in the   *)
(* code stops it: completeExecution and waitFor look at no lease and at no *)
(* worker_id.  What the lease is worth can only be said of the others.     *)
(***************************************************************************)
EXTENDS DurableExecution

VARIABLE late

\* The row a client takes in this step although its lease has ended.
TakenLate ==
    {mine[w] : w \in {v \in Workers : pc[v] = "working" /\ pc'[v] = "leaving" /\ left[v] = 0}}

HistoryInit == Init /\ late = {}
HistoryNext == Next /\ late' = late \union TakenLate
HistorySpec == HistoryInit /\ [][HistoryNext]_<<vars, late>>

\* ---------------------------------------------------------------- properties

\* Within its lease, or about to commit what it did.
AtWork(w, e) ==
    mine[w] = e /\ (pc[w] = "leaving" \/ (pc[w] = "working" /\ left[w] > 0))

\* What the lease is for, however timers, signals, reclaims and crashes interleave:
\* until a client has taken an execution's row after its own lease ended, no two
\* clients are at work on it, and once it has its output it is done for good and
\* nobody is - so no output is dropped, and no finished execution runs again
\* (schema.sql:138-141, claim-complete.ts:29-38).
AloneUnlessLate ==
    \A e \in Execs \ late :
        /\ \A v, w \in Workers : AtWork(v, e) /\ AtWork(w, e) => v = w
        /\ e \in checkpoint => status[e] = "done" /\ \A w \in Workers : ~AtWork(w, e)

\* ------------------------------------------------------ inductive invariant

\* The client at work on an execution has it under a lease that covers its own; who
\* claims one finds it unfinished, and nobody at work on it.
LeaseCoversWork ==
    \A e \in Execs \ late : \A w \in Workers :
        /\ AtWork(w, e) => status[e] = "running"
        /\ pc[w] = "working" /\ mine[w] = e => left[w] <= lease[e]
        /\ pc[w] = "claiming" /\ mine[w] = e =>
             status[e] # "done" /\ \A v \in Workers : ~AtWork(v, e)

HistoryInvariant == late \subseteq Execs /\ AloneUnlessLate /\ LeaseCoversWork

===============================================================================
