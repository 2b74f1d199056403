---------------------------- MODULE DispatchHistory ----------------------------
(***************************************************************************)
(* StepDispatch with a history variable: how often the agent has dropped a *)
(* step's result because its TTL had ended.  With the code's own settings  *)
(* that can happen while a retry may still come: the TTL is 30 s           *)
(* (config.go:71), and the worker waits 35 s before it gives a lost answer *)
(* up and calls again (apps/worker/constants.ts:7,24).                     *)
(***************************************************************************)
EXTENDS StepDispatch

VARIABLE lapses

\* A result of the step's is at hand.
HasResult(s) == entry[s] # Agent!NoEntry /\ Agent!Resolved(s)

\* The steps whose result this very step of the agent drops, for its age alone.
Lapsing ==
    {s \in Steps : HasResult(s) /\ Agent!Expired(s) /\ entry'[s] # entry[s] /\ losses' = losses}

HistoryInit == Init /\ lapses = [s \in Steps |-> 0]
HistoryNext ==
    Next /\ lapses' = [s \in Steps |-> IF s \in Lapsing THEN lapses[s] + 1 ELSE lapses[s]]
HistorySpec == HistoryInit /\ [][HistoryNext]_<<vars, lapses>>
HistoryFairSpec == HistorySpec /\ Fairness

\* ---------------------------------------------------------------- properties

\* A subprocess ends, at its timeout at the latest, before the agent gives its
\* leader up: 30 s of invokeTimeoutMs and what it takes to kill it, against 5 min
\* (dedup.go:28).
LeaseSuffices == MaxLease >= MaxTimeout + Overrun

\* The requests that have led a command of the step.
CommandsRun(s) == {r \in Requests : key[r] = RequestKey(s) /\ budget[r] # 0}

\* However answers are lost, workers die and requests are delayed, a step's command
\* is run once, and again only for a lost leader, a restart, or a result that the
\* agent dropped for its age: a retry by itself never runs it twice.
CommandRunsOncePerLoss ==
    LeaseSuffices =>
        \A s \in Steps : Cardinality(CommandsRun(s)) <= 1 + losses + lapses[s]

\* Nothing of a settled step is left at work, unless its result was once dropped: no
\* command of it is running, or is started by a request delayed on its way.
SettledStepIsQuiet ==
    LeaseSuffices =>
        \A s \in Steps : step[s] # "queued" /\ lapses[s] = 0 =>
            \A r \in CommandsRun(s) : pc[r] # "running"

\* ------------------------------------------------------ inductive invariant

\* A request for the step would not lead: its command is running or has a result.
Answerable(s) == HasResult(s) \/ \E r \in Requests : Agent!Leading(r) /\ key[r] = s

\* A command is not run again while one runs or its result is there.
RunsAccounted ==
    \A s \in Steps :
        /\ Cardinality(CommandsRun(s)) <= 1 + losses + lapses[s]
        /\ Cardinality(CommandsRun(s)) <= losses + lapses[s] \/ Answerable(s)

\* A call has an answer, received or not, if the entry it joined has a result.
HasAnswer(r) ==
    \/ Answered(r)
    \/ pc[r] = "following" /\ result[joined[r]] \in Requests

Settling(s) ==
    step[s] # "queued" \/ \E r \in Requests : Open(r) /\ target[r] = s /\ HasAnswer(r)

\* A step settled, or about to be, has no leader and will get none.
QuietUnlessLapsed ==
    \A s \in Steps : Settling(s) /\ lapses[s] = 0 =>
        /\ \A r \in Requests : Agent!Leading(r) => key[r] # s
        /\ (\E r \in wire : target[r] = s) => HasResult(s)

Promises == RunsAccounted /\ QuietUnlessLapsed

HistoryInvariant == lapses \in [Steps -> Nat] /\ (LeaseSuffices => Promises)

===============================================================================
