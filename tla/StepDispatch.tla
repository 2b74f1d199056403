----------------------------- MODULE StepDispatch -----------------------------
(***************************************************************************)
(* The worker's dispatch of a step (apps/worker: runOnce, dispatchStep and *)
(* agent-client.ts) composed with the exec agent's deduplication           *)
(* (AgentDedup) over an HTTP call that may be lost at either end.          *)
(*                                                                         *)
(* A call is made inside the transaction that claimed the step, so a step  *)
(* has at most one open call (WorkerLoop: the row lock).  A call that      *)
(* fails rolls that transaction back, and any worker may then call again,  *)
(* with the same (executionId, stepId): the agent's deduplication is what  *)
(* keeps the retry from running the command a second time.                 *)
(*                                                                         *)
(* A worker that hung up or died leaves the agent at work, and a request   *)
(* it had sent may still be delivered, up to MaxDelay ticks after it was   *)
(* sent.  What was on its way when the agent restarts is lost.             *)
(***************************************************************************)
EXTENDS Naturals, FiniteSets

CONSTANTS
    Steps,        \* the steps to dispatch, each an execution of its own
    Deps,         \* the steps each one waits for, as in WorkerLoop
    Requests,     \* calls of POST /invoke, each made once
    MaxTimeout,   \* invokeTimeoutMs, in ticks: every request carries it
    Margin,       \* AGENT_FETCH_TIMEOUT_MARGIN_MS, in ticks
    MaxDelay,     \* bound: how long a request may be on its way
    MaxPause,     \* bound: how long a step may wait for a free worker
    Overrun, MaxLease, Ttl, MaxLosses,   \* the agent's, see AgentDedup
    MaxFaults     \* bound: calls broken by the network or by a worker's death

VARIABLES
    entry, age, result, pc, key, budget, ran, joined, answer, losses,
    step,      \* step[s]: committed executions.status
    call,      \* the worker's side of each call
    target,    \* the step each call was made for
    clock,     \* ticks since a call was made, while it is open or on its way
    pause,     \* ticks a step has been waiting for a worker
    wire,      \* requests sent and not delivered
    exit,      \* how the command of a leading request ended
    outcome,   \* the request whose command's response settled each step
    faults

agent == <<entry, age, result, pc, key, budget, ran, joined, answer, losses>>
worker == <<step, call, target, clock, pause, wire, outcome, faults>>
vars == <<agent, worker, exit>>

\* Mutant: function alone, which two steps may share.
RequestKeyByFunction(s) == CHOOSE t \in Steps : TRUE

\* The key a request carries: String(execution.id) and node.id.
RequestKey(s) == s

NoStep == "no step"
NoRequest == "no request"

Agent == INSTANCE AgentDedup WITH Keys <- Steps

ASSUME DispatchAssumption ==
    /\ Deps \in [Steps -> SUBSET Steps] /\ IsFiniteSet(Requests)
    /\ Margin \in Nat /\ MaxDelay \in Nat /\ MaxPause \in Nat /\ MaxFaults \in Nat
    /\ NoStep \notin Steps /\ NoRequest \notin Requests
    /\ Agent!ConstantsAssumption

Patience == MaxTimeout + Margin      \* AbortSignal.timeout

Open(r) == call[r] = "open"

\* Promoted by its dependencies' completions, and claimed by nobody.
Waiting(s) ==
    /\ step[s] = "queued" /\ \A d \in Deps[s] : step[d] = "done"
    /\ \A r \in Requests : Open(r) => target[r] # s

\* --------------------------------------------------------------- the worker

MayDispatch(s) == Waiting(s) /\ \E r \in Requests : call[r] = "unused"

\* runOnce claims the step, builds its request and posts it.  Which of the calls
\* not made yet this one is has no meaning.
Dispatch(s) ==
    LET r == CHOOSE q \in Requests : call[q] = "unused" IN
    /\ MayDispatch(s)
    /\ call' = [call EXCEPT ![r] = "open"]
    /\ target' = [target EXCEPT ![r] = s]
    /\ wire' = wire \union {r}
    /\ pause' = [pause EXCEPT ![s] = 0]
    /\ UNCHANGED <<agent, exit, step, clock, outcome, faults>>

Hangup(r) == call' = [call EXCEPT ![r] = "closed"]

\* RetryableError: the claim is rolled back and the step waits for a worker.
Retry(r) ==
    /\ Open(r)
    /\ Hangup(r)
    /\ UNCHANGED <<agent, exit, step, target, clock, pause, wire, outcome>>

Settle(r, status, by) ==
    /\ Open(r)
    /\ Hangup(r)
    /\ step' = [step EXCEPT ![target[r]] = status]
    /\ outcome' = [outcome EXCEPT ![target[r]] = by]
    /\ UNCHANGED <<agent, exit, target, clock, pause, wire>>

\* A 2xx response arrived whole: it holds the result of answer[r]'s command.
Answered(r) == pc[r] = "answered" /\ answer[r] \in Requests

\* status ok, and an output that is absent or an object: completeStep.
ReceiveOutput(r) ==
    /\ Answered(r) /\ exit[answer[r]] = "ok"
    /\ Settle(r, "done", answer[r])
    /\ UNCHANGED faults

\* status error or timeout, or an output that is no object: failRun.
ReceiveFailure(r) ==
    /\ Answered(r) /\ exit[answer[r]] = "failed"
    /\ Settle(r, "failed", answer[r])
    /\ UNCHANGED faults

\* The agent answers 500, or its handler died and the connection with it.
ReceiveError(r) ==
    /\ \/ pc[r] = "answered" /\ answer[r] = Agent!LeaseError
       \/ pc[r] = "failed"
    /\ Retry(r)
    /\ UNCHANGED faults

\* The worker learns that its request has not reached the agent.
Refused(r) ==
    /\ pc[r] = "new" /\ r \notin wire
    /\ Retry(r)
    /\ UNCHANGED faults

\* Mutant: the timer starts over, and the call stays open.
GiveUpRearms(r) ==
    /\ Open(r) /\ clock[r] = Patience
    /\ clock' = [clock EXCEPT ![r] = 0]
    /\ UNCHANGED <<agent, exit, step, call, target, pause, wire, outcome, faults>>

\* Mutant: a timeout classed with the failures not worth retrying.
GiveUpForGood(r) ==
    /\ clock[r] = Patience
    /\ Settle(r, "failed", NoRequest)
    /\ UNCHANGED faults

\* AbortSignal.timeout fires before the response's headers have arrived.
GiveUp(r) ==
    /\ clock[r] = Patience
    /\ Retry(r)
    /\ UNCHANGED faults

\* The connection breaks before the headers, or the worker dies, at any moment:
\* also when the command has run and its answer is on the way.
CallBroken(r) ==
    /\ faults < MaxFaults
    /\ Retry(r)
    /\ faults' = faults + 1

\* The connection breaks, or AbortSignal.timeout fires, after the headers: what
\* response.json() rejects with is no RetryableError, so failRun.
BodyCut(r) ==
    /\ Answered(r) /\ faults < MaxFaults
    /\ Settle(r, "failed", NoRequest)
    /\ faults' = faults + 1

\* ---------------------------------------------------------------- the agent

\* The request reaches the agent, whose worker may have hung up meanwhile.
Deliver(r) ==
    LET k == RequestKey(target[r]) IN
    /\ r \in wire
    /\ Agent!Lead(r, k, MaxTimeout) \/ Agent!Follow(r, k) \/ Agent!ServeFromCache(r, k)
    /\ wire' = wire \ {r}
    /\ UNCHANGED <<exit, step, call, target, clock, pause, outcome, faults>>

\* execrunner.Run.  "failed" stands for a command that exits nonzero, is killed at
\* its deadline, or prints JSON that is no object.
CommandEnds(r) ==
    /\ Agent!SubprocessEnds(r)
    /\ \E e \in {"ok", "failed"} : exit' = [exit EXCEPT ![r] = e]
    /\ UNCHANGED worker

AgentStep(r) == (Agent!Resolve(r) \/ Agent!Forward(r)) /\ UNCHANGED <<worker, exit>>

\* A follower notices that its client hung up.
AgentDropsFollower(r) ==
    call[r] = "closed" /\ Agent!Disconnect(r) /\ UNCHANGED <<worker, exit>>

AgentLosesLeader(r) == Agent!LeaderLost(r) /\ UNCHANGED <<worker, exit>>

AgentSweep == Agent!Sweep /\ UNCHANGED <<worker, exit>>

\* The request is lost on its way.
Vanish(r) ==
    /\ r \in wire
    /\ wire' = wire \ {r}
    /\ UNCHANGED <<agent, exit, step, call, target, clock, pause, outcome, faults>>

AgentRestart ==
    /\ Agent!Restart
    /\ wire' = {}
    /\ UNCHANGED <<exit, step, call, target, clock, pause, outcome, faults>>

\* --------------------------------------------------------------------- time

Timed(r) == Open(r) \/ r \in wire

Tick ==
    /\ Agent!Tick
    /\ \A r \in Requests : /\ Open(r) => clock[r] < Patience
                           /\ r \in wire => clock[r] < MaxDelay
    /\ \A s \in Steps : MayDispatch(s) => pause[s] < MaxPause
    /\ clock' = [r \in Requests |-> IF Timed(r) THEN clock[r] + 1 ELSE 0]
    /\ pause' = [s \in Steps |-> IF MayDispatch(s) THEN pause[s] + 1 ELSE pause[s]]
    /\ UNCHANGED <<exit, step, call, target, wire, outcome, faults>>

\* ------------------------------------------------------------ specification

Init ==
    /\ Agent!Init
    /\ step = [s \in Steps |-> "queued"]
    /\ call = [r \in Requests |-> "unused"]
    /\ target = [r \in Requests |-> NoStep]
    /\ clock = [r \in Requests |-> 0]
    /\ pause = [s \in Steps |-> 0]
    /\ wire = {}
    /\ exit = [r \in Requests |-> "none"]
    /\ outcome = [s \in Steps |-> NoRequest]
    /\ faults = 0

Receive(r) == ReceiveOutput(r) \/ ReceiveFailure(r) \/ ReceiveError(r)

Next ==
    \/ \E s \in Steps : Dispatch(s)
    \/ \E r \in Requests :
         \/ Receive(r) \/ Refused(r) \/ GiveUp(r) \/ CallBroken(r) \/ BodyCut(r)
         \/ Deliver(r) \/ CommandEnds(r) \/ AgentStep(r)
         \/ AgentDropsFollower(r) \/ AgentLosesLeader(r) \/ Vanish(r)
    \/ AgentSweep \/ AgentRestart \/ Tick

Spec == Init /\ [][Next]_vars

\* The agent's fairness, the workers' poll and timer.  A request does not stay
\* on its way, but it or its answer may vanish without either end being told.
Fairness ==
    /\ \A s \in Steps : WF_vars(Dispatch(s))
    /\ \A r \in Requests :
         /\ WF_vars(Deliver(r) \/ Vanish(r)) /\ WF_vars(GiveUp(r))
         /\ WF_vars(CommandEnds(r)) /\ WF_vars(AgentStep(r))
    /\ WF_vars(AgentSweep) /\ WF_vars(Tick)

FairSpec == Spec /\ Fairness

\* --------------------------------------------------------------- properties

\* What a step is settled with is the outcome of its own command: a retry, a
\* follower or a late answer never brings the outcome of another step's.
OutcomeOfOwnCommand ==
    \A s \in Steps : outcome[s] # NoRequest =>
        /\ target[outcome[s]] = s
        /\ step[s] = "done" <=> exit[outcome[s]] = "ok"

\* A call ends, so its transaction does not hold the claimed row for ever, even
\* if the request or the answer is lost without a trace.
CallsEnd == \A r \in Requests : Open(r) ~> ~Open(r)

\* What agent-client.ts says of a connection that fails and of a client-side
\* timeout: they are safe to retry, so never the reason a step fails.
TransportFailureIsRetried ==
    \A s \in Steps : step[s] = "failed" => outcome[s] # NoRequest

\* ------------------------------------------------------ inductive invariant

\* Every variable of the worker's side stays within its type.
TypeOK ==
    /\ step \in [Steps -> {"queued", "done", "failed"}]
    /\ call \in [Requests -> {"unused", "open", "closed"}]
    /\ target \in [Requests -> Steps \union {NoStep}]
    /\ clock \in [Requests -> Nat]
    /\ pause \in [Steps -> Nat]
    /\ wire \in SUBSET Requests
    /\ exit \in [Requests -> {"none", "ok", "failed"}]
    /\ outcome \in [Steps -> Requests \union {NoRequest}]
    /\ faults \in Nat

\* A call not made yet has left no trace; a call made is for a step that could be
\* dispatched, and carries its key; an open one is its step's only one.
CallsWellFormed ==
    /\ \A r \in Requests :
         /\ call[r] = "unused" =>
              target[r] = NoStep /\ clock[r] = 0 /\ r \notin wire /\ pc[r] = "new"
         /\ call[r] # "unused" =>
              target[r] \in Steps /\ \A d \in Deps[target[r]] : step[d] = "done"
         /\ pc[r] # "new" => r \notin wire /\ key[r] = RequestKey(target[r])
         /\ Open(r) => step[target[r]] = "queued"
    /\ \A q, r \in Requests : Open(q) /\ Open(r) /\ target[q] = target[r] => q = r

\* Nothing waits longer than the bounds and the worker's patience allow.
WaitsBounded ==
    /\ \A r \in Requests : /\ Open(r) => clock[r] <= Patience
                           /\ r \in wire => clock[r] <= MaxDelay
    /\ \A s \in Steps : pause[s] <= MaxPause

\* Every leader has been given the timeout all requests carry.
BudgetsEqual ==
    \A r \in Requests : budget[r] \in {0, MaxTimeout} /\ (Agent!Leading(r) => budget[r] # 0)

\* A result is of a command that has ended.
Ended(r) == pc[r] = "answered" /\ exit[r] # "none"

\* A result reaches only requests of the key its command was run for.
ResultsOfKey ==
    /\ \A r \in Requests :
         /\ pc[r] = "ended" => exit[r] # "none"
         /\ answer[r] \in Requests => Ended(answer[r]) /\ key[answer[r]] = key[r]
         /\ pc[r] = "following" => key[joined[r][1]] = key[r]
    /\ \A e \in Agent!Entries : result[e] \in Requests =>
         Ended(result[e]) /\ key[result[e]] = key[e[1]]
    /\ \A s \in Steps : outcome[s] # NoRequest => Ended(outcome[s])

InductiveInvariant ==
    /\ Agent!InductiveInvariant
    /\ TypeOK /\ CallsWellFormed /\ WaitsBounded /\ BudgetsEqual /\ ResultsOfKey
    /\ OutcomeOfOwnCommand

===============================================================================
