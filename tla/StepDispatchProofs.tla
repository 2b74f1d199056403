-------------------------- MODULE StepDispatchProofs --------------------------
(***************************************************************************)
(* The safety of the worker's dispatch over the agent's deduplication, for *)
(* any number of steps, calls, faults and losses and any timing: the       *)
(* composition implements AgentDedup, a step is settled with its own       *)
(* command's outcome, and a retry by itself never runs a command again:    *)
(* that takes a loss, or a result that the agent dropped for its age.      *)
(***************************************************************************)
EXTENDS DispatchHistory, FiniteSetTheorems, TLAPS

AgentProofs == INSTANCE AgentDedupProofs WITH Keys <- Steps

\* ---------------------------------------------------------------- the agent

\* The two instances of AgentDedup, the model's and the proofs', are the same.
LEMMA SameInvariant ==
    /\ AgentProofs!InductiveInvariant <=> Agent!InductiveInvariant
    /\ AgentProofs!InductiveInvariant' <=> Agent!InductiveInvariant'
BY DEF Agent!LeaseHasMargin, AgentProofs!LeaseHasMargin, Agent!TypeOK,
       AgentProofs!TypeOK, Agent!Stages, AgentProofs!Stages, Agent!NewUntouched,
       AgentProofs!NewUntouched, Agent!EntriesUnderTheirKeys,
       AgentProofs!EntriesUnderTheirKeys, Agent!ResolveEntriesDone,
       AgentProofs!ResolveEntriesDone, Agent!LeaderHoldsEntry,
       AgentProofs!LeaderHoldsEntry, Agent!ResultsOwn, AgentProofs!ResultsOwn,
       Agent!InductiveInvariant, AgentProofs!InductiveInvariant, Agent!Leading,
       AgentProofs!Leading, Agent!Entries, AgentProofs!Entries, Agent!NoEntry,
       AgentProofs!NoEntry, Agent!NoKey, AgentProofs!NoKey, Agent!NoResult,
       AgentProofs!NoResult, Agent!LeaseError, AgentProofs!LeaseError

\* The same of their steps.
LEMMA SameNext == AgentProofs!Next <=> Agent!Next
BY DEF Agent!NoKey, AgentProofs!NoKey, Agent!NoEntry, AgentProofs!NoEntry,
       Agent!NoResult, AgentProofs!NoResult, Agent!LeaseError,
       AgentProofs!LeaseError, Agent!Entries, AgentProofs!Entries, Agent!store,
       AgentProofs!store, Agent!handlers, AgentProofs!handlers, Agent!Leading,
       AgentProofs!Leading, Agent!Resolved, AgentProofs!Resolved, Agent!Expired,
       AgentProofs!Expired, Agent!SweptEntry, AgentProofs!SweptEntry,
       Agent!SweptResult, AgentProofs!SweptResult, Agent!Sweep, AgentProofs!Sweep,
       Agent!Lead, AgentProofs!Lead, Agent!Follow, AgentProofs!Follow,
       Agent!ServeFromCache, AgentProofs!ServeFromCache, Agent!SubprocessEnds,
       AgentProofs!SubprocessEnds, Agent!Respond, AgentProofs!Respond,
       Agent!ResolveEntry, AgentProofs!ResolveEntry, Agent!ResolveSwept,
       AgentProofs!ResolveSwept, Agent!ResolveIgnored, AgentProofs!ResolveIgnored,
       Agent!Resolve, AgentProofs!Resolve, Agent!LeaderLost, AgentProofs!LeaderLost,
       Agent!Restart, AgentProofs!Restart, Agent!Forward, AgentProofs!Forward,
       Agent!Disconnect, AgentProofs!Disconnect, Agent!Limit, AgentProofs!Limit,
       Agent!Tick, AgentProofs!Tick, Agent!Attach, AgentProofs!Attach, Agent!Handle,
       AgentProofs!Handle, Agent!Next, AgentProofs!Next, Agent!vars,
       AgentProofs!vars

\* A step of the agent preserves the agent's inductive invariant.
LEMMA AgentInvariant ==
    Agent!InductiveInvariant /\ [Agent!Next]_agent => Agent!InductiveInvariant'
<1>1. AgentProofs!InductiveInvariant /\ [AgentProofs!Next]_(AgentProofs!vars)
        => AgentProofs!InductiveInvariant'
  BY AgentProofs!StepInvariant, DispatchAssumption
     DEF Agent!NoKey, Agent!NoEntry, Agent!NoResult, Agent!LeaseError, Agent!Entries,
         AgentProofs!NoKey, AgentProofs!NoEntry, AgentProofs!NoResult,
         AgentProofs!LeaseError, AgentProofs!Entries
<1>2. QED
  BY <1>1, SameInvariant, SameNext DEF agent, AgentProofs!vars

\* The agent starts as AgentDedup does.
LEMMA AgentInit == Agent!Init => Agent!InductiveInvariant
<1>1. AgentProofs!Init => AgentProofs!InductiveInvariant
  BY AgentProofs!InitInvariant, DispatchAssumption
     DEF Agent!NoKey, Agent!NoEntry, Agent!NoResult, Agent!LeaseError, Agent!Entries,
         AgentProofs!NoKey, AgentProofs!NoEntry, AgentProofs!NoResult,
         AgentProofs!LeaseError, AgentProofs!Entries
<1>2. AgentProofs!Init <=> Agent!Init
  BY DEF Agent!Init, AgentProofs!Init, Agent!NoKey, AgentProofs!NoKey, Agent!NoEntry,
         AgentProofs!NoEntry, Agent!NoResult, AgentProofs!NoResult, Agent!Entries,
         AgentProofs!Entries
<1>3. QED
  BY <1>1, <1>2, SameInvariant

\* A step of the composition is one of the agent, or leaves the agent alone: what
\* the worker sends carries a key and the timeout an agent accepts.
LEMMA StepIsAgentStep ==
    TypeOK /\ CallsWellFormed /\ [Next]_vars => [Agent!Next]_agent
<1> SUFFICES ASSUME TypeOK, CallsWellFormed, [Next]_vars PROVE [Agent!Next]_agent
  OBVIOUS
<1>1. MaxTimeout \in 1 .. MaxTimeout
  BY DispatchAssumption DEF Agent!ConstantsAssumption
<1>2. ASSUME NEW r \in Requests, Deliver(r) PROVE Agent!Next
  <2>1. target[r] \in Steps
    BY <1>2 DEF Deliver, TypeOK, CallsWellFormed
  <2>2. Agent!Attach(r)
    BY <1>1, <1>2, <2>1 DEF Deliver, RequestKey, Agent!Attach
  <2>3. QED
    BY <2>2 DEF Agent!Next
<1>3. ASSUME NEW r \in Requests,
             \/ CommandEnds(r) \/ AgentStep(r)
             \/ AgentDropsFollower(r) \/ AgentLosesLeader(r)
      PROVE  Agent!Next
  BY <1>3 DEF CommandEnds, AgentStep, AgentDropsFollower, AgentLosesLeader,
              Agent!Next, Agent!Handle
<1>4. CASE AgentSweep \/ AgentRestart \/ Tick
  BY <1>4 DEF AgentSweep, AgentRestart, Tick, Agent!Next
<1>5. ASSUME \/ \E s \in Steps : Dispatch(s)
             \/ \E r \in Requests : \/ Receive(r) \/ Refused(r) \/ GiveUp(r)
                                    \/ CallBroken(r) \/ BodyCut(r) \/ Vanish(r)
      PROVE  UNCHANGED agent
  BY <1>5 DEF Dispatch, Receive, ReceiveOutput, ReceiveFailure, ReceiveError, Refused,
              GiveUp, CallBroken, BodyCut, Vanish, Retry, Settle
<1>6. CASE UNCHANGED vars
  BY <1>6 DEF vars
<1>7. QED
  BY <1>2, <1>3, <1>4, <1>5, <1>6 DEF Next

\* ---------------------------------------------------- the worker's own state

\* Dispatch takes a call that was not made yet.
LEMMA DispatchedCall ==
    ASSUME NEW s \in Steps, Dispatch(s)
    PROVE  \E r \in Requests :
             /\ call[r] = "unused" /\ MayDispatch(s)
             /\ call' = [call EXCEPT ![r] = "open"]
             /\ target' = [target EXCEPT ![r] = s]
             /\ wire' = wire \union {r}
             /\ pause' = [pause EXCEPT ![s] = 0]
             /\ UNCHANGED <<agent, exit, step, clock, outcome, faults>>
BY DEF Dispatch, MayDispatch

\* What the ends of a call have in common: it is closed, and its step settled or not.
LEMMA ClosedCall ==
    ASSUME NEW r \in Requests, Receive(r) \/ Refused(r) \/ GiveUp(r) \/ CallBroken(r) \/ BodyCut(r)
    PROVE  /\ Open(r) /\ call' = [call EXCEPT ![r] = "closed"]
           /\ UNCHANGED <<agent, exit, target, clock, pause, wire>>
           /\ faults' \in {faults, faults + 1}
           /\ \/ UNCHANGED <<step, outcome>>
              \/ /\ Answered(r)
                 /\ \E status \in {"done", "failed"}, by \in {answer[r], NoRequest} :
                      /\ step' = [step EXCEPT ![target[r]] = status]
                      /\ outcome' = [outcome EXCEPT ![target[r]] = by]
                      /\ by = NoRequest \/ (status = "done" <=> exit[by] = "ok")
BY DEF Receive, ReceiveOutput, ReceiveFailure, ReceiveError, Refused, GiveUp, CallBroken,
       BodyCut, Retry, Settle, Hangup

\* The steps of the agent leave the worker's calls alone.
LEMMA AgentMove ==
    ASSUME NEW r \in Requests,
           \/ CommandEnds(r) \/ AgentStep(r) \/ AgentDropsFollower(r)
           \/ AgentLosesLeader(r) \/ AgentSweep
    PROVE  UNCHANGED <<step, call, target, clock, pause, wire, outcome, faults>>
BY DEF CommandEnds, AgentStep, AgentDropsFollower, AgentLosesLeader, AgentSweep, worker

\* What the agent's steps do to a request: an answered one stays answered, a new one
\* stays new unless it attaches, and its key is set when it does.
LEMMA RequestProgress ==
    ASSUME Agent!TypeOK, [Agent!Next]_agent, NEW q \in Requests
    PROVE  /\ pc[q] = "answered" => pc'[q] = "answered"
           /\ pc[q] # "new" => pc'[q] # "new" /\ key'[q] = key[q] /\ budget'[q] = budget[q]
BY ZenonT(60) DEF Agent!TypeOK, Agent!Next, Agent!Attach, Agent!Handle, Agent!Lead, Agent!Follow,
       Agent!ServeFromCache, Agent!SubprocessEnds, Agent!Resolve, Agent!ResolveEntry,
       Agent!ResolveSwept, Agent!ResolveIgnored, Agent!Respond, Agent!Forward,
       Agent!LeaderLost, Agent!Disconnect, Agent!Sweep, Agent!Restart, Agent!Tick,
       Agent!handlers, Agent!store, agent

\* Only an attachment sets a key or a budget, and takes a request from "new".
LEMMA OnlyDeliverAttaches ==
    ASSUME Agent!TypeOK, [Next]_vars, \A r \in Requests : ~ Deliver(r)
    PROVE  /\ UNCHANGED <<key, budget>>
           /\ \A q \in Requests : /\ pc'[q] = "new" <=> pc[q] = "new"
                                  /\ Agent!Leading(q)' => Agent!Leading(q)
                                  /\ pc'[q] = "following" => pc[q] = "following"
           /\ UNCHANGED joined
<1>1. CASE UNCHANGED agent
  BY <1>1 DEF agent, Agent!Leading
<1>2. ASSUME NEW r \in Requests,
             \/ Agent!SubprocessEnds(r) \/ Agent!Resolve(r) \/ Agent!Forward(r)
             \/ Agent!Disconnect(r) \/ Agent!LeaderLost(r)
      PROVE  /\ UNCHANGED <<key, budget, joined>>
             /\ \E stage \in {"ended", "answered", "failed"} : pc' = [pc EXCEPT ![r] = stage]
             /\ pc[r] # "new"
             /\ pc'[r] = "ended" => pc[r] = "running"
  BY <1>2 DEF Agent!TypeOK, Agent!SubprocessEnds, Agent!Resolve, Agent!ResolveEntry,
              Agent!ResolveSwept, Agent!ResolveIgnored, Agent!Respond, Agent!Forward,
              Agent!LeaderLost, Agent!Disconnect
<1>3. ASSUME NEW r \in Requests,
             \/ Agent!SubprocessEnds(r) \/ Agent!Resolve(r) \/ Agent!Forward(r)
             \/ Agent!Disconnect(r) \/ Agent!LeaderLost(r),
             NEW q \in Requests
      PROVE  /\ pc'[q] = "new" <=> pc[q] = "new"
             /\ Agent!Leading(q)' => Agent!Leading(q)
             /\ pc'[q] = "following" => pc[q] = "following"
  BY <1>2, <1>3 DEF Agent!TypeOK, Agent!Leading
<1>4. CASE Agent!Sweep \/ Agent!Restart \/ Agent!Tick
  BY <1>4 DEF Agent!Sweep, Agent!Restart, Agent!Tick, Agent!TypeOK, Agent!Leading,
              Agent!handlers
<1>5. CASE \E s \in Steps : Dispatch(s)
  BY <1>1, <1>5, DispatchedCall
<1>6. CASE \E r \in Requests :
             \/ Receive(r) \/ Refused(r) \/ GiveUp(r) \/ CallBroken(r) \/ BodyCut(r) \/ Vanish(r)
  BY <1>1, <1>6, ClosedCall DEF Vanish
<1>7. QED
  BY <1>1, <1>2, <1>3, <1>4, <1>5, <1>6
     DEF Next, vars, CommandEnds, AgentStep, AgentDropsFollower, AgentLosesLeader,
         AgentSweep, AgentRestart, Tick

\* What the delivery of a request changes.
LEMMA DeliveredRequest ==
    ASSUME InductiveInvariant, NEW r \in Requests, Deliver(r)
    PROVE  /\ r \in wire /\ wire' = wire \ {r} /\ pc[r] = "new"
           /\ target[r] \in Steps
           /\ key' = [key EXCEPT ![r] = target[r]]
           /\ budget' \in {budget, [budget EXCEPT ![r] = MaxTimeout]}
           /\ \E stage \in {"running", "following", "answered"} : pc' = [pc EXCEPT ![r] = stage]
           /\ pc'[r] = "running" => budget' = [budget EXCEPT ![r] = MaxTimeout]
           /\ entry' = [Agent!SweptEntry EXCEPT ![target[r]] = entry'[target[r]]]
           /\ result' = Agent!SweptResult
           /\ UNCHANGED <<exit, step, call, target, clock, pause, outcome, faults>>
<1>1. /\ r \in wire /\ wire' = wire \ {r} /\ target[r] \in Steps
      /\ UNCHANGED <<exit, step, call, target, clock, pause, outcome, faults>>
  BY DEF Deliver, InductiveInvariant, TypeOK, CallsWellFormed
<1>2. \/ Agent!Lead(r, target[r], MaxTimeout) \/ Agent!Follow(r, target[r])
      \/ Agent!ServeFromCache(r, target[r])
  BY DEF Deliver, RequestKey
<1>3. pc[r] = "new" /\ key' = [key EXCEPT ![r] = target[r]] /\ result' = Agent!SweptResult
  BY <1>2 DEF Agent!Lead, Agent!Follow, Agent!ServeFromCache
<1>4. entry' = [Agent!SweptEntry EXCEPT ![target[r]] = entry'[target[r]]]
  BY <1>1, <1>2 DEF Agent!Lead, Agent!Follow, Agent!ServeFromCache, Agent!SweptEntry
<1>5. /\ budget' \in {budget, [budget EXCEPT ![r] = MaxTimeout]}
      /\ \E stage \in {"running", "following", "answered"} : pc' = [pc EXCEPT ![r] = stage]
      /\ pc'[r] = "running" => budget' = [budget EXCEPT ![r] = MaxTimeout]
  BY <1>2 DEF Agent!Lead, Agent!Follow, Agent!ServeFromCache, InductiveInvariant,
              Agent!InductiveInvariant, Agent!TypeOK
<1>6. QED
  BY <1>1, <1>3, <1>4, <1>5

WorkerSide == TypeOK /\ CallsWellFormed /\ WaitsBounded /\ BudgetsEqual

\* A dispatch opens a call for a step that has none.
LEMMA DispatchWorkerSide ==
    ASSUME InductiveInvariant, NEW s \in Steps, Dispatch(s)
    PROVE  WorkerSide'
<1> USE DispatchAssumption DEF InductiveInvariant, WorkerSide
<1>1. PICK r \in Requests :
        /\ call[r] = "unused" /\ MayDispatch(s)
        /\ call' = [call EXCEPT ![r] = "open"]
        /\ target' = [target EXCEPT ![r] = s]
        /\ wire' = wire \union {r}
        /\ pause' = [pause EXCEPT ![s] = 0]
        /\ UNCHANGED <<agent, exit, step, clock, outcome, faults>>
  BY DispatchedCall
<1>2. /\ clock[r] = 0 /\ pc[r] = "new" /\ step[s] = "queued"
      /\ \A d \in Deps[s] : step[d] = "done"
      /\ \A q \in Requests : Open(q) => target[q] # s
  BY <1>1 DEF CallsWellFormed, MayDispatch, Waiting
<1>3. TypeOK'
  BY <1>1 DEF TypeOK
<1>4. CallsWellFormed'
  BY <1>1, <1>2 DEF TypeOK, CallsWellFormed, Open, agent, RequestKey
<1>5. WaitsBounded'
  BY <1>1, <1>2 DEF TypeOK, WaitsBounded, Open, Patience, Agent!ConstantsAssumption
<1>6. BudgetsEqual'
  BY <1>1 DEF BudgetsEqual, agent, Agent!Leading
<1>7. QED
  BY <1>3, <1>4, <1>5, <1>6

\* The end of a call settles its step, if at all, while it is the only open one.
LEMMA ClosedWorkerSide ==
    ASSUME InductiveInvariant, NEW r \in Requests,
           Receive(r) \/ Refused(r) \/ GiveUp(r) \/ CallBroken(r) \/ BodyCut(r)
    PROVE  WorkerSide'
<1> USE DispatchAssumption DEF InductiveInvariant, WorkerSide
<1>1. /\ Open(r) /\ call' = [call EXCEPT ![r] = "closed"]
      /\ UNCHANGED <<agent, exit, target, clock, pause, wire>>
      /\ faults' \in {faults, faults + 1}
  BY ClosedCall
<1>2. target[r] \in Steps /\ step[target[r]] = "queued"
  BY <1>1 DEF Open, CallsWellFormed
<1>3. \E status \in {"queued", "done", "failed"} : step' = [step EXCEPT ![target[r]] = status]
  BY <1>2, ClosedCall DEF TypeOK
<1>4. outcome' \in [Steps -> Requests \union {NoRequest}]
  BY <1>2, ClosedCall DEF TypeOK, Answered
<1>5. TypeOK'
  <2>1. step' \in [Steps -> {"queued", "done", "failed"}]
    BY <1>2, <1>3 DEF TypeOK
  <2>2. call' \in [Requests -> {"unused", "open", "closed"}] /\ faults' \in Nat
    BY <1>1 DEF TypeOK
  <2>3. QED
    BY <1>1, <1>4, <2>1, <2>2 DEF TypeOK
<1>6. CallsWellFormed'
  <2>1. \A d \in Steps : step[d] = "done" => step'[d] = "done"
    BY <1>2, <1>3 DEF TypeOK
  <2>2. \A q \in Requests : /\ Open(q)' => Open(q) /\ q # r
                            /\ call'[q] = "unused" <=> call[q] = "unused"
    BY <1>1 DEF Open, TypeOK
  <2>3. \A q \in Requests : Open(q)' => step'[target'[q]] = "queued"
    <3> SUFFICES ASSUME NEW q \in Requests, Open(q)' PROVE step'[target'[q]] = "queued"
      OBVIOUS
    <3>1. target[q] # target[r] /\ step[target[q]] = "queued" /\ target[q] \in Steps
      BY <1>1, <2>2 DEF CallsWellFormed, Open
    <3>2. QED
      BY <1>1, <1>3, <3>1 DEF TypeOK
  <2>4. \A q \in Requests : call[q] # "unused" => \A d \in Deps[target[q]] : step'[d] = "done"
    BY <2>1 DEF CallsWellFormed
  <2>5. \A q, u \in Requests : Open(q)' /\ Open(u)' /\ target'[q] = target'[u] => q = u
    BY <1>1, <2>2 DEF CallsWellFormed
  <2>6. QED
    BY <1>1, <2>2, <2>3, <2>4, <2>5 DEF CallsWellFormed, agent, RequestKey
<1>7. WaitsBounded'
  BY <1>1 DEF TypeOK, WaitsBounded, Open
<1>8. BudgetsEqual'
  BY <1>1 DEF BudgetsEqual, agent, Agent!Leading
<1>9. QED
  BY <1>5, <1>6, <1>7, <1>8

\* A request delivered is off the wire and has its step's key.
LEMMA DeliverWorkerSide ==
    ASSUME InductiveInvariant, NEW r \in Requests, Deliver(r)
    PROVE  WorkerSide'
<1> USE DispatchAssumption DEF InductiveInvariant, WorkerSide
<1>1. /\ r \in wire /\ wire' = wire \ {r} /\ pc[r] = "new"
      /\ target[r] \in Steps
      /\ key' = [key EXCEPT ![r] = target[r]]
      /\ budget' \in {budget, [budget EXCEPT ![r] = MaxTimeout]}
      /\ \E stage \in {"running", "following", "answered"} : pc' = [pc EXCEPT ![r] = stage]
      /\ pc'[r] = "running" => budget' = [budget EXCEPT ![r] = MaxTimeout]
      /\ UNCHANGED <<exit, step, call, target, clock, pause, outcome, faults>>
  BY DeliveredRequest
<1>2. Agent!TypeOK
  BY DEF Agent!InductiveInvariant
<1>3. TypeOK'
  BY <1>1 DEF TypeOK
<1>4. CallsWellFormed'
  <2>1. call[r] # "unused"
    BY <1>1 DEF CallsWellFormed
  <2>2. \A q \in Requests : q # r => pc'[q] = pc[q] /\ key'[q] = key[q]
    BY <1>1, <1>2 DEF Agent!TypeOK
  <2>3. key'[r] = target[r]
    BY <1>1, <1>2 DEF Agent!TypeOK
  <2>4. QED
    BY <1>1, <2>1, <2>2, <2>3 DEF CallsWellFormed, Open, RequestKey
<1>5. WaitsBounded'
  BY <1>1 DEF WaitsBounded, Open
<1>6. BudgetsEqual'
  <2> SUFFICES ASSUME NEW q \in Requests
               PROVE  budget'[q] \in {0, MaxTimeout} /\ (Agent!Leading(q)' => budget'[q] # 0)
    BY DEF BudgetsEqual
  <2>1. CASE q # r
    BY <1>1, <1>2, <2>1 DEF BudgetsEqual, Agent!TypeOK, Agent!Leading
  <2>2. CASE q = r
    BY <1>1, <1>2, <2>2 DEF BudgetsEqual, Agent!TypeOK, Agent!Leading, Agent!ConstantsAssumption
  <2>3. QED
    BY <2>1, <2>2
<1>7. QED
  BY <1>3, <1>4, <1>5, <1>6

\* Time stops at the bounds.
LEMMA TickWorkerSide == InductiveInvariant /\ Tick => WorkerSide'
<1> SUFFICES ASSUME InductiveInvariant, Tick PROVE WorkerSide'
  OBVIOUS
<1> USE DispatchAssumption DEF InductiveInvariant, WorkerSide
<1>1. /\ \A r \in Requests : /\ Open(r) => clock[r] < Patience
                             /\ r \in wire => clock[r] < MaxDelay
      /\ \A s \in Steps : MayDispatch(s) => pause[s] < MaxPause
      /\ clock' = [r \in Requests |-> IF Timed(r) THEN clock[r] + 1 ELSE 0]
      /\ pause' = [s \in Steps |-> IF MayDispatch(s) THEN pause[s] + 1 ELSE pause[s]]
      /\ UNCHANGED <<exit, step, call, target, wire, outcome, faults>>
      /\ UNCHANGED <<pc, key, budget>>
  BY DEF Tick, Agent!Tick
<1>2. TypeOK'
  BY <1>1 DEF TypeOK
<1>3. CallsWellFormed'
  BY <1>1 DEF TypeOK, CallsWellFormed, Open, Timed, RequestKey
<1>4. WaitsBounded'
  <2>1. Patience \in Nat /\ MaxDelay \in Nat /\ MaxPause \in Nat
    BY DEF Patience, Agent!ConstantsAssumption
  <2>2. ASSUME NEW r \in Requests
        PROVE  /\ Open(r)' => clock'[r] <= Patience
               /\ r \in wire' => clock'[r] <= MaxDelay
    BY <1>1, <2>1 DEF TypeOK, Open, Timed
  <2>3. ASSUME NEW s \in Steps PROVE pause'[s] <= MaxPause
    BY <1>1, <2>1 DEF TypeOK, WaitsBounded
  <2>4. QED
    BY <2>2, <2>3 DEF WaitsBounded, Patience
<1>5. BudgetsEqual'
  BY <1>1 DEF BudgetsEqual, Agent!Leading
<1>6. QED
  BY <1>2, <1>3, <1>4, <1>5

\* Every step keeps the worker's side well formed.
LEMMA StepWorkerSide == InductiveInvariant /\ [Next]_vars => WorkerSide'
<1> SUFFICES ASSUME InductiveInvariant, [Next]_vars PROVE WorkerSide'
  OBVIOUS
<1> USE DEF InductiveInvariant
<1>1. Agent!TypeOK /\ [Agent!Next]_agent
  BY StepIsAgentStep DEF Agent!InductiveInvariant
<1>2. ASSUME \A r \in Requests : ~ Deliver(r),
             UNCHANGED <<step, call, target, clock, pause, outcome, faults>>,
             wire' \subseteq wire, exit' \in [Requests -> {"none", "ok", "failed"}]
      PROVE  WorkerSide'
  <2>1. /\ UNCHANGED <<key, budget>>
        /\ \A q \in Requests : /\ pc'[q] = "new" <=> pc[q] = "new"
                               /\ Agent!Leading(q)' => Agent!Leading(q)
    BY <1>1, <1>2, OnlyDeliverAttaches
  <2>2. TypeOK'
    BY <1>2 DEF TypeOK
  <2>3. CallsWellFormed'
    BY <1>2, <2>1 DEF CallsWellFormed, Open, RequestKey
  <2>4. WaitsBounded'
    BY <1>2 DEF WaitsBounded, Open
  <2>5. BudgetsEqual'
    BY <2>1 DEF BudgetsEqual
  <2>6. QED
    BY <2>2, <2>3, <2>4, <2>5 DEF WorkerSide
<1>3. ASSUME NEW r \in Requests,
             \/ CommandEnds(r) \/ AgentStep(r) \/ AgentDropsFollower(r)
             \/ AgentLosesLeader(r) \/ AgentSweep
      PROVE  /\ UNCHANGED <<step, call, target, clock, pause, wire, outcome, faults>>
             /\ exit' \in [Requests -> {"none", "ok", "failed"}]
  <2>1. UNCHANGED <<step, call, target, clock, pause, wire, outcome, faults>>
    BY <1>3, AgentMove
  <2>2. exit' \in [Requests -> {"none", "ok", "failed"}]
    BY <1>3 DEF CommandEnds, AgentStep, AgentDropsFollower, AgentLosesLeader, AgentSweep, TypeOK
  <2>3. QED
    BY <2>1, <2>2
<1>4. CASE AgentSweep
  <2>1. /\ UNCHANGED <<step, call, target, clock, pause, wire, outcome, faults>>
        /\ exit' \in [Requests -> {"none", "ok", "failed"}]
    BY <1>4 DEF AgentSweep, worker, TypeOK
  <2>2. \A r \in Requests : ~ Deliver(r) \/ WorkerSide'
    BY DeliverWorkerSide
  <2>3. QED
    BY <1>2, <2>1, <2>2
<1>5. CASE AgentRestart
  <2>1. /\ UNCHANGED <<step, call, target, clock, pause, outcome, faults>>
        /\ wire' = {} /\ exit' \in [Requests -> {"none", "ok", "failed"}]
    BY <1>5 DEF AgentRestart, TypeOK
  <2>2. QED
    BY <1>2, <2>1, DeliverWorkerSide
<1>6. ASSUME NEW r \in Requests, Vanish(r) PROVE WorkerSide'
  <2>1. /\ UNCHANGED <<step, call, target, clock, pause, outcome, faults>>
        /\ wire' \subseteq wire /\ exit' \in [Requests -> {"none", "ok", "failed"}]
    BY <1>6 DEF Vanish, TypeOK
  <2>2. QED
    BY <1>2, <2>1, DeliverWorkerSide
<1>7. CASE UNCHANGED vars
  <2>1. /\ UNCHANGED <<step, call, target, clock, pause, wire, outcome, faults>>
        /\ exit' \in [Requests -> {"none", "ok", "failed"}]
    BY <1>7 DEF vars, worker, TypeOK
  <2>2. QED
    BY <1>2, <2>1, DeliverWorkerSide
<1>8. ASSUME NEW r \in Requests,
             CommandEnds(r) \/ AgentStep(r) \/ AgentDropsFollower(r) \/ AgentLosesLeader(r)
      PROVE  WorkerSide'
  BY <1>2, <1>3, <1>8, DeliverWorkerSide
<1>9. QED
  BY <1>4, <1>5, <1>6, <1>7, <1>8, DispatchWorkerSide, ClosedWorkerSide,
     DeliverWorkerSide, TickWorkerSide DEF Next

\* ------------------------------------------------------- results and outcomes

\* A request with a step's key has reached the agent.
LEMMA KeyedIsNotNew ==
    ASSUME InductiveInvariant, NEW q \in Requests
    PROVE  /\ key[q] \in Steps => pc[q] # "new"
           /\ pc[q] # "new" => key[q] \in Steps /\ key[q] = target[q]
BY ZenonT(60), DispatchAssumption
   DEF InductiveInvariant, Agent!InductiveInvariant, Agent!NewUntouched, CallsWellFormed,
       RequestKey, Agent!ConstantsAssumption

\* A command that has ended stays so, with its outcome and its key.
LEMMA EndedStays ==
    ASSUME InductiveInvariant, [Next]_vars, NEW q \in Requests, Ended(q)
    PROVE  Ended(q)' /\ exit'[q] = exit[q] /\ key'[q] = key[q] /\ target'[q] = target[q]
<1> USE DEF InductiveInvariant
<1>1. Agent!TypeOK /\ [Agent!Next]_agent
  BY StepIsAgentStep DEF Agent!InductiveInvariant
<1>2. pc'[q] = "answered" /\ key'[q] = key[q]
  BY <1>1, RequestProgress DEF Ended
<1>3. exit'[q] = exit[q]
  <2>1. CASE \E r \in Requests : CommandEnds(r)
    BY <2>1 DEF CommandEnds, Agent!SubprocessEnds, Ended, TypeOK
  <2>2. CASE \E r \in Requests :
               \/ AgentStep(r) \/ AgentDropsFollower(r) \/ AgentLosesLeader(r)
               \/ Deliver(r) \/ Vanish(r)
    BY <2>2 DEF AgentStep, AgentDropsFollower, AgentLosesLeader, Deliver, Vanish
  <2>3. CASE \E r \in Requests :
               Receive(r) \/ Refused(r) \/ GiveUp(r) \/ CallBroken(r) \/ BodyCut(r)
    BY <2>3, ClosedCall
  <2>4. CASE (\E s \in Steps : Dispatch(s)) \/ AgentSweep \/ AgentRestart \/ Tick
    BY <2>4 DEF Dispatch, AgentSweep, AgentRestart, Tick
  <2>5. QED
    BY <2>1, <2>2, <2>3, <2>4 DEF Next, vars
<1>4. target'[q] = target[q]
  <2>1. CASE \E s \in Steps : Dispatch(s)
    <3>1. call[q] # "unused"
      BY DEF CallsWellFormed, Ended
    <3>2. QED
      BY <2>1, <3>1, DispatchedCall DEF TypeOK
  <2>2. CASE \E r \in Requests :
               \/ CommandEnds(r) \/ AgentStep(r) \/ AgentDropsFollower(r)
               \/ AgentLosesLeader(r) \/ Deliver(r) \/ Vanish(r)
    BY <2>2, AgentMove DEF Deliver, Vanish
  <2>3. CASE \E r \in Requests :
               Receive(r) \/ Refused(r) \/ GiveUp(r) \/ CallBroken(r) \/ BodyCut(r)
    BY <2>3, ClosedCall
  <2>4. CASE AgentSweep \/ AgentRestart \/ Tick
    BY <2>4 DEF AgentSweep, AgentRestart, Tick, worker
  <2>5. QED
    BY <2>1, <2>2, <2>3, <2>4 DEF Next, vars, worker
<1>5. QED
  BY <1>2, <1>3, <1>4 DEF Ended

ResultsKeep ==
    /\ \A q \in Requests :
         /\ pc'[q] = "ended" => exit'[q] # "none"
         /\ \/ answer'[q] = answer[q]
            \/ answer'[q] \in Requests => Ended(answer[q])' /\ key'[answer'[q]] = key'[q]
         /\ pc'[q] = "following" => \/ pc[q] = "following" /\ joined'[q] = joined[q]
                                    \/ key'[joined'[q][1]] = key'[q]
    /\ \A e \in Agent!Entries :
         \/ result'[e] \in {result[e], Agent!LeaseError}
         \/ Ended(result[e])' /\ key'[result'[e]] = key'[e[1]]
    /\ \A s \in Steps : outcome'[s] = outcome[s] \/ Ended(outcome[s])' \/ outcome'[s] = NoRequest

\* What a step must see to for results to stay with their keys.
LEMMA KeepResults ==
    ASSUME InductiveInvariant, [Next]_vars, ResultsKeep
    PROVE  ResultsOfKey'
<1> USE DEF InductiveInvariant
<1>1. Agent!TypeOK /\ [Agent!Next]_agent
  BY StepIsAgentStep DEF Agent!InductiveInvariant
<1>2. ASSUME NEW q \in Requests, key[q] \in Steps PROVE key'[q] = key[q]
  BY <1>1, <1>2, KeyedIsNotNew, RequestProgress
<1>3. ASSUME NEW q \in Requests, Ended(q) PROVE key[q] \in Steps
  BY <1>3, KeyedIsNotNew DEF Ended
<1>4. ASSUME NEW q \in Requests, answer'[q] \in Requests
      PROVE  Ended(answer[q])' /\ key'[answer'[q]] = key'[q]
  <2>1. CASE answer'[q] = answer[q]
    BY <1>2, <1>3, <1>4, <2>1, EndedStays DEF ResultsOfKey, Ended
  <2>2. CASE answer'[q] # answer[q]
    BY <1>4, <2>2 DEF ResultsKeep
  <2>3. QED
    BY <2>1, <2>2
<1>5. ASSUME NEW q \in Requests, pc'[q] = "following" PROVE key'[joined'[q][1]] = key'[q]
  <2>1. CASE pc[q] = "following" /\ joined'[q] = joined[q]
    <3>1. joined[q][1] \in Requests
      BY <2>1 DEF Agent!InductiveInvariant, Agent!EntriesUnderTheirKeys, Agent!Entries
    <3>2. key[joined[q][1]] = key[q] /\ key[q] \in Steps
      BY <2>1, KeyedIsNotNew DEF ResultsOfKey
    <3>3. QED
      BY <1>2, <2>1, <3>1, <3>2
  <2>2. QED
    BY <1>5, <2>1 DEF ResultsKeep
<1>6. ASSUME NEW e \in Agent!Entries, result'[e] \in Requests
      PROVE  Ended(result[e])' /\ key'[result'[e]] = key'[e[1]]
  <2>1. CASE result'[e] = result[e]
    <3>1. e[1] \in Requests
      BY DEF Agent!Entries
    <3>2. QED
      BY <1>2, <1>3, <1>6, <2>1, <3>1, EndedStays DEF ResultsOfKey, Ended
  <2>2. CASE result'[e] # result[e]
    BY <1>6, <2>2, DispatchAssumption DEF ResultsKeep, Agent!ConstantsAssumption
  <2>3. QED
    BY <2>1, <2>2
<1>7. ASSUME NEW s \in Steps, outcome'[s] # NoRequest PROVE Ended(outcome[s])'
  <2>1. CASE outcome'[s] = outcome[s]
    BY <1>7, <2>1, EndedStays DEF ResultsOfKey, TypeOK, Ended
  <2>2. QED
    BY <1>7, <2>1 DEF ResultsKeep
<1>8. \A q \in Requests : pc'[q] = "ended" => exit'[q] # "none"
  BY DEF ResultsKeep
<1>9. QED
  BY <1>4, <1>5, <1>6, <1>7, <1>8 DEF ResultsOfKey

\* The agent answers a request with its own outcome, or with an entry's result.
LEMMA AgentStepResults ==
    ASSUME InductiveInvariant, NEW r \in Requests, AgentStep(r)
    PROVE  ResultsKeep
<1> USE DispatchAssumption DEF InductiveInvariant, Agent!InductiveInvariant
<1>1. UNCHANGED <<exit, key, joined, outcome>> /\ pc' = [pc EXCEPT ![r] = "answered"]
  BY DEF AgentStep, worker, Agent!Resolve, Agent!ResolveEntry, Agent!ResolveSwept,
         Agent!ResolveIgnored, Agent!Respond, Agent!Forward
<1>2. /\ \A q \in Requests : pc'[q] # pc[q] => q = r /\ pc'[q] = "answered"
      /\ pc'[r] = "answered"
  BY <1>1 DEF Agent!TypeOK
<1>3. CASE Agent!Resolve(r)
  <2>1. Ended(r)' /\ pc[r] = "ended"
    BY <1>1, <1>2, <1>3
       DEF Agent!Resolve, Agent!ResolveEntry, Agent!ResolveSwept, Agent!ResolveIgnored,
           Ended, ResultsOfKey
  <2>2. answer' = [answer EXCEPT ![r] = r]
    BY <1>3 DEF Agent!Resolve, Agent!ResolveEntry, Agent!ResolveSwept,
                Agent!ResolveIgnored, Agent!Respond
  <2>3. \A e \in Agent!Entries : result'[e] = result[e] \/ (result'[e] = r /\ key[e[1]] = key[r])
    <3>1. key[r] \in Steps
      BY <2>1, KeyedIsNotNew
    <3>2. CASE Agent!ResolveEntry(r)
      BY <3>1, <3>2 DEF Agent!ResolveEntry, Agent!TypeOK, Agent!EntriesUnderTheirKeys
    <3>3. CASE Agent!ResolveSwept(r)
      <4>1. \A e : e = <<r, "resolve">> => e[1] = r
        OBVIOUS
      <4>2. QED
        BY <3>3, <4>1 DEF Agent!ResolveSwept, Agent!TypeOK
    <3>4. CASE Agent!ResolveIgnored(r)
      BY <3>4 DEF Agent!ResolveIgnored, Agent!store
    <3>5. QED
      BY <1>3, <3>2, <3>3, <3>4 DEF Agent!Resolve
  <2>4. ASSUME NEW q \in Requests, answer'[q] # answer[q] PROVE q = r /\ answer'[q] = q
    BY <2>2, <2>4 DEF Agent!TypeOK
  <2>5. ASSUME NEW e \in Agent!Entries, result'[e] # result[e]
        PROVE  Ended(result[e])' /\ key'[result'[e]] = key'[e[1]]
    BY <1>1, <2>1, <2>3, <2>5 DEF Ended
  <2>6. \A q \in Requests : answer'[q] = answer[q]
          \/ (answer'[q] \in Requests => Ended(answer[q])' /\ key'[answer'[q]] = key'[q])
    BY <2>1, <2>4 DEF Ended
  <2>7. \A e \in Agent!Entries : \/ result'[e] \in {result[e], Agent!LeaseError}
                                 \/ Ended(result[e])' /\ key'[result'[e]] = key'[e[1]]
    BY <2>5
  <2>8. QED
    BY <1>1, <1>2, <2>6, <2>7 DEF ResultsKeep, ResultsOfKey
<1>4. CASE Agent!Forward(r)
  <2>1. /\ pc[r] = "following" /\ result' = result
        /\ answer' = [answer EXCEPT ![r] = result[joined[r]]]
    BY <1>4 DEF Agent!Forward, Agent!store
  <2>2. joined[r] \in Agent!Entries
    BY <2>1 DEF Agent!EntriesUnderTheirKeys
  <2>3. \A q \in Requests : answer'[q] = answer[q] \/ (q = r /\ answer'[q] = result[joined[r]])
    BY <2>1 DEF Agent!TypeOK
  <2>4. ASSUME NEW q \in Requests, answer'[q] # answer[q], answer'[q] \in Requests
        PROVE  Ended(answer[q])' /\ key'[answer'[q]] = key'[q]
    <3>1. q = r /\ answer'[q] = result[joined[r]]
      BY <2>3, <2>4
    <3>2. Ended(answer'[q]) /\ key[answer'[q]] = key[q]
      BY <2>1, <2>2, <2>4, <3>1 DEF ResultsOfKey
    <3>3. QED
      BY <1>1, <1>2, <2>4, <3>2 DEF Ended
  <2>5. QED
    BY <1>1, <1>2, <2>1, <2>4 DEF ResultsKeep, ResultsOfKey
<1>5. QED
  BY <1>3, <1>4 DEF AgentStep

\* A request delivered is given the result of its key's entry, or follows it.
LEMMA DeliverResults ==
    ASSUME InductiveInvariant, NEW r \in Requests, Deliver(r)
    PROVE  ResultsKeep
<1> USE DispatchAssumption DEF InductiveInvariant, Agent!InductiveInvariant
<1>1. /\ pc[r] = "new" /\ target[r] \in Steps /\ key' = [key EXCEPT ![r] = target[r]]
      /\ \E stage \in {"running", "following", "answered"} : pc' = [pc EXCEPT ![r] = stage]
      /\ result' = Agent!SweptResult /\ UNCHANGED <<exit, outcome>>
  BY DeliveredRequest
<1>2. /\ \A q \in Requests : q # r => pc'[q] = pc[q] /\ key'[q] = key[q]
      /\ pc'[r] # "ended" /\ key'[r] = target[r]
  BY <1>1 DEF Agent!TypeOK
<1>3. \A e \in Agent!Entries : result'[e] \in {result[e], Agent!LeaseError}
  BY <1>1 DEF Agent!SweptResult
<1>4. \A q \in Requests : key[q] \in Steps => q # r
  BY <1>1, KeyedIsNotNew
<1>5. \/ UNCHANGED <<answer, joined>> /\ pc'[r] = "running"
      \/ /\ entry[target[r]] # Agent!NoEntry /\ UNCHANGED answer
         /\ joined' = [joined EXCEPT ![r] = entry[target[r]]]
      \/ /\ entry[target[r]] # Agent!NoEntry /\ UNCHANGED joined /\ pc'[r] = "answered"
         /\ answer' = [answer EXCEPT ![r] = result[entry[target[r]]]]
  BY <1>1 DEF Deliver, RequestKey, Agent!Lead, Agent!Follow, Agent!ServeFromCache,
              Agent!SweptEntry, Agent!TypeOK
<1>6. entry[target[r]] # Agent!NoEntry =>
        /\ entry[target[r]] \in Agent!Entries /\ entry[target[r]][1] \in Requests
        /\ key[entry[target[r]][1]] = target[r] /\ entry[target[r]][1] # r
  BY <1>1, <1>4 DEF Agent!TypeOK, Agent!EntriesUnderTheirKeys, Agent!Entries
<1>7. ASSUME NEW q \in Requests, answer'[q] # answer[q], answer'[q] \in Requests
      PROVE  Ended(answer[q])' /\ key'[answer'[q]] = key'[q]
  <2>1. q = r /\ answer'[q] = result[entry[target[r]]] /\ entry[target[r]] # Agent!NoEntry
    BY <1>5, <1>7 DEF Agent!TypeOK
  <2>2. Ended(answer'[q]) /\ key[answer'[q]] = target[r]
    BY <1>6, <1>7, <2>1 DEF ResultsOfKey
  <2>3. answer'[q] # r
    BY <1>1, <1>7, <2>2 DEF Ended
  <2>4. QED
    BY <1>1, <1>2, <1>7, <2>1, <2>2, <2>3 DEF Ended
<1>8. ASSUME NEW q \in Requests, pc'[q] = "following"
      PROVE  (pc[q] = "following" /\ joined'[q] = joined[q]) \/ key'[joined'[q][1]] = key'[q]
  <2>1. CASE q = r
    BY <1>2, <1>5, <1>6, <1>8, <2>1 DEF Agent!TypeOK
  <2>2. CASE q # r
    BY <1>2, <1>5, <1>8, <2>2 DEF Agent!TypeOK
  <2>3. QED
    BY <2>1, <2>2
<1>9. \A q \in Requests : pc'[q] = "ended" => exit'[q] # "none"
  BY <1>1, <1>2 DEF ResultsOfKey
<1>10. QED
  BY <1>1, <1>3, <1>7, <1>8, <1>9 DEF ResultsKeep

\* No step brings a result to a request or an entry of another key.
LEMMA StepResults == InductiveInvariant /\ [Next]_vars => ResultsOfKey'
<1> SUFFICES ASSUME InductiveInvariant, [Next]_vars PROVE ResultsKeep
  BY KeepResults
<1> USE DispatchAssumption DEF InductiveInvariant, Agent!InductiveInvariant
<1>1. ASSUME UNCHANGED <<pc, exit, key, answer, joined, result>>,
             \A s \in Steps : \/ outcome'[s] \in {outcome[s], NoRequest}
                              \/ Ended(outcome[s])'
      PROVE  ResultsKeep
  BY <1>1 DEF ResultsKeep, ResultsOfKey
<1>2. CASE \E s \in Steps : Dispatch(s)
  BY <1>1, <1>2, DispatchedCall DEF agent
<1>3. ASSUME NEW r \in Requests,
             Receive(r) \/ Refused(r) \/ GiveUp(r) \/ CallBroken(r) \/ BodyCut(r)
      PROVE  ResultsKeep
  <2>1. UNCHANGED <<agent, exit>>
    BY <1>3, ClosedCall
  <2>2. ASSUME NEW s \in Steps, outcome'[s] # outcome[s]
        PROVE  outcome'[s] = NoRequest \/ Ended(outcome'[s])
    <3>1. Answered(r) /\ outcome'[s] \in {answer[r], NoRequest}
      BY <1>3, <2>2, ClosedCall DEF TypeOK
    <3>2. QED
      BY <3>1 DEF Answered, ResultsOfKey
  <2>3. QED
    BY <1>1, <2>1, <2>2 DEF agent, Ended
<1>4. ASSUME NEW r \in Requests, Vanish(r) PROVE ResultsKeep
  BY <1>1, <1>4 DEF Vanish, agent
<1>5. ASSUME NEW r \in Requests, CommandEnds(r) PROVE ResultsKeep
  <2>1. /\ pc' = [pc EXCEPT ![r] = "ended"]
        /\ UNCHANGED <<key, joined, answer, result, outcome>>
        /\ \E e \in {"ok", "failed"} : exit' = [exit EXCEPT ![r] = e]
    BY <1>5 DEF CommandEnds, Agent!SubprocessEnds, Agent!store, worker
  <2>2. \A q \in Requests : /\ q # r => pc'[q] = pc[q] /\ exit'[q] = exit[q]
                            /\ q = r => pc'[q] = "ended" /\ exit'[q] # "none"
    BY <2>1 DEF Agent!TypeOK, TypeOK
  <2>3. QED
    BY <2>1, <2>2 DEF ResultsKeep, ResultsOfKey
<1>6. ASSUME NEW r \in Requests, AgentDropsFollower(r) \/ AgentLosesLeader(r)
      PROVE  ResultsKeep
  <2>1. /\ pc' = [pc EXCEPT ![r] = "failed"]
        /\ UNCHANGED <<exit, key, joined, answer, result, outcome>>
    BY <1>6 DEF AgentDropsFollower, AgentLosesLeader, Agent!Disconnect, Agent!LeaderLost,
                Agent!store, worker
  <2>2. QED
    BY <2>1 DEF ResultsKeep, ResultsOfKey, Agent!TypeOK
<1>7. CASE AgentSweep
  BY <1>7 DEF AgentSweep, Agent!Sweep, Agent!SweptResult, Agent!handlers, worker,
              ResultsKeep, ResultsOfKey
<1>8. CASE AgentRestart
  BY <1>8 DEF AgentRestart, Agent!Restart, ResultsKeep, ResultsOfKey
<1>9. CASE Tick
  BY <1>1, <1>9 DEF Tick, Agent!Tick
<1>10. CASE UNCHANGED vars
  BY <1>1, <1>10 DEF vars, agent, worker
<1>11. QED
  BY <1>2, <1>3, <1>4, <1>5, <1>6, <1>7, <1>8, <1>9, <1>10, AgentStepResults, DeliverResults
     DEF Next

\* A call settles its step with the outcome of the step's command.
LEMMA StepOutcomes == InductiveInvariant /\ [Next]_vars => OutcomeOfOwnCommand'
<1> SUFFICES ASSUME InductiveInvariant, [Next]_vars,
                    NEW s \in Steps, outcome'[s] # NoRequest
             PROVE  /\ target'[outcome'[s]] = s
                    /\ step'[s] = "done" <=> exit'[outcome'[s]] = "ok"
  BY DEF OutcomeOfOwnCommand
<1> USE DispatchAssumption DEF InductiveInvariant
<1>1. CASE UNCHANGED <<step, outcome>>
  <2>1. outcome[s] \in Requests /\ Ended(outcome[s])
    BY <1>1 DEF ResultsOfKey, TypeOK
  <2>2. QED
    BY <1>1, <2>1, EndedStays DEF OutcomeOfOwnCommand
<1>2. ASSUME NEW r \in Requests,
             Receive(r) \/ Refused(r) \/ GiveUp(r) \/ CallBroken(r) \/ BodyCut(r),
             ~ UNCHANGED <<step, outcome>>
      PROVE  /\ target'[outcome'[s]] = s
             /\ step'[s] = "done" <=> exit'[outcome'[s]] = "ok"
  <2>1. UNCHANGED <<exit, target>> /\ Answered(r) /\ target[r] \in Steps
    BY <1>2, ClosedCall DEF CallsWellFormed, Open
  <2>2. PICK status \in {"done", "failed"}, by \in {answer[r], NoRequest} :
          /\ step' = [step EXCEPT ![target[r]] = status]
          /\ outcome' = [outcome EXCEPT ![target[r]] = by]
          /\ by = NoRequest \/ (status = "done" <=> exit[by] = "ok")
    BY <1>2, ClosedCall
  <2>3. CASE s # target[r]
    BY <2>1, <2>2, <2>3 DEF OutcomeOfOwnCommand, TypeOK
  <2>4. CASE s = target[r]
    <3>1. /\ outcome'[s] = by /\ by = answer[r] /\ by \in Requests /\ step'[s] = status
          /\ status = "done" <=> exit[by] = "ok"
      BY <2>1, <2>2, <2>4 DEF TypeOK, Answered
    <3>2. key[by] = key[r] /\ pc[by] # "new" /\ pc[r] # "new"
      BY <2>1, <3>1 DEF ResultsOfKey, Ended, Answered
    <3>3. target[by] = s
      BY <2>4, <3>1, <3>2, KeyedIsNotNew
    <3>4. QED
      BY <2>1, <3>1, <3>3
  <2>5. QED
    BY <2>3, <2>4
<1>3. CASE \E r \in Requests :
             \/ CommandEnds(r) \/ AgentStep(r) \/ AgentDropsFollower(r)
             \/ AgentLosesLeader(r) \/ Deliver(r) \/ Vanish(r)
  BY <1>1, <1>3, AgentMove DEF Deliver, Vanish
<1>4. CASE (\E t \in Steps : Dispatch(t)) \/ AgentSweep \/ AgentRestart \/ Tick
  BY <1>1, <1>4 DEF Dispatch, AgentSweep, AgentRestart, Tick, worker
<1>5. CASE UNCHANGED vars
  BY <1>1, <1>5 DEF vars, worker
<1>6. QED
  BY <1>1, <1>2, <1>3, <1>4, <1>5 DEF Next

\* ------------------------------------------------- theorems of the composition

\* At the start nothing has been called.
LEMMA InitInvariant == Init => InductiveInvariant
<1> SUFFICES ASSUME Init PROVE InductiveInvariant
  OBVIOUS
<1> USE DispatchAssumption
<1>1. Agent!InductiveInvariant
  BY AgentInit DEF Init
<1>2. /\ entry = [k \in Steps |-> Agent!NoEntry]
      /\ result = [e \in Agent!Entries |-> Agent!NoResult]
      /\ pc = [r \in Requests |-> "new"]
      /\ budget = [r \in Requests |-> 0]
      /\ answer = [r \in Requests |-> Agent!NoResult]
      /\ losses = 0
  BY DEF Init, Agent!Init
<1>3. TypeOK
  BY DEF Init, TypeOK
<1>4. CallsWellFormed
  BY <1>2 DEF Init, CallsWellFormed, Open
<1>5. WaitsBounded
  BY DEF Init, WaitsBounded, Open
<1>6. BudgetsEqual
  BY <1>2 DEF BudgetsEqual, Agent!Leading
<1>7. ResultsOfKey
  BY <1>2 DEF Init, ResultsOfKey, Agent!ConstantsAssumption
<1>8. OutcomeOfOwnCommand
  BY DEF Init, OutcomeOfOwnCommand
<1>9. QED
  BY <1>1, <1>3, <1>4, <1>5, <1>6, <1>7, <1>8 DEF InductiveInvariant

\* The inductive invariant is preserved by every step.
LEMMA StepInvariant == InductiveInvariant /\ [Next]_vars => InductiveInvariant'
<1> SUFFICES ASSUME InductiveInvariant, [Next]_vars PROVE InductiveInvariant'
  OBVIOUS
<1>1. Agent!InductiveInvariant'
  BY StepIsAgentStep, AgentInvariant DEF InductiveInvariant
<1>2. TypeOK' /\ CallsWellFormed' /\ WaitsBounded' /\ BudgetsEqual'
  BY StepWorkerSide DEF WorkerSide
<1>3. ResultsOfKey' /\ OutcomeOfOwnCommand'
  BY StepResults, StepOutcomes
<1>4. QED
  BY <1>1, <1>2, <1>3 DEF InductiveInvariant

\* In every reachable state the composition's invariants hold together.
THEOREM InvariantHolds == Spec => []InductiveInvariant
  BY InitInvariant, StepInvariant, PTL DEF Spec

\* The worker's dispatch over the network drives the agent only as AgentDedup says
\* an agent may be driven: what is proved of the agent alone holds of it here.
THEOREM ImplementsAgentDedup == Spec => Agent!Spec
<1>1. Init => Agent!Init
  BY DEF Init
<1>2. InductiveInvariant /\ [Next]_vars => [Agent!Next]_(Agent!vars)
  BY StepIsAgentStep DEF InductiveInvariant, agent, Agent!vars
<1>3. QED
  BY <1>1, <1>2, InvariantHolds, PTL DEF Spec, Agent!Spec

\* However calls break and answers are late, a step is settled with the outcome of
\* its own command (dispatchStep's completeStep and failRun).
THEOREM OutcomeOfOwnCommandHolds == Spec => []OutcomeOfOwnCommand
<1>1. InductiveInvariant => OutcomeOfOwnCommand
  BY DEF InductiveInvariant
<1>2. QED
  BY <1>1, InvariantHolds, PTL

\* --------------------------------------------------- what the agent remembers

\* While the lease outlasts the timeout, a leader's entry is there, not resolved and
\* not expired.
LEMMA LeadersHold ==
    ASSUME InductiveInvariant, LeaseSuffices
    PROVE  /\ Agent!LeaderHoldsEntry
           /\ \A r \in Requests : Agent!Leading(r) =>
                ~ Agent!Expired(key[r]) /\ ~ HasResult(key[r])
<1> USE DispatchAssumption DEF InductiveInvariant, Agent!InductiveInvariant
<1>1. Agent!LeaseHasMargin
  BY DEF LeaseSuffices, BudgetsEqual, Agent!LeaseHasMargin, Agent!ConstantsAssumption
<1>2. Agent!LeaderHoldsEntry
  BY <1>1
<1>3. ASSUME NEW r \in Requests, Agent!Leading(r)
      PROVE  ~ Agent!Expired(key[r]) /\ ~ HasResult(key[r])
  <2>1. /\ ~ Agent!Resolved(key[r])
        /\ age[key[r]] <= budget[r] + Overrun /\ key[r] \in Steps
    BY <1>2, <1>3 DEF Agent!LeaderHoldsEntry, Agent!Resolved, Agent!EntriesUnderTheirKeys
  <2>2. budget[r] + Overrun <= MaxLease /\ budget[r] \in Nat /\ age[key[r]] \in Nat
    BY <1>1, <2>1 DEF Agent!LeaseHasMargin, Agent!TypeOK
  <2>3. QED
    BY <2>1, <2>2 DEF Agent!Expired, HasResult, Agent!ConstantsAssumption
<1>4. QED
  BY <1>2, <1>3

\* The commands run for a step are finitely many.
LEMMA RunsFinite ==
    ASSUME InductiveInvariant, NEW s \in Steps
    PROVE  /\ IsFiniteSet(CommandsRun(s)) /\ Cardinality(CommandsRun(s)) \in Nat
           /\ losses \in Nat
BY DispatchAssumption, FS_Subset, FS_CardinalityType
   DEF CommandsRun, InductiveInvariant, Agent!InductiveInvariant, Agent!TypeOK

\* How the history variable has counted this step.
LapsesCounted ==
    /\ lapses' \in [Steps -> Nat]
    /\ \A s \in Steps : lapses'[s] = IF s \in Lapsing THEN lapses[s] + 1 ELSE lapses[s]

\* What the lemmas below assume of the state a step begins in, and of its count.
Promised ==
    /\ InductiveInvariant /\ LeaseSuffices
    /\ lapses \in [Steps -> Nat] /\ LapsesCounted
    /\ Promises

\* Runs stay accounted for if none is added, and what answers for the step is lost
\* only at the price of a loss or a lapse.
LEMMA AccountsKept ==
    ASSUME Promised, losses' \in Nat, losses <= losses',
           \A s \in Steps :
               /\ CommandsRun(s)' = CommandsRun(s)
               /\ Answerable(s) => Answerable(s)' \/ losses < losses' \/ s \in Lapsing
    PROVE  RunsAccounted'
<1> SUFFICES ASSUME NEW s \in Steps
             PROVE  /\ Cardinality(CommandsRun(s)') <= 1 + losses' + lapses'[s]
                    /\ \/ Cardinality(CommandsRun(s)') <= losses' + lapses'[s]
                       \/ Answerable(s)'
  BY DEF RunsAccounted
<1>1. PICK n \in Nat : n = Cardinality(CommandsRun(s)) /\ n = Cardinality(CommandsRun(s)')
  BY RunsFinite DEF Promised
<1>2. n <= 1 + losses + lapses[s] /\ (n <= losses + lapses[s] \/ Answerable(s))
  BY <1>1 DEF Promised, Promises, RunsAccounted
<1>3. /\ losses \in Nat /\ lapses[s] \in Nat /\ lapses'[s] \in Nat
      /\ lapses'[s] = IF s \in Lapsing THEN lapses[s] + 1 ELSE lapses[s]
  BY RunsFinite DEF Promised, LapsesCounted
<1>4. CASE Answerable(s)'
  BY <1>1, <1>2, <1>3, <1>4
<1>5. CASE n <= losses + lapses[s]
  BY <1>1, <1>3, <1>5
<1>6. CASE losses < losses' \/ s \in Lapsing
  BY <1>1, <1>2, <1>3, <1>6
<1>7. QED
  BY <1>2, <1>4, <1>5, <1>6

\* A step that leaves the store and the handlers as they are, settles nothing that
\* was not about to be, and sends nothing for a settled step.
LEMMA UntouchedKeeps ==
    ASSUME Promised,
           UNCHANGED <<entry, result, pc, key, budget, joined, answer, losses>>,
           \A s \in Steps : Settling(s)' =>
               /\ Settling(s)
               /\ (\E q \in wire' : target'[q] = s) => \E q \in wire : target[q] = s
    PROVE  Promises'
<1>1. \A s \in Steps : /\ HasResult(s)' <=> HasResult(s)
                       /\ CommandsRun(s)' = CommandsRun(s)
                       /\ Answerable(s)' <=> Answerable(s)
                       /\ lapses'[s] = lapses[s]
  BY DEF Promised, LapsesCounted, Lapsing, HasResult, Agent!Resolved, CommandsRun,
         Answerable, Agent!Leading
<1>2. RunsAccounted'
  <2>1. losses' \in Nat /\ losses <= losses'
    BY DEF Promised, InductiveInvariant, Agent!InductiveInvariant, Agent!TypeOK
  <2>2. QED
    BY <1>1, <2>1, AccountsKept
<1>3. QuietUnlessLapsed'
  BY <1>1 DEF Promised, Promises, QuietUnlessLapsed, Agent!Leading
<1>4. QED
  BY <1>2, <1>3 DEF Promises

\* A dispatch is of a step that is not settling, and reaches no agent yet.
LEMMA DispatchKeeps ==
    ASSUME Promised, NEW k \in Steps, Dispatch(k)
    PROVE  Promises'
<1> USE DispatchAssumption DEF Promised, InductiveInvariant, Agent!InductiveInvariant
<1>1. PICK r \in Requests :
        /\ call[r] = "unused" /\ MayDispatch(k)
        /\ call' = [call EXCEPT ![r] = "open"]
        /\ target' = [target EXCEPT ![r] = k]
        /\ wire' = wire \union {r}
        /\ UNCHANGED <<agent, step>>
  BY DispatchedCall
<1>2. /\ pc[r] = "new" /\ r \notin wire /\ step[k] = "queued"
      /\ \A q \in Requests : Open(q) => target[q] # k
  BY <1>1 DEF CallsWellFormed, MayDispatch, Waiting
<1>3. /\ \A q \in Requests : q # r => target'[q] = target[q] /\ (Open(q)' <=> Open(q))
      /\ \A q \in Requests : HasAnswer(q)' <=> HasAnswer(q)
      /\ target'[r] = k /\ ~ HasAnswer(r) /\ wire \subseteq Requests
  BY <1>1, <1>2 DEF TypeOK, Open, agent, HasAnswer, Answered
<1>4. ASSUME NEW s \in Steps, Settling(s)'
      PROVE  /\ Settling(s)
             /\ (\E q \in wire' : target'[q] = s) => \E q \in wire : target[q] = s
  <2>1. Settling(s)
    BY <1>1, <1>3, <1>4 DEF Settling
  <2>2. s # k
    BY <1>2, <2>1 DEF Settling
  <2>3. QED
    BY <1>1, <1>3, <2>1, <2>2
<1>5. UNCHANGED <<entry, result, pc, key, budget, joined, answer, losses>>
  BY <1>1 DEF agent
<1>6. QED
  BY <1>4, <1>5, UntouchedKeeps

\* A call that ends settles its step only with the answer it had.
LEMMA ClosedKeeps ==
    ASSUME Promised, NEW r \in Requests,
           Receive(r) \/ Refused(r) \/ GiveUp(r) \/ CallBroken(r) \/ BodyCut(r)
    PROVE  Promises'
<1> USE DEF Promised, InductiveInvariant
<1>1. /\ Open(r) /\ call' = [call EXCEPT ![r] = "closed"]
      /\ UNCHANGED <<agent, target, wire>>
  BY ClosedCall
<1>2. PICK k \in Steps : k = target[r]
  BY <1>1 DEF Open, CallsWellFormed
<1>3. /\ step' = step \/ Answered(r)
      /\ \A s \in Steps : s # k => step'[s] = step[s]
  BY <1>2, ClosedCall DEF TypeOK
<1>4. /\ \A q \in Requests : Open(q)' => Open(q)
      /\ \A q \in Requests : HasAnswer(q)' <=> HasAnswer(q)
      /\ Answered(r) => HasAnswer(r)
  BY <1>1 DEF Open, TypeOK, agent, HasAnswer, Answered
<1>5. \A s \in Steps : Settling(s)' => Settling(s)
  BY <1>1, <1>2, <1>3, <1>4 DEF Settling
<1>6. UNCHANGED <<entry, result, pc, key, budget, joined, answer, losses>>
  BY <1>1 DEF agent
<1>7. QED
  BY <1>1, <1>5, <1>6, UntouchedKeeps

\* Time makes results old, and drops none.
LEMMA TickKeeps ==
    ASSUME Promised, Tick
    PROVE  Promises'
<1>1. /\ UNCHANGED <<step, call, target, wire>>
      /\ UNCHANGED <<entry, result, pc, key, budget, joined, answer, losses>>
  BY DEF Tick, Agent!Tick
<1>2. \A s \in Steps : Settling(s)' <=> Settling(s)
  BY <1>1 DEF Settling, Open, HasAnswer, Answered
<1>3. QED
  BY <1>1, <1>2, UntouchedKeeps

\* A step of the agent, or of the network, that runs no command and resolves no entry.
NothingGained ==
    /\ UNCHANGED <<step, call, target>> /\ wire' \subseteq wire
    /\ losses' \in Nat /\ losses <= losses'
    /\ \A s \in Steps :
         /\ CommandsRun(s)' = CommandsRun(s)
         /\ HasResult(s) => HasResult(s)' \/ losses < losses' \/ s \in Lapsing
         /\ HasResult(s) /\ (\E r \in wire' : target[r] = s) => HasResult(s)' \/ s \in Lapsing
    /\ \A r \in Requests :
         /\ Agent!Leading(r)' => Agent!Leading(r)
         /\ Agent!Leading(r) => key'[r] = key[r] /\ (Agent!Leading(r)' \/ losses < losses')
         /\ HasAnswer(r)' => \/ HasAnswer(r)
                             \/ HasResult(target[r]) /\ HasResult(target[r])'

\* Whatever is lost or dropped is accounted for, and a settled step stays quiet.
LEMMA NothingGainedKeeps ==
    ASSUME Promised, NothingGained
    PROVE  Promises'
<1>1. RunsAccounted'
  <2>1. \A s \in Steps :
          Answerable(s) => Answerable(s)' \/ losses < losses' \/ s \in Lapsing
    BY DEF NothingGained, Answerable
  <2>2. QED
    BY <2>1, AccountsKept DEF NothingGained
<1>2. QuietUnlessLapsed'
  <2> SUFFICES ASSUME NEW s \in Steps, Settling(s)', lapses'[s] = 0
               PROVE  /\ \A r \in Requests : Agent!Leading(r)' => key'[r] # s
                      /\ (\E r \in wire' : target'[r] = s) => HasResult(s)'
    BY DEF QuietUnlessLapsed
  <2>1. s \notin Lapsing /\ lapses[s] = 0
    BY DEF Promised, LapsesCounted
  <2>2. CASE Settling(s)
    <3>1. /\ \A r \in Requests : Agent!Leading(r) => key[r] # s
          /\ (\E r \in wire : target[r] = s) => HasResult(s)
      BY <2>1, <2>2 DEF Promised, Promises, QuietUnlessLapsed
    <3>2. QED
      BY <2>1, <3>1 DEF NothingGained
  <2>3. CASE HasResult(s) /\ HasResult(s)'
    <3>1. \A r \in Requests : Agent!Leading(r) => key[r] # s
      BY <2>3, LeadersHold DEF Promised
    <3>2. QED
      BY <2>3, <3>1 DEF NothingGained
  <2>4. Settling(s) \/ (HasResult(s) /\ HasResult(s)')
    <3>1. ASSUME NEW r \in Requests, Open(r)', target'[r] = s, HasAnswer(r)'
          PROVE  Settling(s) \/ (HasResult(s) /\ HasResult(s)')
      <4>1. target[r] = s /\ target'[r] = s /\ Open(r)
        BY <3>1 DEF NothingGained, Open
      <4>2. HasAnswer(r) \/ (HasResult(target[r]) /\ HasResult(target[r])')
        BY <3>1 DEF NothingGained
      <4>3. HasResult(target[r])' => HasResult(s)'
        BY <4>1 DEF HasResult, Agent!Resolved
      <4>4. QED
        BY <4>1, <4>2, <4>3 DEF Settling
    <3>2. CASE step'[s] # "queued"
      BY <3>2 DEF NothingGained, Settling
    <3>3. QED
      BY <3>1, <3>2 DEF Settling
  <2>5. QED
    BY <2>2, <2>3, <2>4
<1>3. QED
  BY <1>1, <1>2 DEF Promises

\* What a sweep leaves: an entry not expired is the same, with the same result.
LEMMA SweptStore ==
    ASSUME InductiveInvariant, NEW s \in Steps
    PROVE  /\ Agent!SweptEntry[s] = IF Agent!Expired(s) THEN Agent!NoEntry ELSE entry[s]
           /\ entry[s] # Agent!NoEntry => entry[s] \in Agent!Entries
           /\ ~ Agent!Expired(s) /\ entry[s] # Agent!NoEntry =>
                Agent!SweptResult[entry[s]] = result[entry[s]]
           /\ \A e \in Agent!Entries : Agent!SweptResult[e] \in Requests =>
                Agent!SweptResult[e] = result[e]
<1> USE DispatchAssumption DEF InductiveInvariant, Agent!InductiveInvariant
<1>1. \A k \in Steps : entry[s] # Agent!NoEntry /\ entry[k] = entry[s] => k = s
  BY DEF Agent!EntriesUnderTheirKeys
<1>2. entry[s] # Agent!NoEntry => entry[s] \in Agent!Entries
  BY DEF Agent!TypeOK
<1>3. QED
  BY <1>1, <1>2 DEF Agent!SweptEntry, Agent!SweptResult, Agent!ConstantsAssumption

\* Steps of the agent that change one request's stage gain nothing.
LEMMA HandlerGainsNothing ==
    ASSUME InductiveInvariant, NEW r \in Requests,
           \/ CommandEnds(r) \/ AgentDropsFollower(r) \/ AgentLosesLeader(r)
           \/ Agent!Forward(r) /\ UNCHANGED <<worker, exit>>
    PROVE  NothingGained
<1> USE DispatchAssumption DEF InductiveInvariant, Agent!InductiveInvariant
<1>1. /\ UNCHANGED <<step, call, target, clock, pause, wire>>
      /\ UNCHANGED <<entry, age, result, key, budget, joined>>
      /\ losses' \in {losses, losses + 1} /\ losses \in Nat
  BY DEF CommandEnds, AgentDropsFollower, AgentLosesLeader, Agent!SubprocessEnds,
         Agent!Disconnect, Agent!LeaderLost, Agent!Forward, Agent!store, worker, Agent!TypeOK
<1>2. \A s \in Steps : /\ CommandsRun(s)' = CommandsRun(s)
                       /\ HasResult(s)' <=> HasResult(s)
  BY <1>1 DEF CommandsRun, HasResult, Agent!Resolved
<1>3. \A q \in Requests : /\ Agent!Leading(q)' => Agent!Leading(q)
                          /\ Agent!Leading(q) => Agent!Leading(q)' \/ losses < losses'
                          /\ HasAnswer(q)' => HasAnswer(q)
  <2> SUFFICES ASSUME NEW q \in Requests
               PROVE  /\ Agent!Leading(q)' => Agent!Leading(q)
                      /\ Agent!Leading(q) => Agent!Leading(q)' \/ losses < losses'
                      /\ HasAnswer(q)' => HasAnswer(q)
    OBVIOUS
  <2>1. CASE CommandEnds(r)
    BY <1>1, <2>1 DEF CommandEnds, Agent!SubprocessEnds, Agent!Leading, HasAnswer,
                      Answered, Agent!TypeOK
  <2>2. CASE AgentDropsFollower(r)
    BY <1>1, <2>2 DEF AgentDropsFollower, Agent!Disconnect, Agent!Leading, HasAnswer,
                      Answered, Agent!TypeOK
  <2>3. CASE AgentLosesLeader(r)
    BY <1>1, <2>3 DEF AgentLosesLeader, Agent!LeaderLost, Agent!Leading, HasAnswer,
                      Answered, Agent!TypeOK
  <2>4. CASE Agent!Forward(r)
    <3>1. /\ pc[r] = "following" /\ pc' = [pc EXCEPT ![r] = "answered"]
          /\ answer' = [answer EXCEPT ![r] = result[joined[r]]]
      BY <2>4 DEF Agent!Forward
    <3>2. CASE q = r
      BY <1>1, <3>1, <3>2 DEF Agent!Leading, HasAnswer, Answered, Agent!TypeOK
    <3>3. CASE q # r
      BY <1>1, <3>1, <3>3 DEF Agent!Leading, HasAnswer, Answered, Agent!TypeOK
    <3>4. QED
      BY <3>2, <3>3
  <2>5. QED
    BY <2>1, <2>2, <2>3, <2>4
<1>4. QED
  BY <1>1, <1>2, <1>3 DEF NothingGained

\* A sweep drops results, each of them a lapse; a restart is a loss.
LEMMA StoreGainsNothing ==
    ASSUME InductiveInvariant, AgentSweep \/ AgentRestart
    PROVE  NothingGained
<1> USE DispatchAssumption DEF InductiveInvariant, Agent!InductiveInvariant
<1>1. /\ UNCHANGED <<step, call, target>> /\ wire' \subseteq wire
      /\ UNCHANGED <<key, budget, joined, answer>>
      /\ losses \in Nat
  BY DEF AgentSweep, AgentRestart, Agent!Sweep, Agent!Restart, Agent!handlers, worker,
         Agent!TypeOK
<1>2. \A s \in Steps : CommandsRun(s)' = CommandsRun(s)
  BY <1>1 DEF CommandsRun
<1>3. CASE AgentSweep
  <2>1. /\ entry' = Agent!SweptEntry /\ result' = Agent!SweptResult
        /\ UNCHANGED <<pc, wire, losses>>
    BY <1>3 DEF AgentSweep, Agent!Sweep, Agent!handlers, worker
  <2>2. \A s \in Steps : HasResult(s) => HasResult(s)' \/ s \in Lapsing
    BY <2>1, SweptStore DEF HasResult, Agent!Resolved, Lapsing
  <2>3. \A q \in Requests : HasAnswer(q)' => HasAnswer(q)
    BY <1>1, <2>1
       DEF HasAnswer, Answered, Agent!EntriesUnderTheirKeys, Agent!SweptResult,
           Agent!ConstantsAssumption
  <2>4. \A q \in Requests : Agent!Leading(q)' <=> Agent!Leading(q)
    BY <2>1 DEF Agent!Leading
  <2>5. QED
    BY <1>1, <1>2, <2>1, <2>2, <2>3, <2>4 DEF NothingGained
<1>4. CASE AgentRestart
  <2>1. /\ losses' = losses + 1 /\ wire' = {} /\ UNCHANGED result
        /\ pc' = [r \in Requests |->
                    IF pc[r] \in {"running", "ended", "following"} THEN "failed" ELSE pc[r]]
    BY <1>1, <1>4 DEF AgentRestart, Agent!Restart
  <2>2. losses < losses' /\ losses' \in Nat
    BY <1>1, <2>1
  <2>3. \A q \in Requests : /\ ~ Agent!Leading(q)'
                            /\ HasAnswer(q)' => HasAnswer(q)
    BY <1>1, <2>1 DEF Agent!Leading, HasAnswer, Answered
  <2>4. QED
    BY <1>1, <1>2, <2>1, <2>2, <2>3 DEF NothingGained
<1>5. QED
  BY <1>3, <1>4

\* A request lost on its way, or no step at all.
LEMMA VanishGainsNothing ==
    ASSUME InductiveInvariant, UNCHANGED vars \/ \E r \in Requests : Vanish(r)
    PROVE  NothingGained
<1>1. /\ UNCHANGED <<step, call, target, clock, pause>> /\ wire' \subseteq wire
      /\ UNCHANGED agent
  BY DEF vars, worker, Vanish
<1>2. losses \in Nat
  BY DEF InductiveInvariant, Agent!InductiveInvariant, Agent!TypeOK
<1>3. QED
  BY <1>1, <1>2 DEF NothingGained, agent, CommandsRun, HasResult, Agent!Resolved,
                    Agent!Leading, HasAnswer, Answered

\* A command's result takes the leader's place as what answers for the step.
LEMMA ResolveKeeps ==
    ASSUME Promised, NEW r \in Requests, Agent!Resolve(r), UNCHANGED <<worker, exit>>
    PROVE  Promises'
<1> USE DispatchAssumption DEF Promised, InductiveInvariant, Agent!InductiveInvariant
<1>1. pc[r] = "ended" /\ Agent!LeaderHoldsEntry
  BY LeadersHold DEF Agent!Resolve, Agent!ResolveEntry, Agent!ResolveSwept,
                     Agent!ResolveIgnored
<1>2. PICK k \in Steps :
      /\ key[r] = k /\ target[r] = k
      /\ entry[k] = <<r, "attach">> /\ result[<<r, "attach">>] = Agent!NoResult
      /\ <<r, "attach">> \in Agent!Entries /\ <<r, "attach">> # Agent!NoEntry
  <2>1. key[r] \in Steps /\ key[r] = target[r]
    BY <1>1, KeyedIsNotNew
  <2>2. entry[key[r]] = <<r, "attach">> /\ result[<<r, "attach">>] = Agent!NoResult
    BY <1>1 DEF Agent!LeaderHoldsEntry, Agent!Leading
  <2>3. <<r, "attach">> \in Agent!Entries /\ <<r, "attach">> # Agent!NoEntry
    BY DEF Agent!Entries, Agent!ConstantsAssumption
  <2>4. QED
    BY <2>1, <2>2, <2>3
<1>3. Agent!ResolveEntry(r)
  BY <1>2 DEF Agent!Resolve, Agent!ResolveSwept, Agent!ResolveIgnored, Agent!Resolved
<1>4. /\ result' = [result EXCEPT ![<<r, "attach">>] = r]
      /\ pc' = [pc EXCEPT ![r] = "answered"] /\ answer' = [answer EXCEPT ![r] = r]
      /\ UNCHANGED <<entry, key, budget, joined, losses>>
      /\ UNCHANGED <<step, call, target, wire>>
  BY <1>2, <1>3 DEF Agent!ResolveEntry, Agent!Respond, worker
<1>5. \A s \in Steps : CommandsRun(s)' = CommandsRun(s) /\ lapses'[s] = lapses[s]
  BY <1>4 DEF CommandsRun, LapsesCounted, Lapsing
<1>6. HasResult(k)' /\ \A s \in Steps : s # k => (HasResult(s)' <=> HasResult(s))
  <2>1. result'[<<r, "attach">>] = r /\ r # Agent!NoResult
    BY <1>2, <1>4 DEF Agent!TypeOK, Agent!ConstantsAssumption
  <2>2. HasResult(k)'
    BY <1>2, <1>4, <2>1 DEF HasResult, Agent!Resolved
  <2>3. ASSUME NEW s \in Steps, s # k PROVE HasResult(s)' <=> HasResult(s)
    <3>1. entry[s] # Agent!NoEntry => entry[s] \in Agent!Entries /\ entry[s] # <<r, "attach">>
      BY <1>2, <2>3 DEF Agent!TypeOK, Agent!EntriesUnderTheirKeys
    <3>2. QED
      BY <1>2, <1>4, <2>3, <3>1 DEF HasResult, Agent!Resolved, Agent!TypeOK
  <2>4. QED
    BY <2>2, <2>3
<1>7. RunsAccounted'
  <2>1. ASSUME NEW s \in Steps, Answerable(s) PROVE Answerable(s)'
    <3>1. CASE s = k
      BY <1>6, <3>1 DEF Answerable
    <3>2. CASE s # k
      <4>1. ASSUME NEW q \in Requests, Agent!Leading(q), key[q] = s
            PROVE  Agent!Leading(q)' /\ key'[q] = s
        BY <1>2, <1>4, <3>2, <4>1 DEF Agent!Leading, Agent!TypeOK
      <4>2. QED
        BY <1>6, <2>1, <3>2, <4>1 DEF Answerable
    <3>3. QED
      BY <3>1, <3>2
  <2>2. losses' \in Nat /\ losses <= losses'
    BY <1>4 DEF Agent!TypeOK
  <2>3. QED
    BY <1>5, <2>1, <2>2, AccountsKept
<1>8. \A q \in Requests : Agent!Leading(q)' => Agent!Leading(q) /\ key[q] # k
  <2> SUFFICES ASSUME NEW q \in Requests, Agent!Leading(q)'
               PROVE  Agent!Leading(q) /\ key[q] # k
    OBVIOUS
  <2>1. q # r /\ Agent!Leading(q)
    BY <1>4 DEF Agent!Leading, Agent!TypeOK
  <2>2. entry[key[q]] = <<q, "attach">>
    BY <1>1, <2>1 DEF Agent!LeaderHoldsEntry
  <2>3. QED
    BY <1>2, <2>1, <2>2
<1>9. ASSUME NEW q \in Requests, HasAnswer(q)', ~ HasAnswer(q) PROVE target[q] = k
  <2>1. CASE q = r
    BY <1>2, <2>1
  <2>2. CASE q # r
    <3>1. pc[q] = "following" /\ joined[q] = <<r, "attach">>
      BY <1>4, <1>9, <2>2 DEF HasAnswer, Answered, Agent!TypeOK, Agent!EntriesUnderTheirKeys
    <3>2. \A e : e = <<r, "attach">> => e[1] = r
      OBVIOUS
    <3>3. k = key[q]
      BY <1>2, <3>1, <3>2 DEF ResultsOfKey
    <3>4. QED
      BY <3>1, <3>3, KeyedIsNotNew
  <2>3. QED
    BY <2>1, <2>2
<1>10. QuietUnlessLapsed'
  <2>1. ASSUME NEW s \in Steps, s # k, Settling(s)', lapses'[s] = 0
        PROVE  /\ \A q \in Requests : Agent!Leading(q)' => key'[q] # s
               /\ (\E q \in wire' : target'[q] = s) => HasResult(s)'
    <3>1. Settling(s)
      BY <1>4, <1>9, <2>1 DEF Settling, Open
    <3>2. QED
      BY <1>4, <1>5, <1>6, <1>8, <2>1, <3>1 DEF Promises, QuietUnlessLapsed
  <2>2. (\A q \in Requests : Agent!Leading(q)' => key'[q] # k) /\ HasResult(k)'
    BY <1>4, <1>6, <1>8
  <2>3. QED
    BY <2>1, <2>2 DEF QuietUnlessLapsed
<1>11. QED
  BY <1>7, <1>10 DEF Promises

\* A request that finds an entry runs nothing.
LEMMA JoinGainsNothing ==
    ASSUME InductiveInvariant, NEW r \in Requests, Deliver(r),
           Agent!Follow(r, target[r]) \/ Agent!ServeFromCache(r, target[r])
    PROVE  NothingGained
<1> USE DispatchAssumption DEF InductiveInvariant, Agent!InductiveInvariant
<1>1. PICK k \in Steps : k = target[r]
  BY DeliveredRequest
<1>2. /\ r \in wire /\ wire' = wire \ {r} /\ pc[r] = "new"
      /\ key' = [key EXCEPT ![r] = k]
      /\ UNCHANGED <<exit, step, call, target, clock, pause, outcome, faults>>
  BY <1>1, DeliveredRequest
<1>3. /\ UNCHANGED <<age, budget, losses>>
      /\ entry' = Agent!SweptEntry /\ result' = Agent!SweptResult
      /\ \E stage \in {"following", "answered"} : pc' = [pc EXCEPT ![r] = stage]
      /\ Agent!SweptEntry[k] # Agent!NoEntry
  BY <1>1 DEF Agent!Follow, Agent!ServeFromCache
<1>4. \A s \in Steps : HasResult(s) => HasResult(s)' \/ s \in Lapsing
  BY <1>3, SweptStore DEF HasResult, Agent!Resolved, Lapsing
<1>5. \A s \in Steps : CommandsRun(s)' = CommandsRun(s)
  <2>1. budget[r] = 0
    BY <1>2 DEF Agent!NewUntouched
  <2>2. \A q \in Requests : q # r => key'[q] = key[q]
    BY <1>2 DEF Agent!TypeOK
  <2>3. QED
    BY <1>3, <2>1, <2>2 DEF CommandsRun
<1>6. \A q \in Requests : /\ Agent!Leading(q)' <=> Agent!Leading(q)
                          /\ Agent!Leading(q) => key'[q] = key[q]
  BY <1>2, <1>3 DEF Agent!Leading, Agent!TypeOK
<1>7. ASSUME NEW q \in Requests, HasAnswer(q)'
      PROVE  HasAnswer(q) \/ (HasResult(target[q]) /\ HasResult(target[q])')
  <2>1. CASE q # r
    <3>1. pc'[q] = pc[q] /\ joined'[q] = joined[q] /\ answer'[q] = answer[q]
      BY <1>2, <1>3, <2>1 DEF Agent!Follow, Agent!ServeFromCache, Agent!TypeOK
    <3>2. pc[q] = "following" /\ result'[joined[q]] \in Requests => result[joined[q]] \in Requests
      BY <1>3 DEF Agent!EntriesUnderTheirKeys, Agent!SweptResult, Agent!ConstantsAssumption
    <3>3. QED
      BY <1>7, <3>1, <3>2 DEF HasAnswer, Answered
  <2>2. CASE q = r
    <3>1. ~ Agent!Expired(k) /\ entry[k] # Agent!NoEntry /\ entry[k] \in Agent!Entries
      BY <1>3, SweptStore
    <3>2. result'[entry[k]] = result[entry[k]] /\ entry'[k] = entry[k]
      BY <1>3, <3>1, SweptStore
    <3>3. CASE Agent!ServeFromCache(r, target[r])
      <4>1. HasResult(k) /\ HasResult(k)'
        BY <1>1, <3>1, <3>2, <3>3 DEF Agent!ServeFromCache, HasResult, Agent!Resolved
      <4>2. target'[r] = k /\ target[r] = k
        BY <1>1, <1>2
      <4>3. QED
        BY <2>2, <4>1, <4>2 DEF HasResult, Agent!Resolved
    <3>4. CASE Agent!Follow(r, target[r])
      <4>1. pc'[r] = "following" /\ joined'[r] = entry[k] /\ ~ Agent!Resolved(k)
        BY <1>1, <3>4 DEF Agent!Follow, Agent!TypeOK
      <4>2. QED
        BY <1>7, <2>2, <3>2, <4>1
           DEF HasAnswer, Answered, Agent!Resolved, Agent!ConstantsAssumption
    <3>5. QED
      BY <3>3, <3>4
  <2>3. QED
    BY <2>1, <2>2
<1>8. losses \in Nat
  BY DEF Agent!TypeOK
<1>9. QED
  BY <1>2, <1>3, <1>4, <1>5, <1>6, <1>7, <1>8 DEF NothingGained

\* A request leads only if a loss or a lapse is due for it, and its step, if its
\* result has never lapsed, is not settled.
LEMMA LeadKeeps ==
    ASSUME Promised, NEW r \in Requests, Deliver(r), Agent!Lead(r, target[r], MaxTimeout)
    PROVE  Promises'
<1> USE DispatchAssumption DEF Promised, InductiveInvariant, Agent!InductiveInvariant
<1>1. PICK k \in Steps : k = target[r]
  BY DeliveredRequest
<1>2. /\ r \in wire /\ wire' = wire \ {r} /\ pc[r] = "new"
      /\ key' = [key EXCEPT ![r] = k]
      /\ UNCHANGED <<step, call, target>>
  BY <1>1, DeliveredRequest
<1>3. /\ UNCHANGED <<joined, answer, losses>>
      /\ Agent!SweptEntry[k] = Agent!NoEntry
      /\ entry' = [Agent!SweptEntry EXCEPT ![k] = <<r, "attach">>]
      /\ result' = Agent!SweptResult
      /\ pc' = [pc EXCEPT ![r] = "running"]
      /\ budget' = [budget EXCEPT ![r] = MaxTimeout]
  BY <1>1 DEF Agent!Lead
<1>4. \A q \in Requests : Agent!Leading(q) => key[q] # k
  <2> SUFFICES ASSUME NEW q \in Requests, Agent!Leading(q), key[q] = k PROVE FALSE
    OBVIOUS
  <2>1. entry[k] = <<q, "attach">> /\ ~ Agent!Expired(k)
    BY LeadersHold DEF Agent!LeaderHoldsEntry
  <2>2. <<q, "attach">> # Agent!NoEntry
    BY DEF Agent!NoEntry
  <2>3. QED
    BY <1>3, <2>1, <2>2, SweptStore
<1>5. entry[k] # <<r, "attach">> /\ entry'[k] = <<r, "attach">>
  <2>1. \A e : e = <<r, "attach">> => e[1] = r
    OBVIOUS
  <2>2. entry[k] = <<r, "attach">> => key[r] = k
    BY <2>1 DEF Agent!EntriesUnderTheirKeys, Agent!NoEntry
  <2>3. QED
    BY <1>2, <1>3, <2>2, KeyedIsNotNew DEF Agent!SweptEntry
<1>6. HasResult(k) => k \in Lapsing
  BY <1>3, <1>5, SweptStore DEF HasResult, Lapsing
<1>7. ASSUME NEW s \in Steps, s # k
      PROVE  HasResult(s) => HasResult(s)' \/ s \in Lapsing
  <2>1. entry'[s] = Agent!SweptEntry[s]
    BY <1>3, <1>7 DEF Agent!SweptEntry, Agent!TypeOK
  <2>2. QED
    BY <1>3, <2>1, SweptStore DEF HasResult, Agent!Resolved, Lapsing
<1>8. /\ Agent!Leading(r)' /\ key'[r] = k
      /\ \A q \in Requests : q # r => /\ Agent!Leading(q)' <=> Agent!Leading(q)
                                      /\ key'[q] = key[q] /\ budget'[q] = budget[q]
  BY <1>2, <1>3 DEF Agent!Leading, Agent!TypeOK
<1>9. \A s \in Steps : /\ lapses[s] \in Nat /\ lapses'[s] \in Nat
                       /\ lapses'[s] = IF s \in Lapsing THEN lapses[s] + 1 ELSE lapses[s]
  BY DEF LapsesCounted
<1>10. RunsAccounted'
  <2> SUFFICES ASSUME NEW s \in Steps
               PROVE  /\ Cardinality(CommandsRun(s)') <= 1 + losses + lapses'[s]
                      /\ \/ Cardinality(CommandsRun(s)') <= losses + lapses'[s]
                         \/ Answerable(s)'
    BY <1>3 DEF RunsAccounted
  <2>1. PICK n \in Nat : n = Cardinality(CommandsRun(s))
    BY RunsFinite
  <2>2. /\ n <= 1 + losses + lapses[s] /\ (n <= losses + lapses[s] \/ Answerable(s))
        /\ losses \in Nat
    BY <2>1, RunsFinite DEF Promises, RunsAccounted
  <2>3. CASE s # k
    <3>1. CommandsRun(s)' = CommandsRun(s)
      BY <1>8, <1>2, <2>3, KeyedIsNotNew DEF CommandsRun, RequestKey
    <3>2. Answerable(s) => Answerable(s)' \/ s \in Lapsing
      BY <1>2, <1>7, <1>8, <2>3 DEF Answerable, Agent!Leading
    <3>3. CASE s \in Lapsing
      BY <1>9, <2>1, <2>2, <3>1, <3>3
    <3>4. CASE s \notin Lapsing
      BY <1>9, <2>1, <2>2, <3>1, <3>2, <3>4
    <3>5. QED
      BY <3>3, <3>4
  <2>4. CASE s = k
    <3>1. Answerable(s)'
      BY <1>8, <2>4 DEF Answerable
    <3>2. n <= losses + lapses'[s]
      <4>1. n <= losses + lapses[s] \/ s \in Lapsing
        BY <1>4, <1>6, <2>2, <2>4 DEF Answerable
      <4>2. QED
        BY <1>9, <2>2, <4>1
    <3>3. CommandsRun(s)' \subseteq CommandsRun(s) \union {r}
      BY <1>8 DEF CommandsRun
    <3>4. /\ IsFiniteSet(CommandsRun(s) \union {r})
          /\ Cardinality(CommandsRun(s) \union {r}) \in {n, n + 1}
      BY <2>1, RunsFinite, FS_AddElement
    <3>5. /\ Cardinality(CommandsRun(s)') <= Cardinality(CommandsRun(s) \union {r})
          /\ Cardinality(CommandsRun(s)') \in Nat
      BY <3>3, <3>4, FS_Subset, FS_CardinalityType
    <3>6. Cardinality(CommandsRun(s)') <= n + 1
      BY <3>4, <3>5
    <3>7. QED
      BY <1>9, <2>2, <3>1, <3>2, <3>5, <3>6
  <2>5. QED
    BY <2>3, <2>4
<1>11. QuietUnlessLapsed'
  <2> SUFFICES ASSUME NEW s \in Steps, Settling(s)', lapses'[s] = 0
               PROVE  /\ \A q \in Requests : Agent!Leading(q)' => key'[q] # s
                      /\ (\E q \in wire' : target'[q] = s) => HasResult(s)'
    BY DEF QuietUnlessLapsed
  <2>1. ASSUME NEW q \in Requests, HasAnswer(q)' PROVE HasAnswer(q)
    <3>1. q # r /\ pc'[q] = pc[q]
      BY <1>3, <2>1 DEF HasAnswer, Answered, Agent!TypeOK
    <3>2. pc[q] = "following" /\ result'[joined[q]] \in Requests => result[joined[q]] \in Requests
      BY <1>3 DEF Agent!EntriesUnderTheirKeys, Agent!SweptResult, Agent!ConstantsAssumption
    <3>3. QED
      BY <1>3, <2>1, <3>1, <3>2 DEF HasAnswer, Answered
  <2>2. Settling(s)
    BY <1>2, <2>1 DEF Settling, Open
  <2>3. lapses[s] = 0 /\ s \notin Lapsing
    BY <1>9
  <2>4. /\ \A q \in Requests : Agent!Leading(q) => key[q] # s
        /\ (\E q \in wire : target[q] = s) => HasResult(s)
    BY <2>2, <2>3 DEF Promises, QuietUnlessLapsed
  <2>5. s # k
    BY <1>1, <1>2, <1>6, <2>3, <2>4
  <2>6. (\E q \in wire' : target'[q] = s) => HasResult(s)'
    BY <1>2, <1>7, <2>3, <2>4, <2>5
  <2>7. QED
    BY <1>8, <2>4, <2>5, <2>6
<1>12. QED
  BY <1>10, <1>11 DEF Promises

\* Every step of the composition keeps the promises.
LEMMA StepKeeps == Promised /\ [Next]_vars => Promises'
<1> SUFFICES ASSUME Promised, [Next]_vars PROVE Promises'
  OBVIOUS
<1> USE DEF Promised
<1>1. CASE \E s \in Steps : Dispatch(s)
  BY <1>1, DispatchKeeps
<1>2. CASE \E r \in Requests :
             Receive(r) \/ Refused(r) \/ GiveUp(r) \/ CallBroken(r) \/ BodyCut(r)
  BY <1>2, ClosedKeeps
<1>3. ASSUME NEW r \in Requests, Deliver(r) PROVE Promises'
  <2>1. \/ Agent!Lead(r, target[r], MaxTimeout) \/ Agent!Follow(r, target[r])
        \/ Agent!ServeFromCache(r, target[r])
    BY <1>3 DEF Deliver, RequestKey
  <2>2. QED
    BY <1>3, <2>1, LeadKeeps, JoinGainsNothing, NothingGainedKeeps
<1>4. ASSUME NEW r \in Requests, AgentStep(r) PROVE Promises'
  BY <1>4, ResolveKeeps, HandlerGainsNothing, NothingGainedKeeps DEF AgentStep
<1>5. CASE \E r \in Requests : CommandEnds(r) \/ AgentDropsFollower(r) \/ AgentLosesLeader(r)
  BY <1>5, HandlerGainsNothing, NothingGainedKeeps
<1>6. CASE AgentSweep \/ AgentRestart
  BY <1>6, StoreGainsNothing, NothingGainedKeeps
<1>7. CASE UNCHANGED vars \/ \E r \in Requests : Vanish(r)
  BY <1>7, VanishGainsNothing, NothingGainedKeeps
<1>8. CASE Tick
  BY <1>8, TickKeeps
<1>9. QED
  BY <1>1, <1>2, <1>3, <1>4, <1>5, <1>6, <1>7, <1>8 DEF Next

\* At the start no command has been run, and no step is settling.
LEMMA HistoryInitInvariant == HistoryInit => HistoryInvariant
<1> SUFFICES ASSUME HistoryInit PROVE HistoryInvariant
  OBVIOUS
<1>1. /\ budget = [r \in Requests |-> 0] /\ pc = [r \in Requests |-> "new"]
      /\ losses = 0 /\ lapses = [s \in Steps |-> 0]
      /\ step = [s \in Steps |-> "queued"] /\ wire = {}
      /\ call = [r \in Requests |-> "unused"]
  BY DEF HistoryInit, Init, Agent!Init
<1>2. \A s \in Steps : CommandsRun(s) = {}
  BY <1>1 DEF CommandsRun
<1>3. RunsAccounted
  BY <1>1, <1>2, FS_EmptySet DEF RunsAccounted
<1>4. QuietUnlessLapsed
  BY <1>1 DEF QuietUnlessLapsed, Agent!Leading
<1>5. QED
  BY <1>1, <1>3, <1>4 DEF HistoryInvariant, Promises

\* Every step is counted right, and keeps what was promised.
LEMMA HistoryStepInvariant ==
    InductiveInvariant /\ HistoryInvariant /\ [HistoryNext]_<<vars, lapses>>
        => HistoryInvariant'
<1> SUFFICES ASSUME InductiveInvariant, HistoryInvariant, [HistoryNext]_<<vars, lapses>>
             PROVE  HistoryInvariant'
  OBVIOUS
<1>1. lapses \in [Steps -> Nat] /\ [Next]_vars
  BY DEF HistoryInvariant, HistoryNext
<1>2. LapsesCounted
  <2>1. CASE HistoryNext
    BY <1>1, <2>1 DEF LapsesCounted, HistoryNext
  <2>2. CASE UNCHANGED <<vars, lapses>>
    BY <1>1, <2>2 DEF LapsesCounted, Lapsing, vars, agent
  <2>3. QED
    BY <2>1, <2>2
<1>3. LeaseSuffices' <=> LeaseSuffices
  BY DEF LeaseSuffices
<1>4. LeaseSuffices => Promises'
  BY <1>1, <1>2, StepKeeps DEF Promised, HistoryInvariant
<1>5. QED
  BY <1>2, <1>3, <1>4 DEF HistoryInvariant, LapsesCounted

\* What is counted changes nothing of what the composition does.
LEMMA HistoryIsOfSpec == HistorySpec => Spec
<1>1. HistoryInit => Init
  BY DEF HistoryInit
<1>2. [HistoryNext]_<<vars, lapses>> => [Next]_vars
  BY DEF HistoryNext
<1>3. QED
  BY <1>1, <1>2, PTL DEF HistorySpec, Spec

\* The history's invariant holds together with the composition's.
LEMMA HistoryInvariantHolds == HistorySpec => [](InductiveInvariant /\ HistoryInvariant)
<1>1. HistorySpec => []InductiveInvariant
  BY HistoryIsOfSpec, InvariantHolds, PTL
<1>2. QED
  BY <1>1, HistoryInitInvariant, HistoryStepInvariant, PTL DEF HistorySpec

\* A retried dispatch does not run its command again: a run after the first is paid
\* for by a lost leader, a restart, or a result dropped for its age, if the lease is
\* as long as a subprocess may take (AgentClient.invoke, dispatchStep).
THEOREM CommandRunsOncePerLossHolds == HistorySpec => []CommandRunsOncePerLoss
<1>1. HistoryInvariant => CommandRunsOncePerLoss
  BY DEF HistoryInvariant, Promises, RunsAccounted, CommandRunsOncePerLoss
<1>2. QED
  BY <1>1, HistoryInvariantHolds, PTL

\* A request delayed on its way starts no command of a step already settled, and
\* none is left running, unless the step's result was dropped for its age.
THEOREM SettledStepIsQuietHolds == HistorySpec => []SettledStepIsQuiet
<1>1. HistoryInvariant => SettledStepIsQuiet
  BY DEF HistoryInvariant, Promises, QuietUnlessLapsed, Settling, SettledStepIsQuiet,
         CommandsRun, RequestKey, Agent!Leading
<1>2. QED
  BY <1>1, HistoryInvariantHolds, PTL

===============================================================================
