------------------------------ MODULE AgentDedup ------------------------------
(***************************************************************************)
(* The exec agent's POST /invoke: the in-process deduplication store       *)
(* (agent/internal/dedup) and the handler that leads or follows on it      *)
(* (agent/internal/server/invoke.go).                                      *)
(*                                                                         *)
(* The first request for a key leads: it runs the command in a subprocess  *)
(* and resolves the key's entry.  A request for the same key meanwhile     *)
(* follows: it waits on the entry it found.  A background sweeper drops    *)
(* results after a TTL and gives up on a leader after a lease.  Attach,    *)
(* Resolve and a sweep are atomic (Store.mu), and what a follower holds is *)
(* the entry, not the key: an entry swept from the map still answers it.   *)
(*                                                                         *)
(* A subprocess may run Overrun ticks longer than its timeoutMs after its  *)
(* request attached: the deadline counts from the fork, and killing it,    *)
(* reaping it and draining its pipes take time.  A handler's own steps     *)
(* take less than a tick.                                                  *)
(***************************************************************************)
EXTENDS Naturals

CONSTANTS
    Requests,     \* POST /invoke calls, each made once
    Keys,         \* (executionId, stepId) pairs
    MaxTimeout,   \* cfg.MaxInvokeTimeout, in ticks
    Overrun,      \* how much longer than its timeout a subprocess may run
    MaxLease,     \* Store.maxLease
    Ttl,          \* Store.ttl
    MaxLosses     \* bound: leaders that never resolve, and agent restarts

NoKey == "no key"
NoEntry == <<>>
NoResult == "no result"        \* an entry not resolved, a request not answered
LeaseError == "lease error"    \* what the sweeper resolves an entry with

\* The entries ever made: by a request's Attach, or by its Resolve.
Entries == Requests \X {"attach", "resolve"}

ASSUME ConstantsAssumption ==
    /\ MaxTimeout \in Nat \ {0} /\ Overrun \in Nat
    /\ MaxLease \in Nat /\ Ttl \in Nat /\ MaxLosses \in Nat
    /\ NoKey \notin Keys
    /\ NoEntry \notin Entries
    /\ NoResult \notin Requests /\ LeaseError \notin Requests

VARIABLES
    entry,    \* Store.entries
    age,      \* age[k]: ticks since entry[k] was created, or resolved
    result,   \* result[e]: NoResult until e.done is closed
    pc,       \* where the handler of each request is
    key,      \* the key of each request
    budget,   \* a leader's timeoutMs, in ticks
    ran,      \* ticks since a leader attached, while its subprocess runs
    joined,   \* the entry a follower waits on
    answer,   \* whose result a request was answered with
    losses

store == <<entry, age, result>>
handlers == <<pc, key, budget, ran, joined, answer>>
vars == <<entry, age, result, pc, key, budget, ran, joined, answer, losses>>

Leading(r) == pc[r] \in {"running", "ended"}

\* ------------------------------------------------------------ sweepLocked

Resolved(k) == result[entry[k]] # NoResult

\* Mutant: one limit for entries of both kinds.
ExpiredByTtl(k) == entry[k] # NoEntry /\ age[k] > Ttl

\* Past its TTL when resolved, past the lease when not.
Expired(k) == entry[k] # NoEntry /\ age[k] > (IF Resolved(k) THEN Ttl ELSE MaxLease)

SweptEntry == [k \in Keys |-> IF Expired(k) THEN NoEntry ELSE entry[k]]

\* Mutant: the entry is dropped and its `done` left open.
SweptSilently == result

\* An unresolved entry is resolved with an error before it is dropped.
SweptResult ==
    [e \in Entries |->
        IF result[e] = NoResult /\ \E k \in Keys : entry[k] = e /\ Expired(k)
        THEN LeaseError ELSE result[e]]

\* The sweeper's own turn, once a second.
Sweep ==
    /\ \E k \in Keys : Expired(k)
    /\ entry' = SweptEntry
    /\ result' = SweptResult
    /\ UNCHANGED <<age, handlers, losses>>

\* ------------------------------------------------------------------ Attach

\* No entry is left for the key: the request leads, and starts the subprocess.
Lead(r, k, timeout) ==
    /\ pc[r] = "new" /\ SweptEntry[k] = NoEntry
    /\ entry' = [SweptEntry EXCEPT ![k] = <<r, "attach">>]
    /\ age' = [age EXCEPT ![k] = 0]
    /\ result' = SweptResult
    /\ pc' = [pc EXCEPT ![r] = "running"]
    /\ key' = [key EXCEPT ![r] = k]
    /\ budget' = [budget EXCEPT ![r] = timeout]
    /\ UNCHANGED <<ran, joined, answer, losses>>

\* An unresolved entry: the request follows.
Follow(r, k) ==
    /\ pc[r] = "new" /\ SweptEntry[k] # NoEntry /\ ~Resolved(k)
    /\ entry' = SweptEntry
    /\ result' = SweptResult
    /\ pc' = [pc EXCEPT ![r] = "following"]
    /\ key' = [key EXCEPT ![r] = k]
    /\ joined' = [joined EXCEPT ![r] = entry[k]]
    /\ UNCHANGED <<age, budget, ran, answer, losses>>

\* A resolved entry within its TTL: the request is answered at once.
ServeFromCache(r, k) ==
    /\ pc[r] = "new" /\ SweptEntry[k] # NoEntry /\ Resolved(k)
    /\ entry' = SweptEntry
    /\ result' = SweptResult
    /\ pc' = [pc EXCEPT ![r] = "answered"]
    /\ key' = [key EXCEPT ![r] = k]
    /\ answer' = [answer EXCEPT ![r] = result[entry[k]]]
    /\ UNCHANGED <<age, budget, ran, joined, losses>>

\* --------------------------------------------------------------- the leader

\* The subprocess exits, or is killed after its deadline.
SubprocessEnds(r) ==
    /\ pc[r] = "running"
    /\ pc' = [pc EXCEPT ![r] = "ended"]
    /\ UNCHANGED <<store, key, budget, ran, joined, answer, losses>>

\* The leader's own response, which Resolve does not change.
Respond(r) ==
    /\ pc' = [pc EXCEPT ![r] = "answered"]
    /\ answer' = [answer EXCEPT ![r] = r]
    /\ UNCHANGED <<key, budget, ran, joined, losses>>

\* Mutant: the entry leaves the map when it is resolved, its followers answered.
ResolveForgets(r) ==
    LET k == key[r] IN
    /\ pc[r] = "ended" /\ entry[k] # NoEntry
    /\ ~Resolved(k)
    /\ result' = [result EXCEPT ![entry[k]] = r]
    /\ entry' = [entry EXCEPT ![k] = NoEntry]
    /\ UNCHANGED age
    /\ Respond(r)

\* Resolve on an entry not resolved yet: whichever the key has now.
ResolveEntry(r) ==
    LET k == key[r] IN
    /\ pc[r] = "ended" /\ entry[k] # NoEntry
    /\ ~Resolved(k)
    /\ result' = [result EXCEPT ![entry[k]] = r]
    /\ age' = [age EXCEPT ![k] = 0]
    /\ UNCHANGED entry
    /\ Respond(r)

\* Resolve after the sweeper dropped the entry: a new one is made.
ResolveSwept(r) ==
    LET k == key[r] IN
    /\ pc[r] = "ended" /\ entry[k] = NoEntry
    /\ entry' = [entry EXCEPT ![k] = <<r, "resolve">>]
    /\ result' = [result EXCEPT ![<<r, "resolve">>] = r]
    /\ age' = [age EXCEPT ![k] = 0]
    /\ Respond(r)

\* Mutant: without `if e.resolved { return }`.
ResolveAgain(r) ==
    LET k == key[r] IN
    /\ pc[r] = "ended" /\ entry[k] # NoEntry
    /\ Resolved(k)
    /\ result' = [result EXCEPT ![entry[k]] = r]
    /\ age' = [age EXCEPT ![k] = 0]
    /\ UNCHANGED entry
    /\ Respond(r)

\* Resolve on an entry somebody else has resolved: dropped.
ResolveIgnored(r) ==
    /\ pc[r] = "ended" /\ entry[key[r]] # NoEntry
    /\ Resolved(key[r])
    /\ UNCHANGED store
    /\ Respond(r)

Resolve(r) == ResolveEntry(r) \/ ResolveSwept(r) \/ ResolveIgnored(r)

\* The handler's goroutine dies between its subprocess's end and Resolve (a panic,
\* which net/http recovers).
LeaderLost(r) ==
    /\ pc[r] = "ended" /\ losses < MaxLosses
    /\ losses' = losses + 1
    /\ pc' = [pc EXCEPT ![r] = "failed"]
    /\ UNCHANGED <<store, key, budget, ran, joined, answer>>

\* The agent is PID 1: with it go the store, every handler and every subprocess.
Restart ==
    /\ losses < MaxLosses
    /\ losses' = losses + 1
    /\ entry' = [k \in Keys |-> NoEntry]
    /\ pc' = [r \in Requests |->
                IF pc[r] \in {"running", "ended", "following"} THEN "failed" ELSE pc[r]]
    /\ UNCHANGED <<age, result, key, budget, ran, joined, answer>>

\* ------------------------------------------------------------- the follower

\* forward() and the handler's select: the entry it joined is resolved.
Forward(r) ==
    /\ pc[r] = "following" /\ result[joined[r]] # NoResult
    /\ pc' = [pc EXCEPT ![r] = "answered"]
    /\ answer' = [answer EXCEPT ![r] = result[joined[r]]]
    /\ UNCHANGED <<store, key, budget, ran, joined, losses>>

\* A follower's client hangs up: 503.  A leader does not notice its client's.
Disconnect(r) ==
    /\ pc[r] = "following"
    /\ pc' = [pc EXCEPT ![r] = "failed"]
    /\ UNCHANGED <<store, key, budget, ran, joined, answer, losses>>

\* -------------------------------------------------------------------- time

Limit == IF Ttl > MaxLease THEN Ttl + 1 ELSE MaxLease + 1

Tick ==
    /\ \A r \in Requests :
         pc[r] # "ended" /\ (pc[r] = "running" => ran[r] < budget[r] + Overrun)
    /\ ran' = [r \in Requests |-> IF pc[r] = "running" THEN ran[r] + 1 ELSE 0]
    /\ age' = [k \in Keys |-> IF entry[k] = NoEntry THEN 0
                             ELSE IF age[k] < Limit THEN age[k] + 1 ELSE age[k]]
    /\ UNCHANGED <<entry, result, pc, key, budget, joined, answer, losses>>

\* ----------------------------------------------------------- specification

Init ==
    /\ entry = [k \in Keys |-> NoEntry]
    /\ age = [k \in Keys |-> 0]
    /\ result = [e \in Entries |-> NoResult]
    /\ pc = [r \in Requests |-> "new"]
    /\ key = [r \in Requests |-> NoKey]
    /\ budget = [r \in Requests |-> 0]
    /\ ran = [r \in Requests |-> 0]
    /\ joined = [r \in Requests |-> NoEntry]
    /\ answer = [r \in Requests |-> NoResult]
    /\ losses = 0

Attach(r) ==
    \E k \in Keys :
        \/ \E timeout \in 1 .. MaxTimeout : Lead(r, k, timeout)
        \/ Follow(r, k) \/ ServeFromCache(r, k)

Handle(r) == SubprocessEnds(r) \/ Resolve(r) \/ Forward(r)

Next ==
    \/ \E r \in Requests : Attach(r) \/ Handle(r) \/ LeaderLost(r) \/ Disconnect(r)
    \/ Sweep \/ Restart \/ Tick

Spec == Init /\ [][Next]_vars

\* Handlers run, the sweeper's ticker fires, time passes.  Nobody has to call.
Fairness ==
    /\ \A r \in Requests : WF_vars(Handle(r))
    /\ WF_vars(Sweep) /\ WF_vars(Tick)

FairSpec == Spec /\ Fairness

\* --------------------------------------------------------------- properties

\* The lease outlasts every invocation begun so far.  The defaults do not see to
\* that: maxLease (dedup.go:28) and -max-invoke-timeout (config.go:72) are both 5
\* minutes, and the lease counts from Attach, the timeout from the fork.
LeaseHasMargin == \A r \in Requests : budget[r] + Overrun <= MaxLease

\* One command at a time per step: a retry that reaches the agent while the
\* first call's subprocess runs never starts a second one, unless some
\* invocation outlasted the lease (dedup.go:106-109, :181).
OneSubprocessPerKey ==
    LeaseHasMargin =>
        \A q, r \in Requests : q # r /\ Leading(q) /\ Leading(r) => key[q] # key[r]

\* A follower is told the outcome of the very invocation it joined, or that its
\* leader is presumed dead; never that of a later or an earlier one, as long as
\* the lease outlasts the invocations: Resolve finds its entry by the key alone
\* (dedup.go:147).
FollowersShareLeader ==
    LeaseHasMargin =>
        \A r \in Requests : pc[r] = "following" /\ result[joined[r]] \in Requests =>
            result[joined[r]] = joined[r][1]

\* An entry's `done` is closed once (closing it again panics the agent): what it
\* was resolved with stays, however late a leader that was given up resolves.
ResolvedOnce ==
    [][\A e \in Entries : result[e] # NoResult => result'[e] = result[e]]_vars

\* Nobody waits for ever: a follower is answered even if its leader is lost.
FollowersAnswered ==
    \A r \in Requests : pc[r] = "following" ~> pc[r] # "following"

\* ------------------------------------------------------ inductive invariant

Stages == {"new", "running", "ended", "following", "answered", "failed"}

\* Every variable stays within its type.
TypeOK ==
    /\ entry \in [Keys -> Entries \union {NoEntry}]
    /\ age \in [Keys -> Nat]
    /\ result \in [Entries -> Requests \union {NoResult, LeaseError}]
    /\ pc \in [Requests -> Stages]
    /\ key \in [Requests -> Keys \union {NoKey}]
    /\ budget \in [Requests -> Nat]
    /\ ran \in [Requests -> Nat]
    /\ joined \in [Requests -> Entries \union {NoEntry}]
    /\ answer \in [Requests -> Requests \union {NoResult, LeaseError}]
    /\ losses \in Nat

\* A request that has not attached has left no trace.
NewUntouched ==
    \A r \in Requests : pc[r] = "new" =>
        /\ key[r] = NoKey /\ budget[r] = 0 /\ ran[r] = 0
        /\ result[<<r, "attach">>] = NoResult

\* A leader has a key, a follower an entry, and an entry its maker's key.
EntriesUnderTheirKeys ==
    /\ \A r \in Requests :
         /\ Leading(r) => key[r] \in Keys
         /\ pc[r] = "following" => joined[r] \in Entries
    /\ \A k \in Keys : entry[k] # NoEntry => key[entry[k][1]] = k

\* An entry made by Resolve is resolved, and its request answered, from the start.
ResolveEntriesDone ==
    \A r \in Requests :
        /\ \A k \in Keys : entry[k] = <<r, "resolve">> => result[<<r, "resolve">>] # NoResult
        /\ result[<<r, "resolve">>] # NoResult => pc[r] = "answered"

\* While the lease has margin, a leader's own entry is the key's, not resolved and
\* not expired: it is as old as its subprocess.
LeaderHoldsEntry ==
    \A r \in Requests : Leading(r) =>
        /\ entry[key[r]] = <<r, "attach">>
        /\ result[<<r, "attach">>] = NoResult
        /\ age[key[r]] <= budget[r] + Overrun
        /\ pc[r] = "running" => age[key[r]] = ran[r]

\* While the lease has margin, what an entry was resolved with is its maker's.
ResultsOwn ==
    \A e \in Entries : result[e] \in Requests => result[e] = e[1]

InductiveInvariant ==
    /\ TypeOK /\ NewUntouched /\ EntriesUnderTheirKeys /\ ResolveEntriesDone
    /\ LeaseHasMargin => LeaderHoldsEntry /\ ResultsOwn

===============================================================================
