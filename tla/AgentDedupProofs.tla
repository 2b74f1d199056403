--------------------------- MODULE AgentDedupProofs ---------------------------
(***************************************************************************)
(* The safety of the agent's deduplication store for any number of         *)
(* requests and keys and for any TTL, lease and overrun: the inductive     *)
(* invariant of AgentDedup and the properties TLC checks on one key.       *)
(***************************************************************************)
EXTENDS AgentDedup, TLAPS

\* An entry is a pair, and its maker and kind can be read off it.
LEMMA EntryShape ==
    /\ \A e \in Entries : e[1] \in Requests /\ e[2] \in {"attach", "resolve"}
    /\ \A r \in Requests : <<r, "attach">> \in Entries /\ <<r, "resolve">> \in Entries
    /\ \A r \in Requests, e \in Entries :
         e = <<r, "attach">> \/ e = <<r, "resolve">> => e[1] = r /\ e # NoEntry
BY ConstantsAssumption DEF Entries

\* Initially there is no entry and no handler.
LEMMA InitInvariant == Init => InductiveInvariant
<1> USE ConstantsAssumption, EntryShape
<1> SUFFICES ASSUME Init PROVE InductiveInvariant
  OBVIOUS
<1>1. TypeOK
  BY DEF Init, TypeOK, Stages
<1>2. NewUntouched /\ EntriesUnderTheirKeys /\ ResolveEntriesDone
  BY DEF Init, NewUntouched, EntriesUnderTheirKeys, ResolveEntriesDone, Leading
<1>3. LeaderHoldsEntry /\ ResultsOwn
  BY DEF Init, LeaderHoldsEntry, ResultsOwn, Leading
<1>4. QED
  BY <1>1, <1>2, <1>3 DEF InductiveInvariant

\* Budgets only grow, so a lease that has margin after a step had it before.
LEMMA MarginWasThere ==
    ASSUME InductiveInvariant, Next
    PROVE  LeaseHasMargin' => LeaseHasMargin
<1> USE ConstantsAssumption
<1>1. ASSUME NEW r \in Requests, NEW k \in Keys, NEW timeout \in 1 .. MaxTimeout,
             Lead(r, k, timeout), LeaseHasMargin'
      PROVE  LeaseHasMargin
  <2>1. budget \in [Requests -> Nat] /\ budget[r] = 0
    BY <1>1 DEF Lead, InductiveInvariant, TypeOK, NewUntouched
  <2>2. budget' = [budget EXCEPT ![r] = timeout]
    BY <1>1 DEF Lead
  <2>3. ASSUME NEW q \in Requests PROVE budget[q] + Overrun <= MaxLease
    <3>1. budget'[q] + Overrun <= MaxLease
      BY <1>1 DEF LeaseHasMargin
    <3>2. budget[q] <= budget'[q]
      BY <2>1, <2>2
    <3>3. QED
      BY <2>1, <2>2, <3>1, <3>2
  <2>4. QED
    BY <2>3 DEF LeaseHasMargin
<1>2. CASE UNCHANGED budget
  BY <1>2 DEF LeaseHasMargin
<1>3. QED
  BY <1>1, <1>2
     DEF Next, Attach, Handle, Follow, ServeFromCache, SubprocessEnds, Resolve,
         ResolveEntry, ResolveSwept, ResolveIgnored, Respond, Forward, LeaderLost,
         Disconnect, Sweep, Restart, Tick, handlers, store

\* A key's entry was made by a request for that key.
LEMMA MakerHasKey ==
    ASSUME InductiveInvariant, NEW r \in Requests, NEW k \in Keys,
           entry[k] = <<r, "attach">> \/ entry[k] = <<r, "resolve">>
    PROVE  key[r] = k
<1>1. entry[k] \in Entries
  BY EntryShape
<1>2. entry[k][1] = r /\ entry[k] # NoEntry
  BY <1>1, EntryShape
<1>3. key[entry[k][1]] = k
  BY <1>2 DEF InductiveInvariant, EntriesUnderTheirKeys
<1>4. QED
  BY <1>2, <1>3

\* What a sweep does: it keeps or drops each entry, leaves every result there is
\* alone, and gives the lease's error to nothing but an expired entry.
LEMMA SweepKeeps ==
    ASSUME InductiveInvariant
    PROVE  /\ SweptEntry \in [Keys -> Entries \union {NoEntry}]
           /\ SweptResult \in [Entries -> Requests \union {NoResult, LeaseError}]
           /\ \A k \in Keys : SweptEntry[k] = NoEntry \/ SweptEntry[k] = entry[k]
           /\ \A e \in Entries :
                SweptResult[e] = result[e] \/
                  (/\ result[e] = NoResult /\ SweptResult[e] = LeaseError
                   /\ \E k \in Keys : entry[k] = e /\ Expired(k))
BY ConstantsAssumption
   DEF InductiveInvariant, TypeOK, SweptEntry, SweptResult

\* While the lease has margin, a sweep spares the entry of every leader.
LEMMA SweepSparesLeaders ==
    ASSUME InductiveInvariant, LeaseHasMargin, NEW r \in Requests, Leading(r)
    PROVE  /\ SweptEntry[key[r]] = <<r, "attach">>
           /\ SweptResult[<<r, "attach">>] = NoResult
<1> USE ConstantsAssumption, EntryShape
<1>1. /\ key[r] \in Keys /\ entry[key[r]] = <<r, "attach">>
      /\ result[<<r, "attach">>] = NoResult /\ age[key[r]] <= budget[r] + Overrun
  BY DEF InductiveInvariant, EntriesUnderTheirKeys, LeaderHoldsEntry
<1>2. age[key[r]] <= MaxLease
  BY <1>1 DEF LeaseHasMargin, InductiveInvariant, TypeOK
<1>3. ASSUME NEW k \in Keys, entry[k] = <<r, "attach">> PROVE k = key[r]
  BY <1>3, MakerHasKey
<1>4. ~ Expired(key[r])
  BY <1>1, <1>2 DEF Expired, Resolved, InductiveInvariant, TypeOK
<1>5. SweptEntry[key[r]] = <<r, "attach">>
  BY <1>1, <1>4 DEF SweptEntry
<1>6. SweptResult[<<r, "attach">>] = NoResult
  BY <1>1, <1>3, <1>4, SweepKeeps
<1>7. QED
  BY <1>5, <1>6

\* A sweep alone, or on behalf of a request that follows or is answered from the
\* cache, preserves the invariant.
LEMMA SweptInvariant ==
    ASSUME InductiveInvariant,
           entry' = SweptEntry, result' = SweptResult,
           UNCHANGED <<age, budget, ran, losses>>,
           \/ UNCHANGED <<pc, key, joined, answer>>
           \/ \E r \in Requests, k \in Keys :
                /\ pc[r] = "new"
                /\ key' = [key EXCEPT ![r] = k]
                /\ \/ /\ pc' = [pc EXCEPT ![r] = "following"]
                      /\ entry[k] \in Entries
                      /\ joined' = [joined EXCEPT ![r] = entry[k]]
                      /\ UNCHANGED answer
                   \/ /\ pc' = [pc EXCEPT ![r] = "answered"]
                      /\ \E e \in Entries : answer' = [answer EXCEPT ![r] = result[e]]
                      /\ UNCHANGED joined
    PROVE  InductiveInvariant'
<1> USE ConstantsAssumption, EntryShape
<1>1. TypeOK'
  <2>1. entry' \in [Keys -> Entries \union {NoEntry}]
    BY SweepKeeps
  <2>2. result' \in [Entries -> Requests \union {NoResult, LeaseError}]
    BY SweepKeeps
  <2>3. pc' \in [Requests -> Stages] /\ key' \in [Requests -> Keys \union {NoKey}]
    BY DEF InductiveInvariant, TypeOK, Stages
  <2>4. joined' \in [Requests -> Entries \union {NoEntry}]
    BY DEF InductiveInvariant, TypeOK
  <2>5. answer' \in [Requests -> Requests \union {NoResult, LeaseError}]
    BY DEF InductiveInvariant, TypeOK
  <2>6. QED
    BY <2>1, <2>2, <2>3, <2>4, <2>5 DEF InductiveInvariant, TypeOK
<1>2. \A r \in Requests :
         /\ pc[r] # "new" => pc'[r] = pc[r] /\ key'[r] = key[r] /\ joined'[r] = joined[r]
         /\ pc'[r] = "new" => pc[r] = "new" /\ key'[r] = key[r]
         /\ Leading(r)' => Leading(r)
         /\ pc[r] = "answered" => pc'[r] = "answered"
  BY DEF InductiveInvariant, TypeOK, Leading
<1>3. NewUntouched'
  <2> SUFFICES ASSUME NEW r \in Requests, pc'[r] = "new"
               PROVE  /\ key'[r] = NoKey /\ budget'[r] = 0 /\ ran'[r] = 0
                      /\ result'[<<r, "attach">>] = NoResult
    BY DEF NewUntouched
  <2>1. /\ key[r] = NoKey /\ budget[r] = 0 /\ ran[r] = 0 /\ result[<<r, "attach">>] = NoResult
        /\ key'[r] = NoKey
    BY <1>2 DEF InductiveInvariant, NewUntouched
  <2>2. \A k \in Keys : entry[k] # <<r, "attach">>
    BY <2>1, MakerHasKey
  <2>3. QED
    BY <2>1, <2>2, SweepKeeps
<1>4. EntriesUnderTheirKeys'
  <2>1. ASSUME NEW r \in Requests
        PROVE  /\ Leading(r)' => key'[r] \in Keys
               /\ pc'[r] = "following" => joined'[r] \in Entries
    <3>1. Leading(r) => pc[r] # "new"
      BY DEF Leading
    <3>2. Leading(r)' => key'[r] \in Keys
      BY <1>2, <3>1 DEF InductiveInvariant, EntriesUnderTheirKeys
    <3>3. pc'[r] = "following" => joined'[r] \in Entries
      BY DEF InductiveInvariant, TypeOK, EntriesUnderTheirKeys
    <3>4. QED
      BY <3>2, <3>3
  <2>2. ASSUME NEW k \in Keys, entry'[k] # NoEntry PROVE key'[entry'[k][1]] = k
    <3>1. entry'[k] = entry[k] /\ entry[k] \in Entries /\ key[entry[k][1]] = k
      BY <2>2, SweepKeeps DEF InductiveInvariant, TypeOK, EntriesUnderTheirKeys
    <3>2. pc[entry[k][1]] # "new"
      BY <3>1 DEF InductiveInvariant, NewUntouched
    <3>3. QED
      BY <1>2, <3>1, <3>2
  <2>3. QED
    BY <2>1, <2>2 DEF EntriesUnderTheirKeys
<1>5. ResolveEntriesDone'
  <2> SUFFICES ASSUME NEW r \in Requests
               PROVE  /\ \A k \in Keys : entry'[k] = <<r, "resolve">> =>
                            result'[<<r, "resolve">>] # NoResult
                      /\ result'[<<r, "resolve">>] # NoResult => pc'[r] = "answered"
    BY DEF ResolveEntriesDone
  <2>1. \A k \in Keys : entry[k] = <<r, "resolve">> => result[<<r, "resolve">>] # NoResult
    BY DEF InductiveInvariant, ResolveEntriesDone
  <2>2. result'[<<r, "resolve">>] = result[<<r, "resolve">>]
    BY <2>1, SweepKeeps
  <2>3. \A k \in Keys : entry'[k] = <<r, "resolve">> => entry[k] = <<r, "resolve">>
    <3>1. <<r, "resolve">> # NoEntry
      OBVIOUS
    <3>2. QED
      BY <3>1, SweepKeeps
  <2>4. result[<<r, "resolve">>] # NoResult => pc'[r] = "answered"
    BY <1>2 DEF InductiveInvariant, ResolveEntriesDone
  <2>5. QED
    BY <2>1, <2>2, <2>3, <2>4
<1>6. ASSUME LeaseHasMargin' PROVE LeaderHoldsEntry' /\ ResultsOwn'
  <2>1. LeaseHasMargin
    BY <1>6 DEF LeaseHasMargin
  <2>2. LeaderHoldsEntry /\ ResultsOwn
    BY <2>1 DEF InductiveInvariant
  <2>3. LeaderHoldsEntry'
    <3> SUFFICES ASSUME NEW r \in Requests, Leading(r)'
                 PROVE  /\ entry'[key'[r]] = <<r, "attach">>
                        /\ result'[<<r, "attach">>] = NoResult
                        /\ age'[key'[r]] <= budget'[r] + Overrun
                        /\ pc'[r] = "running" => age'[key'[r]] = ran'[r]
      BY DEF LeaderHoldsEntry
    <3>1. Leading(r) /\ key'[r] = key[r] /\ pc'[r] = pc[r]
      BY <1>2 DEF Leading
    <3>2. entry'[key'[r]] = <<r, "attach">> /\ result'[<<r, "attach">>] = NoResult
      BY <2>1, <3>1, SweepSparesLeaders
    <3>3. QED
      BY <2>2, <3>1, <3>2 DEF LeaderHoldsEntry
  <2>4. ResultsOwn'
    BY <2>2, SweepKeeps DEF ResultsOwn
  <2>5. QED
    BY <2>3, <2>4
<1>7. QED
  BY <1>1, <1>3, <1>4, <1>5, <1>6 DEF InductiveInvariant

\* A request that leads gets a fresh entry; with margin no other leader has its key.
LEMMA LeadInvariant ==
    ASSUME InductiveInvariant, NEW r \in Requests, NEW k \in Keys,
           NEW timeout \in 1 .. MaxTimeout, Lead(r, k, timeout)
    PROVE  InductiveInvariant'
<1> USE ConstantsAssumption, EntryShape
<1>1. /\ pc[r] = "new" /\ SweptEntry[k] = NoEntry
      /\ entry' = [SweptEntry EXCEPT ![k] = <<r, "attach">>]
      /\ age' = [age EXCEPT ![k] = 0]
      /\ result' = SweptResult
      /\ pc' = [pc EXCEPT ![r] = "running"]
      /\ key' = [key EXCEPT ![r] = k]
      /\ budget' = [budget EXCEPT ![r] = timeout]
      /\ UNCHANGED <<ran, joined, answer, losses>>
  BY DEF Lead
<1>2. TypeOK'
  <2>1. entry' \in [Keys -> Entries \union {NoEntry}]
    BY <1>1, SweepKeeps
  <2>2. result' \in [Entries -> Requests \union {NoResult, LeaseError}]
    BY <1>1, SweepKeeps
  <2>3. budget' \in [Requests -> Nat] /\ age' \in [Keys -> Nat]
    BY <1>1 DEF InductiveInvariant, TypeOK
  <2>4. pc' \in [Requests -> Stages] /\ key' \in [Requests -> Keys \union {NoKey}]
    BY <1>1 DEF InductiveInvariant, TypeOK, Stages
  <2>5. QED
    BY <1>1, <2>1, <2>2, <2>3, <2>4 DEF InductiveInvariant, TypeOK
<1>3. /\ key[r] = NoKey /\ budget[r] = 0 /\ ran[r] = 0 /\ result[<<r, "attach">>] = NoResult
      /\ \A l \in Keys : entry[l] # NoEntry => entry[l][1] # r
      /\ \A l \in Keys : entry[l] # <<r, "attach">>
  <2>1. key[r] = NoKey /\ budget[r] = 0 /\ ran[r] = 0 /\ result[<<r, "attach">>] = NoResult
    BY <1>1 DEF InductiveInvariant, NewUntouched
  <2>2. \A l \in Keys : entry[l] # NoEntry => entry[l][1] # r
    BY <2>1 DEF InductiveInvariant, EntriesUnderTheirKeys
  <2>3. \A l \in Keys : entry[l] # <<r, "attach">>
    BY <2>1, MakerHasKey
  <2>4. QED
    BY <2>1, <2>2, <2>3
<1>4. NewUntouched'
  <2> SUFFICES ASSUME NEW q \in Requests, q # r, pc[q] = "new"
               PROVE  /\ key'[q] = NoKey /\ budget'[q] = 0 /\ ran'[q] = 0
                      /\ result'[<<q, "attach">>] = NoResult
    BY <1>1 DEF InductiveInvariant, TypeOK, NewUntouched
  <2>1. key[q] = NoKey /\ budget[q] = 0 /\ ran[q] = 0 /\ result[<<q, "attach">>] = NoResult
    BY DEF InductiveInvariant, NewUntouched
  <2>2. \A l \in Keys : entry[l] # <<q, "attach">>
    BY <2>1, MakerHasKey
  <2>3. result'[<<q, "attach">>] = NoResult
    BY <1>1, <2>1, <2>2, SweepKeeps
  <2>4. QED
    BY <1>1, <2>1, <2>3 DEF InductiveInvariant, TypeOK
<1>5. EntriesUnderTheirKeys'
  <2>1. ASSUME NEW q \in Requests
        PROVE  /\ Leading(q)' => key'[q] \in Keys
               /\ pc'[q] = "following" => joined'[q] \in Entries
    BY <1>1 DEF InductiveInvariant, TypeOK, EntriesUnderTheirKeys, Leading
  <2>2. ASSUME NEW l \in Keys, entry'[l] # NoEntry PROVE key'[entry'[l][1]] = l
    <3>1. CASE l = k
      BY <1>1, <3>1, SweepKeeps DEF InductiveInvariant, TypeOK
    <3>2. CASE l # k
      <4>1. entry'[l] = entry[l] /\ entry[l] \in Entries
        BY <1>1, <2>2, <3>2, SweepKeeps DEF InductiveInvariant, TypeOK
      <4>2. key[entry[l][1]] = l /\ entry[l][1] # r
        BY <1>3, <2>2, <4>1 DEF InductiveInvariant, EntriesUnderTheirKeys
      <4>3. QED
        BY <1>1, <4>1, <4>2 DEF InductiveInvariant, TypeOK
    <3>3. QED
      BY <3>1, <3>2
  <2>3. QED
    BY <2>1, <2>2 DEF EntriesUnderTheirKeys
<1>6. ResolveEntriesDone'
  <2> SUFFICES ASSUME NEW q \in Requests
               PROVE  /\ \A l \in Keys : entry'[l] = <<q, "resolve">> =>
                            result'[<<q, "resolve">>] # NoResult
                      /\ result'[<<q, "resolve">>] # NoResult => pc'[q] = "answered"
    BY DEF ResolveEntriesDone
  <2>1. /\ \A l \in Keys : entry[l] = <<q, "resolve">> => result[<<q, "resolve">>] # NoResult
        /\ result[<<q, "resolve">>] # NoResult => pc[q] = "answered"
    BY DEF InductiveInvariant, ResolveEntriesDone
  <2>2. result'[<<q, "resolve">>] = result[<<q, "resolve">>]
    BY ZenonT(60), <1>1, <2>1, SweepKeeps
  <2>3. pc[q] = "answered" => pc'[q] = "answered"
    BY <1>1 DEF InductiveInvariant, TypeOK
  <2>4. \A l \in Keys : entry'[l] = <<q, "resolve">> => entry[l] = <<q, "resolve">>
    BY <1>1, SweepKeeps
  <2>5. QED
    BY <2>1, <2>2, <2>3, <2>4
<1>7. ASSUME LeaseHasMargin' PROVE LeaderHoldsEntry' /\ ResultsOwn'
  <2>1. LeaseHasMargin
    BY <1>7, MarginWasThere DEF Next, Attach
  <2>2. LeaderHoldsEntry /\ ResultsOwn
    BY <2>1 DEF InductiveInvariant
  <2>3. ASSUME NEW q \in Requests, Leading(q)'
        PROVE  /\ entry'[key'[q]] = <<q, "attach">>
               /\ result'[<<q, "attach">>] = NoResult
               /\ age'[key'[q]] <= budget'[q] + Overrun
               /\ pc'[q] = "running" => age'[key'[q]] = ran'[q]
    <3>1. CASE q = r
      <4>1. result'[<<r, "attach">>] = NoResult
        BY <1>1, <1>3, SweepKeeps
      <4>2. /\ key'[r] = k /\ budget'[r] \in Nat /\ ran'[r] = 0
            /\ age'[k] = 0 /\ entry'[k] = <<r, "attach">>
        BY <1>1, <1>3, SweepKeeps DEF InductiveInvariant, TypeOK
      <4>3. QED
        BY <3>1, <4>1, <4>2
    <3>2. CASE q # r
      <4>1. Leading(q) /\ key'[q] = key[q] /\ pc'[q] = pc[q] /\ budget'[q] = budget[q]
        BY <1>1, <2>3, <3>2 DEF InductiveInvariant, TypeOK, Leading
      <4>2. SweptEntry[key[q]] = <<q, "attach">> /\ SweptResult[<<q, "attach">>] = NoResult
        BY <2>1, <4>1, SweepSparesLeaders
      <4>3. key[q] # k /\ key[q] \in Keys
        BY ZenonT(60), <1>1, <4>1, <4>2 DEF InductiveInvariant, EntriesUnderTheirKeys
      <4>4. entry'[key[q]] = <<q, "attach">> /\ age'[key[q]] = age[key[q]]
        BY <1>1, <4>2, <4>3, SweepKeeps DEF InductiveInvariant, TypeOK
      <4>5. QED
        BY <1>1, <2>2, <4>1, <4>2, <4>4 DEF LeaderHoldsEntry
    <3>3. QED
      BY <3>1, <3>2
  <2>4. LeaderHoldsEntry'
    BY <2>3 DEF LeaderHoldsEntry
  <2>5. ResultsOwn'
    BY <1>1, <2>2, SweepKeeps DEF ResultsOwn
  <2>6. QED
    BY <2>4, <2>5
<1>8. QED
  BY <1>2, <1>4, <1>5, <1>6, <1>7 DEF InductiveInvariant

\* A handler that only changes its stage, its answer or its losses preserves the
\* invariant: its subprocess ends, it answers, or it is lost.
LEMMA HandlerMovesInvariant ==
    ASSUME InductiveInvariant, NEW r \in Requests,
           UNCHANGED <<store, key, budget, ran, joined>>, losses' \in Nat,
           pc[r] # "new", pc[r] # "answered",
           \/ pc[r] = "running" /\ pc' = [pc EXCEPT ![r] = "ended"]
           \/ pc' = [pc EXCEPT ![r] = "answered"]
           \/ pc' = [pc EXCEPT ![r] = "failed"],
           answer' \in [Requests -> Requests \union {NoResult, LeaseError}]
    PROVE  InductiveInvariant'
<1> USE ConstantsAssumption, EntryShape DEF store
<1>1. TypeOK'
  BY DEF InductiveInvariant, TypeOK, Stages
<1>2. NewUntouched'
  BY DEF InductiveInvariant, TypeOK, NewUntouched
<1>3. EntriesUnderTheirKeys'
  BY DEF InductiveInvariant, TypeOK, EntriesUnderTheirKeys, Leading
<1>4. ResolveEntriesDone'
  BY DEF InductiveInvariant, TypeOK, ResolveEntriesDone
<1>5. ASSUME LeaseHasMargin' PROVE LeaderHoldsEntry' /\ ResultsOwn'
  BY <1>5
     DEF InductiveInvariant, TypeOK, LeaseHasMargin, LeaderHoldsEntry, ResultsOwn, Leading
<1>6. QED
  BY <1>1, <1>2, <1>3, <1>4, <1>5 DEF InductiveInvariant

\* Resolving the entry the key has now, whoever made it, preserves the invariant;
\* with margin it is the leader's own.
LEMMA ResolveEntryInvariant ==
    ASSUME InductiveInvariant, NEW r \in Requests, ResolveEntry(r)
    PROVE  InductiveInvariant'
<1> USE ConstantsAssumption, EntryShape
<1> DEFINE k == key[r]
           e == entry[k]
<1>1. /\ pc[r] = "ended" /\ e # NoEntry /\ result[e] = NoResult
      /\ result' = [result EXCEPT ![e] = r]
      /\ age' = [age EXCEPT ![k] = 0]
      /\ pc' = [pc EXCEPT ![r] = "answered"]
      /\ answer' = [answer EXCEPT ![r] = r]
      /\ UNCHANGED <<entry, key, budget, ran, joined, losses>>
  BY DEF ResolveEntry, Respond, Resolved
<1>2. k \in Keys /\ e \in Entries /\ key[e[1]] = k
  BY <1>1 DEF InductiveInvariant, TypeOK, EntriesUnderTheirKeys, Leading
<1>3. pc[e[1]] # "new"
  BY <1>2 DEF InductiveInvariant, NewUntouched
<1>4. \A q \in Requests : e # <<q, "resolve">>
  BY <1>1, <1>2 DEF InductiveInvariant, ResolveEntriesDone
<1>5. \A q \in Requests : e = <<q, "attach">> => pc[q] # "new"
  BY <1>2, <1>3
<1> HIDE DEF e
<1>6. TypeOK'
  BY <1>1, <1>2 DEF InductiveInvariant, TypeOK, Stages
<1>7. NewUntouched'
  BY <1>1, <1>2, <1>5 DEF InductiveInvariant, TypeOK, NewUntouched
<1>8. EntriesUnderTheirKeys'
  BY <1>1 DEF InductiveInvariant, TypeOK, EntriesUnderTheirKeys, Leading
<1>9. ResolveEntriesDone'
  BY <1>1, <1>2, <1>4 DEF InductiveInvariant, TypeOK, ResolveEntriesDone
<1>10. ASSUME LeaseHasMargin' PROVE LeaderHoldsEntry' /\ ResultsOwn'
  <2>1. LeaseHasMargin /\ LeaderHoldsEntry /\ ResultsOwn
    BY <1>1, <1>10 DEF LeaseHasMargin, InductiveInvariant
  <2>2. e = <<r, "attach">>
    BY <1>1, <2>1 DEF LeaderHoldsEntry, Leading, e
  <2>3. ASSUME NEW q \in Requests, Leading(q)'
        PROVE  /\ entry'[key'[q]] = <<q, "attach">>
               /\ result'[<<q, "attach">>] = NoResult
               /\ age'[key'[q]] <= budget'[q] + Overrun
               /\ pc'[q] = "running" => age'[key'[q]] = ran'[q]
    <3>1. q # r /\ Leading(q) /\ pc'[q] = pc[q]
      BY <1>1, <2>3 DEF InductiveInvariant, TypeOK, Leading
    <3>2. /\ entry[key[q]] = <<q, "attach">> /\ result[<<q, "attach">>] = NoResult
          /\ age[key[q]] <= budget[q] + Overrun
          /\ pc[q] = "running" => age[key[q]] = ran[q]
      BY <2>1, <3>1 DEF LeaderHoldsEntry
    <3>3. <<q, "attach">> # e
      BY <2>2, <3>1
    <3>4. key[q] # k /\ key[q] \in Keys
      BY <3>1, <3>2, <3>3 DEF e, InductiveInvariant, EntriesUnderTheirKeys
    <3>5. QED
      BY <1>1, <1>2, <3>1, <3>2, <3>3, <3>4 DEF InductiveInvariant, TypeOK
  <2>4. LeaderHoldsEntry'
    BY <2>3 DEF LeaderHoldsEntry
  <2>5. ResultsOwn'
    BY <1>1, <1>2, <2>1, <2>2 DEF ResultsOwn, InductiveInvariant, TypeOK
  <2>6. QED
    BY <2>4, <2>5
<1>11. QED
  BY <1>6, <1>7, <1>8, <1>9, <1>10 DEF InductiveInvariant

\* Resolving after the sweeper dropped the entry makes a resolved one; that cannot
\* happen while the lease has margin.
LEMMA ResolveSweptInvariant ==
    ASSUME InductiveInvariant, NEW r \in Requests, ResolveSwept(r)
    PROVE  InductiveInvariant'
<1> USE ConstantsAssumption, EntryShape
<1> DEFINE k == key[r]
           e == <<r, "resolve">>
<1>1. /\ pc[r] = "ended" /\ entry[k] = NoEntry
      /\ entry' = [entry EXCEPT ![k] = e]
      /\ result' = [result EXCEPT ![e] = r]
      /\ age' = [age EXCEPT ![k] = 0]
      /\ pc' = [pc EXCEPT ![r] = "answered"]
      /\ answer' = [answer EXCEPT ![r] = r]
      /\ UNCHANGED <<key, budget, ran, joined, losses>>
  BY DEF ResolveSwept, Respond
<1>2. k \in Keys /\ e \in Entries /\ e[1] = r
  BY <1>1 DEF InductiveInvariant, EntriesUnderTheirKeys, Leading
<1>3. \A q \in Requests : <<q, "attach">> # e
  OBVIOUS
<1>4. \A q \in Requests : q # r => <<q, "resolve">> # e
  OBVIOUS
<1> HIDE DEF e
<1>5. TypeOK'
  BY <1>1, <1>2 DEF InductiveInvariant, TypeOK, Stages
<1>6. NewUntouched'
  BY <1>1, <1>2, <1>3 DEF InductiveInvariant, TypeOK, NewUntouched
<1>7. EntriesUnderTheirKeys'
  BY <1>1, <1>2 DEF InductiveInvariant, TypeOK, EntriesUnderTheirKeys, Leading
<1>8. ResolveEntriesDone'
  <2> SUFFICES ASSUME NEW q \in Requests
               PROVE  /\ \A l \in Keys : entry'[l] = <<q, "resolve">> =>
                            result'[<<q, "resolve">>] # NoResult
                      /\ result'[<<q, "resolve">>] # NoResult => pc'[q] = "answered"
    BY DEF ResolveEntriesDone
  <2>1. CASE q = r
    BY <1>1, <1>2, <2>1 DEF InductiveInvariant, TypeOK, e
  <2>2. CASE q # r
    <3>1. \A l \in Keys : entry'[l] = <<q, "resolve">> => entry[l] = <<q, "resolve">>
      BY <1>1, <1>2, <1>4, <2>2 DEF InductiveInvariant, TypeOK
    <3>2. result'[<<q, "resolve">>] = result[<<q, "resolve">>] /\ pc'[q] = pc[q]
      BY <1>1, <1>2, <1>4, <2>2 DEF InductiveInvariant, TypeOK
    <3>3. QED
      BY <3>1, <3>2 DEF InductiveInvariant, ResolveEntriesDone
  <2>3. QED
    BY <2>1, <2>2
<1>9. ~ LeaseHasMargin'
  <2> SUFFICES ASSUME LeaseHasMargin' PROVE FALSE
    OBVIOUS
  <2>1. LeaderHoldsEntry
    BY <1>1 DEF LeaseHasMargin, InductiveInvariant
  <2>2. entry[k] = <<r, "attach">>
    BY <1>1, <2>1 DEF LeaderHoldsEntry, Leading
  <2>3. QED
    BY <1>1, <2>2
<1>10. QED
  BY <1>5, <1>6, <1>7, <1>8, <1>9 DEF InductiveInvariant

\* A restart empties the store and leaves no leader and no follower.
LEMMA RestartInvariant == InductiveInvariant /\ Restart => InductiveInvariant'
<1> SUFFICES ASSUME InductiveInvariant, Restart PROVE InductiveInvariant'
  OBVIOUS
<1> USE ConstantsAssumption, EntryShape DEF Restart
<1>1. TypeOK'
  BY DEF InductiveInvariant, TypeOK, Stages
<1>2. \A r \in Requests : ~ Leading(r)' /\ pc'[r] # "following"
  BY DEF Leading
<1>3. NewUntouched' /\ EntriesUnderTheirKeys'
  BY <1>2 DEF InductiveInvariant, NewUntouched, EntriesUnderTheirKeys
<1>4. ResolveEntriesDone'
  BY DEF InductiveInvariant, ResolveEntriesDone
<1>5. LeaseHasMargin' => LeaderHoldsEntry' /\ ResultsOwn'
  BY <1>2 DEF InductiveInvariant, LeaseHasMargin, LeaderHoldsEntry, ResultsOwn
<1>6. QED
  BY <1>1, <1>3, <1>4, <1>5 DEF InductiveInvariant

\* Time passes only while every subprocess has time left: with margin a leader's
\* entry is never older than its subprocess may get.
LEMMA TickInvariant == InductiveInvariant /\ Tick => InductiveInvariant'
<1> SUFFICES ASSUME InductiveInvariant, Tick PROVE InductiveInvariant'
  OBVIOUS
<1> USE ConstantsAssumption, EntryShape
<1>1. /\ \A r \in Requests :
           pc[r] # "ended" /\ (pc[r] = "running" => ran[r] < budget[r] + Overrun)
      /\ ran' = [r \in Requests |-> IF pc[r] = "running" THEN ran[r] + 1 ELSE 0]
      /\ age' = [k \in Keys |-> IF entry[k] = NoEntry THEN 0
                               ELSE IF age[k] < Limit THEN age[k] + 1 ELSE age[k]]
      /\ UNCHANGED <<entry, result, pc, key, budget, joined, answer, losses>>
  BY DEF Tick
<1>2. Limit \in Nat /\ Limit > MaxLease
  BY DEF Limit
<1>3. TypeOK'
  BY <1>1, <1>2 DEF InductiveInvariant, TypeOK
<1>4. NewUntouched' /\ EntriesUnderTheirKeys' /\ ResolveEntriesDone'
  BY <1>1 DEF InductiveInvariant, NewUntouched, EntriesUnderTheirKeys, ResolveEntriesDone, Leading
<1>5. ASSUME LeaseHasMargin' PROVE LeaderHoldsEntry' /\ ResultsOwn'
  <2>1. LeaseHasMargin /\ LeaderHoldsEntry /\ ResultsOwn
    BY <1>1, <1>5 DEF LeaseHasMargin, InductiveInvariant
  <2>2. ASSUME NEW r \in Requests, Leading(r)'
        PROVE  /\ entry'[key'[r]] = <<r, "attach">>
               /\ result'[<<r, "attach">>] = NoResult
               /\ age'[key'[r]] <= budget'[r] + Overrun
               /\ pc'[r] = "running" => age'[key'[r]] = ran'[r]
    <3>1. pc[r] = "running" /\ Leading(r) /\ key[r] \in Keys
      BY <1>1, <2>2 DEF Leading, InductiveInvariant, EntriesUnderTheirKeys
    <3>2. /\ entry[key[r]] = <<r, "attach">> /\ result[<<r, "attach">>] = NoResult
          /\ age[key[r]] = ran[r]
      BY <2>1, <3>1 DEF LeaderHoldsEntry
    <3>3. ran[r] \in Nat /\ ran[r] < budget[r] + Overrun /\ budget[r] + Overrun <= MaxLease
          /\ budget[r] \in Nat
      BY <1>1, <2>1, <3>1 DEF LeaseHasMargin, InductiveInvariant, TypeOK
    <3>4. age'[key[r]] = ran[r] + 1
      <4>1. <<r, "attach">> # NoEntry
        BY EntryShape
      <4>2. age[key[r]] < Limit
        BY <1>2, <3>2, <3>3
      <4>3. QED
        BY <1>1, <3>1, <3>2, <4>1, <4>2
    <3>5. ran'[r] = ran[r] + 1
      BY <1>1, <3>1
    <3>6. QED
      BY <1>1, <3>2, <3>3, <3>4, <3>5
  <2>3. QED
    BY <1>1, <2>1, <2>2 DEF LeaderHoldsEntry, ResultsOwn
<1>6. QED
  BY <1>3, <1>4, <1>5 DEF InductiveInvariant

\* Every step of every request, of the sweeper and of time preserves the invariant.
LEMMA StepInvariant == InductiveInvariant /\ [Next]_vars => InductiveInvariant'
<1> SUFFICES ASSUME InductiveInvariant, [Next]_vars PROVE InductiveInvariant'
  OBVIOUS
<1> USE ConstantsAssumption
<1>1. ASSUME NEW r \in Requests, Attach(r) PROVE InductiveInvariant'
  <2>1. PICK k \in Keys : \/ \E timeout \in 1 .. MaxTimeout : Lead(r, k, timeout)
                          \/ Follow(r, k) \/ ServeFromCache(r, k)
    BY <1>1 DEF Attach
  <2>2. SweptEntry[k] # NoEntry => entry[k] \in Entries
    BY SweepKeeps DEF InductiveInvariant, TypeOK
  <2>3. CASE Follow(r, k)
    BY <2>2, <2>3, SweptInvariant DEF Follow
  <2>4. CASE ServeFromCache(r, k)
    BY <2>2, <2>4, SweptInvariant DEF ServeFromCache
  <2>5. QED
    BY <2>1, <2>3, <2>4, LeadInvariant
<1>2. ASSUME NEW r \in Requests, Handle(r) PROVE InductiveInvariant'
  <2>1. CASE SubprocessEnds(r)
    BY <2>1, HandlerMovesInvariant DEF SubprocessEnds, InductiveInvariant, TypeOK
  <2>2. CASE ResolveIgnored(r)
    BY <2>2, HandlerMovesInvariant DEF ResolveIgnored, Respond, InductiveInvariant, TypeOK
  <2>3. CASE Forward(r)
    <3>1. result[joined[r]] \in Requests \union {NoResult, LeaseError}
      BY <2>3 DEF Forward, InductiveInvariant, TypeOK, EntriesUnderTheirKeys
    <3>2. QED
      BY <2>3, <3>1, HandlerMovesInvariant DEF Forward, InductiveInvariant, TypeOK
  <2>4. QED
    BY <1>2, <2>1, <2>2, <2>3, ResolveEntryInvariant, ResolveSweptInvariant
       DEF Handle, Resolve
<1>3. ASSUME NEW r \in Requests, LeaderLost(r) PROVE InductiveInvariant'
  <2>1. losses' \in Nat /\ answer \in [Requests -> Requests \union {NoResult, LeaseError}]
    BY <1>3 DEF LeaderLost, InductiveInvariant, TypeOK
  <2>2. QED
    BY <1>3, <2>1, HandlerMovesInvariant DEF LeaderLost
<1>4. ASSUME NEW r \in Requests, Disconnect(r) PROVE InductiveInvariant'
  BY <1>4, HandlerMovesInvariant DEF Disconnect, InductiveInvariant, TypeOK
<1>5. CASE Sweep
  BY <1>5, SweptInvariant DEF Sweep, handlers
<1>6. CASE UNCHANGED vars
  BY <1>6
     DEF vars, InductiveInvariant, TypeOK, NewUntouched, EntriesUnderTheirKeys,
         ResolveEntriesDone, LeaseHasMargin, LeaderHoldsEntry, ResultsOwn, Leading
<1>7. QED
  BY <1>1, <1>2, <1>3, <1>4, <1>5, <1>6, RestartInvariant, TickInvariant DEF Next

\* What every state of the store and its handlers satisfies: a new request has left
\* no trace, an entry is under its maker's key, and with margin a leader holds its.
THEOREM InvariantHolds == Spec => []InductiveInvariant
<1>1. QED
  BY InitInvariant, StepInvariant, PTL DEF Spec

\* Every variable stays within its type.
THEOREM TypeCorrect == Spec => []TypeOK
<1>1. InductiveInvariant => TypeOK
  BY DEF InductiveInvariant
<1>2. QED
  BY <1>1, InvariantHolds, PTL

\* One command at a time per step: with margin, two requests that lead at once
\* have different keys, since each holds the entry of its own (dedup.go:106-109).
THEOREM OneSubprocessPerKeyHolds == Spec => []OneSubprocessPerKey
<1>1. InductiveInvariant => OneSubprocessPerKey
  <2> SUFFICES ASSUME InductiveInvariant, LeaseHasMargin,
                      NEW q \in Requests, NEW r \in Requests,
                      q # r, Leading(q), Leading(r), key[q] = key[r]
               PROVE  FALSE
    BY DEF OneSubprocessPerKey
  <2>1. entry[key[q]] = <<q, "attach">> /\ entry[key[r]] = <<r, "attach">>
    BY DEF InductiveInvariant, LeaderHoldsEntry
  <2>2. QED
    BY <2>1
<1>2. QED
  BY <1>1, InvariantHolds, PTL

\* With margin a follower is told the outcome of the invocation it joined: what an
\* entry was resolved with is its maker's (dedup.go:147).
THEOREM FollowersShareLeaderHolds == Spec => []FollowersShareLeader
<1>1. InductiveInvariant => FollowersShareLeader
  BY DEF InductiveInvariant, EntriesUnderTheirKeys, ResultsOwn, FollowersShareLeader
<1>2. QED
  BY <1>1, InvariantHolds, PTL

\* An entry's `done` is closed once, whether or not the lease has margin: a step
\* resolves only what is not resolved (dedup.go:147-165).
THEOREM ResolvedOnceHolds == Spec => ResolvedOnce
<1> USE ConstantsAssumption, EntryShape
<1>1. ASSUME InductiveInvariant, [Next]_vars, NEW e \in Entries, result[e] # NoResult
      PROVE  result'[e] = result[e]
  <2>1. CASE result' = SweptResult
    BY <1>1, <2>1, SweepKeeps
  <2>2. CASE UNCHANGED result
    BY <2>2
  <2>3. ASSUME NEW r \in Requests, ResolveEntry(r) PROVE result'[e] = result[e]
    BY <1>1, <2>3 DEF ResolveEntry, Resolved, InductiveInvariant, TypeOK
  <2>4. ASSUME NEW r \in Requests, ResolveSwept(r) PROVE result'[e] = result[e]
    <3>1. result[<<r, "resolve">>] = NoResult
      BY <1>1, <2>4 DEF ResolveSwept, InductiveInvariant, ResolveEntriesDone
    <3>2. QED
      BY ZenonT(60), <1>1, <2>4, <3>1 DEF ResolveSwept, InductiveInvariant, TypeOK
  <2>5. CASE Next
    BY <2>1, <2>2, <2>3, <2>4, <2>5
       DEF Next, Attach, Handle, Lead, Follow, ServeFromCache, SubprocessEnds, Resolve,
           ResolveIgnored, Forward, LeaderLost, Disconnect, Sweep, Restart, Tick, store
  <2>6. QED
    BY <1>1, <2>2, <2>5 DEF vars
<1>2. InductiveInvariant /\ [Next]_vars =>
        [\A e \in Entries : result[e] # NoResult => result'[e] = result[e]]_vars
  BY <1>1
<1>3. QED
  BY <1>2, InvariantHolds, PTL DEF Spec, ResolvedOnce
===============================================================================
