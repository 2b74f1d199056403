------------------------------ MODULE Placement ------------------------------
(***************************************************************************)
(* scheduler/placement.ts over the placement and placement_access tables:  *)
(* which content hashes are kept resident (pinned).                        *)
(*                                                                         *)
(* Each operation is a transaction of its caller.  recordAccess updates a  *)
(* hash's row, logs the access and prunes the log.  evaluatePromotion and  *)
(* evaluateDemotion only read; promote() and demote() act on the answer    *)
(* later, in another transaction.  evictLRUIfOverCapacity reads the pinned *)
(* set without locks and unpins rows one by one.  A row's lock is held to  *)
(* the end of the transaction that updated it, and now() is, throughout a  *)
(* transaction, the time it began.                                         *)
(***************************************************************************)
EXTENDS Integers, FiniteSets

CONSTANTS
    Hashes,       \* placement.content_hash
    Callers,      \* callers of scheduler/, each with at most one transaction open
    Configs,      \* the PlacementConfigs callers may pass
    Options,      \* the RecordAccessOptions callers may pass
    Null,         \* an option or column that is not given
    MaxTime,      \* bound: the last instant
    MaxTxn,       \* the longest any transaction stays open
    MaxAccesses   \* bound: accesses of a hash

CostClasses == {"trivial", "cheap", "moderate", "expensive"}

\* observedRehydrationMs counts the ticks of one sample; `at' is never given.
OptionsType ==
    [interactivity : {"interactive", "batch", Null}, sizeBytes : Nat \union {Null},
     declaredCostClass : CostClasses \union {Null},
     observedRehydrationMs : Nat \union {Null}]

ConfigsType ==
    [frequencyThreshold : Nat \ {0}, frequencyWindow : Nat, rehydrationCostThreshold : Nat,
     idleThreshold : Nat, pinnedBudget : Nat, observedMinSamples : Nat,
     classPriors : [CostClasses -> Nat]]

ASSUME ConstantsAssumption ==
    /\ MaxTime \in Nat
    /\ MaxTxn \in Nat
    /\ MaxAccesses \in Nat
    /\ Configs \subseteq ConfigsType
    /\ Options \subseteq OptionsType
    /\ Null \notin Nat \union CostClasses \union {"interactive", "batch"}
    /\ Null \notin Configs \union Options

VARIABLES
    now,
    placement,   \* committed rows; accessCount = 0 stands for no row
    accesses,    \* committed placement_access rows
    pruned,      \* history: the rows pruneOlderThan has deleted
    pc,          \* what each caller's transaction is doing
    began,       \* its now()
    held,        \* the rows it has updated, and so locked
    config,      \* the config it was given
    given,       \* the options of its recordAccess
    seen,        \* the placement rows it read
    left,        \* the rows an eviction has yet to look at
    decision     \* what a caller was last told to do: promote or demote a hash

tables == <<placement, accesses, pruned>>
txn == <<pc, began, held, config, given, seen, left>>
vars == <<now, placement, accesses, pruned, pc, began, held, config, given, seen, left,
          decision>>

\* --------------------------------------------------------------------- rows

NoRow == [accessCount |-> 0, lastAccessed |-> 0, pinned |-> FALSE,
          interactivity |-> "batch", sizeBytes |-> 0,
          declaredCostClass |-> Null, observedTotal |-> 0, observedSamples |-> 0]

NothingSeen == [h \in {} |-> NoRow]

Coalesce(x, y) == IF x = Null THEN y ELSE x

\* Mutant: a new access is counted but does not renew last_accessed_at.
UpsertedKeepsTime(row, o, t) ==
    [row EXCEPT !.accessCount = @ + 1,
                !.lastAccessed = IF row.accessCount = 0 THEN t ELSE @,
                !.interactivity = Coalesce(o.interactivity, @)]

\* SQL_UPSERT_PLACEMENT_ACCESS on an existing row or on the column defaults.  The
\* rolling mean of the samples is kept as their total and their number.
Upserted(row, o, t) ==
    [accessCount |-> row.accessCount + 1,
     lastAccessed |-> t,
     pinned |-> row.pinned,
     interactivity |-> Coalesce(o.interactivity, row.interactivity),
     sizeBytes |-> Coalesce(o.sizeBytes, row.sizeBytes),
     declaredCostClass |-> Coalesce(o.declaredCostClass, row.declaredCostClass),
     observedTotal |-> row.observedTotal + Coalesce(o.observedRehydrationMs, 0),
     observedSamples |->
        row.observedSamples + (IF o.observedRehydrationMs = Null THEN 0 ELSE 1)]

Pinned(row, value) == [row EXCEPT !.pinned = value]

\* costMs > rehydrationCostThresholdMs for effectiveRehydrationCostMs: the mean of
\* the samples once there are enough of them, else the declared class, else nothing.
CostExceedsThreshold(row, c) ==
    \/ /\ row.observedSamples > 0 /\ row.observedSamples >= c.observedMinSamples
       /\ row.observedTotal > c.rehydrationCostThreshold * row.observedSamples
    \/ /\ row.observedSamples = 0 \/ row.observedSamples < c.observedMinSamples
       /\ row.declaredCostClass # Null
       /\ c.classPriors[row.declaredCostClass] > c.rehydrationCostThreshold

\* Mutant: only the window of the promotion decision is kept.
WindowOnly(c) == c.frequencyWindow

PruneHorizon(c) ==
    IF c.frequencyWindow > c.idleThreshold THEN c.frequencyWindow ELSE c.idleThreshold

AccessesSince(h, t) == {r \in accesses : r.hash = h /\ r.at >= t}

IdleTooLong(row, c) == now - row.lastAccessed > c.idleThreshold

PinnedHashes == {h \in Hashes : placement[h].pinned}

\* The sum of the sizes, as the number of the rows' bytes.
TotalSize(rows, S) == Cardinality(UNION {{h} \X (1 .. rows[h].sizeBytes) : h \in S})

\* ------------------------------------------------------------- transactions

\* No other open transaction has updated this row.
RowFree(a, h) == \A b \in Callers \ {a} : h \notin held[b]

Begin(a) ==
    /\ pc[a] = "idle"
    /\ pc' = [pc EXCEPT ![a] = "open"]
    /\ began' = [began EXCEPT ![a] = now]
    /\ UNCHANGED <<now, tables, held, config, given, seen, left, decision>>

EndTransaction(a) ==
    /\ pc' = [pc EXCEPT ![a] = "idle"]
    /\ began' = [began EXCEPT ![a] = 0]
    /\ held' = [held EXCEPT ![a] = {}]
    /\ config' = [config EXCEPT ![a] = Null]
    /\ given' = [given EXCEPT ![a] = Null]
    /\ seen' = [seen EXCEPT ![a] = NothingSeen]
    /\ left' = [left EXCEPT ![a] = {}]

\* The caller, its connection or a deadlock ends the transaction; the caller's
\* error path forgets what it was about to do.
Rollback(a) ==
    /\ pc[a] # "idle"
    /\ decision' = [decision EXCEPT ![a] = Null]
    /\ EndTransaction(a)
    /\ UNCHANGED <<now, tables>>

\* ------------------------------------------------------------- recordAccess

\* upsertAccess, which waits for the row's lock.
UpsertAccess(a, h, o, c) ==
    /\ pc[a] = "open"
    /\ RowFree(a, h)
    /\ placement[h].accessCount < MaxAccesses
    /\ pc' = [pc EXCEPT ![a] = "recording"]
    /\ held' = [held EXCEPT ![a] = {h}]
    /\ given' = [given EXCEPT ![a] = o]
    /\ config' = [config EXCEPT ![a] = c]
    /\ UNCHANGED <<now, tables, began, seen, left, decision>>

\* The row of this access; `nth' tells apart rows of one instant.
AccessRow(a, h) ==
    [hash |-> h, at |-> began[a], nth |-> placement[h].accessCount + 1,
     interactive |-> given[a].interactivity = "interactive"]

\* record, pruneOlderThan and COMMIT.  Nobody else can log or prune this hash while
\* its placement row is locked.
CommitAccess(a) ==
    /\ pc[a] = "recording"
    /\ \E h \in held[a] :
         LET logged == accesses \union {AccessRow(a, h)}
             old == {r \in logged : r.hash = h /\ r.at < began[a] - PruneHorizon(config[a])}
         IN /\ placement' = [placement EXCEPT ![h] = Upserted(@, given[a], began[a])]
            /\ accesses' = logged \ old
            /\ pruned' = pruned \union old
    /\ EndTransaction(a)
    /\ UNCHANGED <<now, decision>>

\* ------------------------------------------------- promotion and demotion

\* evaluatePromotion of a hash without a row or already pinned.
PromotionRefused(a, h) ==
    /\ pc[a] = "open"
    /\ placement[h].accessCount = 0 \/ placement[h].pinned
    /\ decision' = [decision EXCEPT ![a] = Null]
    /\ EndTransaction(a)
    /\ UNCHANGED <<now, tables>>

\* evaluatePromotion's first statement, findByContentHash.
ReadForPromotion(a, h, c) ==
    /\ pc[a] = "open"
    /\ placement[h].accessCount > 0 /\ ~placement[h].pinned
    /\ pc' = [pc EXCEPT ![a] = "counting"]
    /\ seen' = [seen EXCEPT ![a] = [k \in {h} |-> placement[k]]]
    /\ config' = [config EXCEPT ![a] = c]
    /\ UNCHANGED <<now, tables, began, held, given, left, decision>>

\* Mutant: the frequency test is left out.
QualifiesOnce(row, count, c) ==
    row.interactivity = "interactive" /\ CostExceedsThreshold(row, c) /\ count >= 1

Qualifies(row, count, c) ==
    /\ row.interactivity = "interactive"
    /\ CostExceedsThreshold(row, c)
    /\ count >= c.frequencyThreshold

\* evaluatePromotion's second statement, countWithinWindow, and its answer.
CountAccesses(a) ==
    /\ pc[a] = "counting"
    /\ \E h \in DOMAIN seen[a] :
         LET count == Cardinality(AccessesSince(h, began[a] - config[a].frequencyWindow))
         IN decision' = [decision EXCEPT ![a] =
                           IF Qualifies(seen[a][h], count, config[a])
                           THEN [hash |-> h, pin |-> TRUE] ELSE Null]
    /\ EndTransaction(a)
    /\ UNCHANGED <<now, tables>>

EvaluateDemotion(a, h, c) ==
    /\ pc[a] = "open"
    /\ decision' = [decision EXCEPT ![a] =
                      IF placement[h].pinned /\ IdleTooLong(placement[h], c)
                      THEN [hash |-> h, pin |-> FALSE] ELSE Null]
    /\ EndTransaction(a)
    /\ UNCHANGED <<now, tables>>

\* promote() or demote(), as the caller was told; nothing is checked again.
SetPinned(a) ==
    /\ pc[a] = "open"
    /\ decision[a] # Null
    /\ RowFree(a, decision[a].hash)
    /\ placement' = [placement EXCEPT ![decision[a].hash] = Pinned(@, decision[a].pin)]
    /\ decision' = [decision EXCEPT ![a] = Null]
    /\ EndTransaction(a)
    /\ UNCHANGED <<now, accesses, pruned>>

\* --------------------------------------------------- evictLRUIfOverCapacity

\* listPinnedOrderedByLru finds the pinned set within the budget.
WithinCapacity(a, c) ==
    /\ pc[a] = "open"
    /\ TotalSize(placement, PinnedHashes) <= c.pinnedBudget
    /\ EndTransaction(a)
    /\ UNCHANGED <<now, tables, decision>>

ListPinned(a, c) ==
    /\ pc[a] = "open"
    /\ TotalSize(placement, PinnedHashes) > c.pinnedBudget
    /\ pc' = [pc EXCEPT ![a] = "evicting"]
    /\ seen' = [seen EXCEPT ![a] = [h \in PinnedHashes |-> placement[h]]]
    /\ left' = [left EXCEPT ![a] = PinnedHashes]
    /\ config' = [config EXCEPT ![a] = c]
    /\ UNCHANGED <<now, tables, began, held, given, decision>>

\* Mutant: the budget is compared with what would be left after the next one.
BelowBudgetNext(a) ==
    \E h \in left[a] :
        TotalSize(seen[a], DOMAIN seen[a] \ (held[a] \union {h})) <= config[a].pinnedBudget

\* `total <= budget': the sizes it read, without the rows it has unpinned.
BelowBudget(a) ==
    TotalSize(seen[a], DOMAIN seen[a] \ held[a]) <= config[a].pinnedBudget

\* Mutant: ORDER BY last_accessed_at DESC.
MostRecentlyUsed(a, h) ==
    \A k \in left[a] : seen[a][h].lastAccessed >= seen[a][k].lastAccessed

\* ORDER BY last_accessed_at ASC, ties in any order.
LeastRecentlyUsed(a, h) ==
    \A k \in left[a] : seen[a][h].lastAccessed <= seen[a][k].lastAccessed

\* A row without a size is passed over.
PassOver(a, h) ==
    /\ pc[a] = "evicting"
    /\ ~BelowBudget(a)
    /\ h \in left[a] /\ LeastRecentlyUsed(a, h)
    /\ seen[a][h].sizeBytes <= 0
    /\ left' = [left EXCEPT ![a] = @ \ {h}]
    /\ UNCHANGED <<now, tables, pc, began, held, config, given, seen, decision>>

\* demote(), which waits for the row's lock.
Unpin(a, h) ==
    /\ pc[a] = "evicting"
    /\ ~BelowBudget(a)
    /\ h \in left[a] /\ LeastRecentlyUsed(a, h)
    /\ seen[a][h].sizeBytes > 0
    /\ RowFree(a, h)
    /\ left' = [left EXCEPT ![a] = @ \ {h}]
    /\ held' = [held EXCEPT ![a] = @ \union {h}]
    /\ UNCHANGED <<now, tables, pc, began, config, given, seen, decision>>

CommitEviction(a) ==
    /\ pc[a] = "evicting"
    /\ left[a] = {} \/ BelowBudget(a)
    /\ placement' = [h \in Hashes |-> IF h \in held[a]
                                      THEN Pinned(placement[h], FALSE)
                                      ELSE placement[h]]
    /\ EndTransaction(a)
    /\ UNCHANGED <<now, accesses, pruned, decision>>

\* ------------------------------------------------------------ specification

\* Time passes, but no transaction stays open for longer than MaxTxn.
Tick ==
    /\ now < MaxTime
    /\ \A a \in Callers : pc[a] # "idle" => now < began[a] + MaxTxn
    /\ now' = now + 1
    /\ UNCHANGED <<tables, txn, decision>>

Init ==
    /\ now = 0
    /\ placement = [h \in Hashes |-> NoRow]
    /\ accesses = {}
    /\ pruned = {}
    /\ pc = [a \in Callers |-> "idle"]
    /\ began = [a \in Callers |-> 0]
    /\ held = [a \in Callers |-> {}]
    /\ config = [a \in Callers |-> Null]
    /\ given = [a \in Callers |-> Null]
    /\ seen = [a \in Callers |-> NothingSeen]
    /\ left = [a \in Callers |-> {}]
    /\ decision = [a \in Callers |-> Null]

Operation(a) ==
    \/ Begin(a) \/ Rollback(a) \/ CommitAccess(a)
    \/ CountAccesses(a) \/ SetPinned(a) \/ CommitEviction(a)
    \/ \E h \in Hashes, o \in Options, c \in Configs : UpsertAccess(a, h, o, c)
    \/ \E h \in Hashes : PromotionRefused(a, h) \/ PassOver(a, h) \/ Unpin(a, h)
    \/ \E h \in Hashes, c \in Configs : ReadForPromotion(a, h, c) \/ EvaluateDemotion(a, h, c)
    \/ \E c \in Configs : WithinCapacity(a, c) \/ ListPinned(a, c)

Next == Tick \/ \E a \in Callers : Operation(a)

Spec == Init /\ [][Next]_vars

\* ---------------------------------------------------------------- properties

RowType ==
    [accessCount : 0 .. MaxAccesses, lastAccessed : 0 .. MaxTime, pinned : BOOLEAN,
     interactivity : {"interactive", "batch"}, sizeBytes : Nat,
     declaredCostClass : CostClasses \union {Null}, observedTotal : Nat,
     observedSamples : Nat]

AccessType ==
    [hash : Hashes, at : 0 .. MaxTime, nth : 1 .. MaxAccesses, interactive : BOOLEAN]

\* Every variable stays within its type.
TypeOK ==
    /\ now \in 0 .. MaxTime
    /\ placement \in [Hashes -> RowType]
    /\ accesses \subseteq AccessType
    /\ pruned \subseteq AccessType
    /\ pc \in [Callers -> {"idle", "open", "recording", "counting", "evicting"}]
    /\ began \in [Callers -> 0 .. MaxTime]
    /\ held \in [Callers -> SUBSET Hashes]
    /\ config \in [Callers -> Configs \union {Null}]
    /\ given \in [Callers -> Options \union {Null}]
    /\ seen = [a \in Callers |-> seen[a]]
    /\ \A a \in Callers : DOMAIN seen[a] \subseteq Hashes /\ seen[a] \in [DOMAIN seen[a] -> RowType]
    /\ left \in [Callers -> SUBSET Hashes]
    /\ decision \in [Callers -> [hash : Hashes, pin : BOOLEAN] \union {Null}]

\* evaluatePromotion's count misses no access of its window, whatever recordAccess
\* of other transactions prunes between its begin and its second statement.
WindowCountsExact ==
    \A a \in Callers : pc[a] = "counting" =>
        \A h \in DOMAIN seen[a], r \in pruned :
            r.hash = h => r.at < began[a] - config[a].frequencyWindow

\* Promote quick, demote slow: a hash accessed often enough to be promoted is never
\* idle for long enough to be demoted, in whatever order its accesses committed.
HotIsNeverIdle ==
    \A h \in Hashes, c \in Configs :
        Cardinality(AccessesSince(h, now - c.frequencyWindow)) >= c.frequencyThreshold
            => ~IdleTooLong(placement[h], c)

Declared(h) == \E r \in accesses \union pruned : r.hash = h /\ r.interactive

Earned(h) ==
    Declared(h) /\ \E c \in Configs : placement[h].accessCount >= c.frequencyThreshold

\* A pinned hash has been declared interactive by some access and accessed as often
\* as some config asks: an undeclared or batch hash is never pinned, though the
\* answer promote() acts on may be stale.
PinnedEarnedIt == \A h \in Hashes : placement[h].pinned => Earned(h)

\* What keeps a listed row out of an eviction's account: it was promoted or grew
\* since the list was read.
Disturbed(a) ==
    \E h \in Hashes :
        /\ placement[h].pinned
        /\ h \in DOMAIN seen[a] => placement[h].sizeBytes > seen[a][h].sizeBytes

\* An eviction leaves the pinned set within the budget however other evictions,
\* demotions and accesses interleave with it, unless a hash was promoted or grew
\* after it had read the set.
EvictionReachesBudget ==
    [][\A a \in Callers :
         pc[a] = "evicting" /\ pc'[a] = "idle" /\ held[a] # {} /\ ~Disturbed(a)
             /\ placement' # placement
           => TotalSize(placement', {h \in Hashes : placement'[h].pinned})
                <= config[a].pinnedBudget]_vars

\* An eviction never unpins a hash and keeps one used less recently, unless either
\* was accessed after it had read the set or the other has no size to give back.
EvictionSparesRecentlyUsed ==
    [][\A a \in Callers : pc[a] = "evicting" /\ pc'[a] = "idle" =>
         \A h \in held[a], k \in DOMAIN seen[a] :
           (/\ placement[h].pinned /\ ~placement'[h].pinned /\ placement'[k].pinned
            /\ \A j \in {h, k} : placement[j].accessCount = seen[a][j].accessCount
            /\ placement[k].sizeBytes > 0)
           => placement[h].lastAccessed <= placement[k].lastAccessed]_vars

\* ------------------------------------------------------ the inductive invariant

\* A margin between the promotion window of any caller and the idle threshold of
\* any other, as long as the longest transaction.
Margin == \A c, d \in Configs : c.frequencyWindow + MaxTxn <= d.idleThreshold

\* Open transactions are young, and remember a config where they use one.
TransactionsYoung ==
    \A a \in Callers :
        /\ pc[a] # "idle" => began[a] <= now /\ now <= began[a] + MaxTxn
        /\ pc[a] \in {"recording", "counting", "evicting"} => config[a] # Null
        /\ pc[a] = "recording" => given[a] # Null

\* A row has one transaction updating it, and an access not yet committed has room.
RowsLocked ==
    /\ \A a, b \in Callers : a # b => held[a] \intersect held[b] = {}
    /\ \A a \in Callers : pc[a] = "recording" =>
         \A h \in held[a] : placement[h].accessCount < MaxAccesses

\* Rows are pruned only once they are older than any caller's idle threshold.
PrunedIsOld ==
    \A r \in pruned : \E c \in Configs : r.at < now - PruneHorizon(c)

\* last_accessed_at may go back, but never further than a transaction is long.
LastAccessedIsRecent ==
    \A r \in accesses : r.at <= now /\ r.at <= placement[r.hash].lastAccessed + MaxTxn

\* accessCount and the log, with what was pruned of it, agree: access rows of a hash
\* are numbered apart, and no further than it was accessed.
AccessesNumbered ==
    /\ \A r \in accesses \union pruned : r.nth <= placement[r.hash].accessCount
    /\ \A r, q \in accesses \union pruned : r.hash = q.hash /\ r.nth = q.nth => r = q

\* Rows, and what evaluatePromotion has read of them, are interactive only if declared
\* so, and so a hash one is told to promote has earned it.
InteractiveIsDeclared ==
    /\ \A h \in Hashes : placement[h].interactivity = "interactive" => Declared(h)
    /\ \A a \in Callers : \A h \in DOMAIN seen[a] :
         seen[a][h].interactivity = "interactive" => Declared(h)
    /\ \A a \in Callers : decision[a] # Null =>
         (decision[a].pin => Earned(decision[a].hash))

\* An eviction goes through the rows it read from the least recently used on; it
\* has unpinned those it is past, but for rows without a size.
EvictionInOrder(a) ==
    /\ pc[a] \in {"idle", "open", "counting"} => held[a] = {}
    /\ pc[a] = "evicting" =>
         /\ held[a] \subseteq DOMAIN seen[a] /\ left[a] \subseteq DOMAIN seen[a]
         /\ \A h \in DOMAIN seen[a] \ (held[a] \union left[a]) : seen[a][h].sizeBytes = 0
         /\ \A h \in held[a], k \in left[a] :
              seen[a][h].lastAccessed <= seen[a][k].lastAccessed

\* What a transaction has read of a row stands until the next access of the row.
ReadsStandUntilAccess(a) ==
    \A h \in DOMAIN seen[a] :
        /\ seen[a][h].accessCount <= placement[h].accessCount
        /\ seen[a][h].accessCount = placement[h].accessCount =>
             /\ seen[a][h].lastAccessed = placement[h].lastAccessed
             /\ seen[a][h].sizeBytes = placement[h].sizeBytes

InductiveInvariant ==
    /\ TypeOK
    /\ TransactionsYoung
    /\ RowsLocked
    /\ PrunedIsOld
    /\ LastAccessedIsRecent
    /\ AccessesNumbered
    /\ InteractiveIsDeclared
    /\ PinnedEarnedIt

\* What the action properties of evictions take besides.
InductiveEvictions ==
    \A a \in Callers : EvictionInOrder(a) /\ ReadsStandUntilAccess(a)

==============================================================================
