--------------------------- MODULE PlacementProofs ---------------------------
(***************************************************************************)
(* The safety of Placement for any hashes, callers, configurations and     *)
(* options: windows are exact and hot hashes never idle, given a margin    *)
(* between window and idle threshold; only what earned it is pinned.       *)
(***************************************************************************)
EXTENDS Placement, FiniteSetTheorems, TLAPS

\* An access changes the columns of its row that it gives a value for.
LEMMA UpsertedType ==
    ASSUME NEW row \in RowType, NEW o \in Options, NEW t \in 0 .. MaxTime,
           row.accessCount < MaxAccesses
    PROVE  /\ Upserted(row, o, t) \in RowType
           /\ Upserted(row, o, t).accessCount = row.accessCount + 1
           /\ Upserted(row, o, t).lastAccessed = t
           /\ Upserted(row, o, t).pinned = row.pinned
           /\ Upserted(row, o, t).interactivity \in {o.interactivity, row.interactivity}
           /\ Upserted(row, o, t).interactivity = "interactive" =>
                o.interactivity = "interactive" \/ row.interactivity = "interactive"
<1> DEFINE new == Upserted(row, o, t)
<1>1. o \in OptionsType
  BY ConstantsAssumption
<1>2. new.observedTotal \in Nat /\ new.observedSamples \in Nat
  BY <1>1 DEF Upserted, OptionsType, RowType, Coalesce
<1>3. new.sizeBytes \in Nat
  BY <1>1 DEF Upserted, OptionsType, RowType, Coalesce
<1>4. /\ new.declaredCostClass \in CostClasses \union {Null}
      /\ new.interactivity \in {"interactive", "batch"}
      /\ new.interactivity \in {o.interactivity, row.interactivity}
  BY <1>1 DEF Upserted, OptionsType, RowType, Coalesce
<1>5. /\ new.accessCount = row.accessCount + 1 /\ new.accessCount \in 0 .. MaxAccesses
      /\ new.lastAccessed = t
  BY ConstantsAssumption DEF Upserted, RowType
<1>6. new.pinned = row.pinned /\ new.pinned \in BOOLEAN
  BY DEF Upserted, RowType
<1>7. new \in RowType
  BY <1>2, <1>3, <1>4, <1>5, <1>6 DEF Upserted, RowType
<1>8. QED
  BY <1>4, <1>5, <1>6, <1>7

\* Initially there is no row, no access and no transaction.
LEMMA InitInvariant == Init => InductiveInvariant
<1> SUFFICES ASSUME Init PROVE InductiveInvariant
  OBVIOUS
<1> USE ConstantsAssumption DEF Init
<1>1. NoRow \in RowType
  BY DEF NoRow, RowType
<1>2. TypeOK
  BY <1>1 DEF TypeOK, NothingSeen
<1>3. TransactionsYoung /\ RowsLocked /\ PrunedIsOld /\ LastAccessedIsRecent /\ AccessesNumbered
  BY DEF TransactionsYoung, RowsLocked, PrunedIsOld, LastAccessedIsRecent, AccessesNumbered
<1>4. InteractiveIsDeclared /\ PinnedEarnedIt
  BY DEF InteractiveIsDeclared, PinnedEarnedIt, NothingSeen, NoRow
<1>5. QED
  BY <1>2, <1>3, <1>4 DEF InductiveInvariant

\* While the tables stay as they are and time stands still, only what transactions
\* remember can break the invariant.
LEMMA TablesUnchanged ==
    ASSUME InductiveInvariant, UNCHANGED <<now, tables>>, TypeOK', TransactionsYoung', RowsLocked',
           \A a \in Callers : \A h \in DOMAIN seen'[a] :
             seen'[a][h].interactivity = "interactive" => Declared(h),
           \A a \in Callers :
             decision'[a] # Null => (decision'[a].pin => Earned(decision'[a].hash))
    PROVE  InductiveInvariant'
<1> USE DEF InductiveInvariant, tables
<1>1. PrunedIsOld' /\ LastAccessedIsRecent' /\ AccessesNumbered' /\ PinnedEarnedIt'
  BY DEF PrunedIsOld, LastAccessedIsRecent, AccessesNumbered, PinnedEarnedIt,
         Earned, Declared
<1>2. InteractiveIsDeclared'
  BY DEF InteractiveIsDeclared, Earned, Declared
<1>3. QED
  BY <1>1, <1>2

\* A transaction that has ended holds and remembers nothing.
LEMMA EndFacts ==
    ASSUME InductiveInvariant, NEW a \in Callers, EndTransaction(a), UNCHANGED now
    PROVE  /\ pc' \in [Callers -> {"idle", "open", "recording", "counting", "evicting"}]
           /\ began' \in [Callers -> 0 .. MaxTime]
           /\ held' \in [Callers -> SUBSET Hashes]
           /\ config' \in [Callers -> Configs \union {Null}]
           /\ given' \in [Callers -> Options \union {Null}]
           /\ seen' = [b \in Callers |-> seen'[b]]
           /\ \A b \in Callers : DOMAIN seen'[b] \subseteq Hashes
                                 /\ seen'[b] \in [DOMAIN seen'[b] -> RowType]
           /\ left' \in [Callers -> SUBSET Hashes]
           /\ \A b \in Callers : \A h \in DOMAIN seen'[b] :
                h \in DOMAIN seen[b] /\ seen'[b][h] = seen[b][h]
           /\ \A b \in Callers : /\ held'[b] \subseteq held[b]
                                 /\ pc'[b] = "recording" => pc[b] = "recording" /\ b # a
           /\ TransactionsYoung'
<1> USE ConstantsAssumption DEF InductiveInvariant, EndTransaction
<1>1. \A b \in Callers : seen'[b] = IF b = a THEN NothingSeen ELSE seen[b]
  BY DEF TypeOK
<1>2. DOMAIN NothingSeen = {} /\ NothingSeen \in [{} -> RowType]
  BY DEF NothingSeen
<1>3. \A b \in Callers : DOMAIN seen'[b] \subseteq Hashes
                          /\ seen'[b] \in [DOMAIN seen'[b] -> RowType]
  BY <1>1, <1>2 DEF TypeOK
<1>4. TransactionsYoung'
  BY DEF TypeOK, TransactionsYoung
<1>5. seen' = [b \in Callers |-> seen'[b]]
  BY DEF TypeOK
<1>6. \A b \in Callers : \A h \in DOMAIN seen'[b] :
        h \in DOMAIN seen[b] /\ seen'[b][h] = seen[b][h]
  BY <1>1, <1>2
<1>7. \A b \in Callers : /\ held'[b] \subseteq held[b]
                         /\ pc'[b] = "recording" => pc[b] = "recording" /\ b # a
  BY DEF TypeOK
<1>8. QED
  BY <1>3, <1>4, <1>5, <1>6, <1>7 DEF TypeOK

\* What ends without a write preserves the invariant, if what the caller is told to
\* promote has earned it.
LEMMA EndInvariant ==
    ASSUME InductiveInvariant, NEW a \in Callers, EndTransaction(a),
           UNCHANGED <<now, tables>>,
           NEW d \in [hash : Hashes, pin : BOOLEAN] \union {Null},
           d # Null => (d.pin => Earned(d.hash)),
           \/ UNCHANGED decision
           \/ decision' = [decision EXCEPT ![a] = d]
    PROVE  InductiveInvariant'
<1> USE ConstantsAssumption DEF InductiveInvariant, tables
<1>1. decision' \in [Callers -> [hash : Hashes, pin : BOOLEAN] \union {Null}]
  BY DEF TypeOK
<1>2. TypeOK'
  BY <1>1, EndFacts DEF TypeOK
<1>3. ASSUME NEW b \in Callers, NEW h \in DOMAIN seen'[b],
             seen'[b][h].interactivity = "interactive"
      PROVE  Declared(h)
  BY <1>3, EndFacts DEF InteractiveIsDeclared
<1>4. ASSUME NEW b \in Callers, decision'[b] # Null, decision'[b].pin
      PROVE  Earned(decision'[b].hash)
  BY <1>4 DEF TypeOK, InteractiveIsDeclared
<1>5. RowsLocked'
  BY EndFacts DEF RowsLocked
<1>6. QED
  BY <1>2, <1>3, <1>4, <1>5, EndFacts, TablesUnchanged

\* Beginning and locking write nothing that others can see, and read no row.
LEMMA LockInvariant ==
    ASSUME InductiveInvariant, NEW a \in Callers,
           \/ Begin(a)
           \/ \E h \in Hashes, o \in Options, c \in Configs : UpsertAccess(a, h, o, c)
           \/ \E h \in Hashes : PassOver(a, h) \/ Unpin(a, h)
    PROVE  InductiveInvariant'
<1> USE ConstantsAssumption DEF InductiveInvariant, tables
<1>0. UNCHANGED <<now, tables, decision, seen>>
  BY DEF Begin, UpsertAccess, PassOver, Unpin
<1>1. TypeOK' /\ TransactionsYoung'
  <2>1. CASE Begin(a)
    <3>1. TypeOK'
      BY <2>1 DEF Begin, TypeOK
    <3>2. TransactionsYoung'
      BY <2>1 DEF Begin, TypeOK, TransactionsYoung
    <3>3. QED
      BY <3>1, <3>2
  <2>2. CASE \E h \in Hashes, o \in Options, c \in Configs : UpsertAccess(a, h, o, c)
    <3> PICK h \in Hashes, o \in Options, c \in Configs : UpsertAccess(a, h, o, c)
      BY <2>2
    <3>1. TypeOK'
      BY DEF UpsertAccess, TypeOK
    <3>2. o # Null /\ c # Null
      OBVIOUS
    <3>3. TransactionsYoung'
      BY <3>2 DEF UpsertAccess, TypeOK, TransactionsYoung
    <3>4. QED
      BY <3>1, <3>3
  <2>3. CASE \E h \in Hashes : PassOver(a, h) \/ Unpin(a, h)
    <3> PICK h \in Hashes : PassOver(a, h) \/ Unpin(a, h)
      BY <2>3
    <3>a. left' = [left EXCEPT ![a] = left[a] \ {h}]
      BY DEF PassOver, Unpin
    <3>b. held' = held \/ held' = [held EXCEPT ![a] = held[a] \union {h}]
      BY DEF PassOver, Unpin
    <3>c. UNCHANGED <<pc, began, config, given>>
      BY DEF PassOver, Unpin
    <3>d. left' \in [Callers -> SUBSET Hashes] /\ held' \in [Callers -> SUBSET Hashes]
      BY <3>a, <3>b DEF TypeOK
    <3>1. TypeOK'
      BY <1>0, <3>c, <3>d DEF TypeOK
    <3>2. TransactionsYoung'
      BY <2>3 DEF PassOver, Unpin, TypeOK, TransactionsYoung
    <3>3. QED
      BY <3>1, <3>2
  <2>4. QED
    BY <2>1, <2>2, <2>3
<1>2. ASSUME NEW b \in Callers, NEW h \in DOMAIN seen'[b],
             seen'[b][h].interactivity = "interactive"
      PROVE  Declared(h)
  BY <1>0, <1>2 DEF InteractiveIsDeclared
<1>3. ASSUME NEW b \in Callers, decision'[b] # Null, decision'[b].pin
      PROVE  Earned(decision'[b].hash)
  BY <1>0, <1>3 DEF InteractiveIsDeclared
<1>4. RowsLocked'
  <2>1. CASE Begin(a)
    BY <2>1 DEF Begin, TypeOK, RowsLocked
  <2>2. CASE \E h \in Hashes, o \in Options, c \in Configs : UpsertAccess(a, h, o, c)
    BY <2>2 DEF UpsertAccess, RowFree, TypeOK, RowsLocked
  <2>3. CASE \E h \in Hashes : PassOver(a, h)
    BY <2>3 DEF PassOver, TypeOK, RowsLocked
  <2>4. CASE \E h \in Hashes : Unpin(a, h)
    BY <2>4 DEF Unpin, RowFree, TypeOK, RowsLocked
  <2>5. QED
    BY <2>1, <2>2, <2>3, <2>4
<1>5. QED
  BY <1>0, <1>1, <1>2, <1>3, <1>4, TablesUnchanged

\* What a transaction reads of a row, for a promotion or an eviction, is interactive
\* only if declared so.
LEMMA ReadInvariant ==
    ASSUME InductiveInvariant, NEW a \in Callers,
           \E c \in Configs : ListPinned(a, c) \/ \E h \in Hashes : ReadForPromotion(a, h, c)
    PROVE  InductiveInvariant'
<1> USE ConstantsAssumption DEF InductiveInvariant, tables
<1>1. PICK c \in Configs :
        ListPinned(a, c) \/ \E h \in Hashes : ReadForPromotion(a, h, c)
  OBVIOUS
<1>2. /\ UNCHANGED <<now, tables, decision, began, held, given>>
      /\ pc[a] = "open" /\ config' = [config EXCEPT ![a] = c]
      /\ \E s \in {"counting", "evicting"} : pc' = [pc EXCEPT ![a] = s]
      /\ left' = left \/ left' = [left EXCEPT ![a] = PinnedHashes]
  BY <1>1 DEF ListPinned, ReadForPromotion
<1>3. PICK S \in SUBSET Hashes : seen' = [seen EXCEPT ![a] = [h \in S |-> placement[h]]]
  <2>1. CASE ListPinned(a, c)
    BY <2>1 DEF ListPinned, PinnedHashes
  <2>2. CASE \E h \in Hashes : ReadForPromotion(a, h, c)
    <3>1. PICK h \in Hashes : ReadForPromotion(a, h, c)
      BY <2>2
    <3>2. {h} \in SUBSET Hashes
      OBVIOUS
    <3>3. QED
      BY <3>1, <3>2 DEF ReadForPromotion
  <2>3. QED
    BY <1>1, <2>1, <2>2
<1>4. \A b \in Callers :
        seen'[b] = IF b = a THEN [h \in S |-> placement[h]] ELSE seen[b]
  BY <1>3 DEF TypeOK
<1>5. TypeOK'
  <2>1. seen' = [b \in Callers |-> seen'[b]]
    BY <1>3 DEF TypeOK
  <2>2. [h \in S |-> placement[h]] \in [S -> RowType]
    BY DEF TypeOK
  <2>3. ASSUME NEW b \in Callers
        PROVE  DOMAIN seen'[b] \subseteq Hashes /\ seen'[b] \in [DOMAIN seen'[b] -> RowType]
    <3>1. CASE b = a
      <4>1. DOMAIN seen'[b] = S /\ seen'[b] = [h \in S |-> placement[h]]
        BY <1>4, <3>1
      <4>2. QED
        BY <2>2, <4>1
    <3>2. CASE b # a
      BY <1>4, <3>2 DEF TypeOK
    <3>3. QED
      BY <3>1, <3>2
  <2>4. left' \in [Callers -> SUBSET Hashes]
    BY <1>2 DEF TypeOK, PinnedHashes
  <2>5. pc' \in [Callers -> {"idle", "open", "recording", "counting", "evicting"}]
        /\ config' \in [Callers -> Configs \union {Null}]
    BY <1>2 DEF TypeOK
  <2>6. QED
    BY <1>2, <2>1, <2>3, <2>4, <2>5 DEF TypeOK
<1>6. TransactionsYoung'
  <2>1. c # Null
    OBVIOUS
  <2>2. QED
    BY <1>2, <2>1 DEF TypeOK, TransactionsYoung
<1>7. ASSUME NEW b \in Callers, NEW h \in DOMAIN seen'[b],
             seen'[b][h].interactivity = "interactive"
      PROVE  Declared(h)
  BY <1>4, <1>7 DEF InteractiveIsDeclared
<1>8. ASSUME NEW b \in Callers, decision'[b] # Null, decision'[b].pin
      PROVE  Earned(decision'[b].hash)
  BY <1>2, <1>8 DEF InteractiveIsDeclared
<1>9. RowsLocked'
  BY <1>2 DEF TypeOK, RowsLocked
<1>10. QED
  BY <1>2, <1>5, <1>6, <1>7, <1>8, <1>9, TablesUnchanged

\* Time that passes makes rows older, and no transaction older than MaxTxn.
LEMMA TickInvariant ==
    ASSUME InductiveInvariant, Tick
    PROVE  InductiveInvariant'
<1> USE ConstantsAssumption DEF InductiveInvariant, Tick, tables, txn
<1>1. TypeOK'
  BY DEF TypeOK
<1>2. TransactionsYoung' /\ RowsLocked'
  BY DEF TypeOK, TransactionsYoung, RowsLocked
<1>3. PrunedIsOld'
  <2> SUFFICES ASSUME NEW r \in pruned PROVE \E c \in Configs : r.at < now' - PruneHorizon(c)
    BY DEF PrunedIsOld, PruneHorizon
  <2>1. PICK c \in Configs : r.at < now - PruneHorizon(c)
    BY DEF PrunedIsOld
  <2>2. PruneHorizon(c) \in Nat
    BY DEF PruneHorizon, ConfigsType
  <2>3. QED
    BY <2>1, <2>2 DEF TypeOK, AccessType
<1>4. LastAccessedIsRecent'
  BY DEF LastAccessedIsRecent, TypeOK, AccessType
<1>5. AccessesNumbered' /\ InteractiveIsDeclared' /\ PinnedEarnedIt'
  BY DEF AccessesNumbered, InteractiveIsDeclared, PinnedEarnedIt, Earned, Declared
<1>6. QED
  BY <1>1, <1>2, <1>3, <1>4, <1>5

\* A caller is told to promote only a hash that has earned it: its row was read as
\* interactive, and the rows counted are some of the hash's numbered accesses.
LEMMA CountInvariant ==
    ASSUME InductiveInvariant, NEW a \in Callers, CountAccesses(a)
    PROVE  InductiveInvariant'
<1> USE ConstantsAssumption DEF InductiveInvariant, tables
<1>1. PICK h \in DOMAIN seen[a] :
        decision' = [decision EXCEPT ![a] =
          IF Qualifies(seen[a][h],
                       Cardinality(AccessesSince(h, began[a] - config[a].frequencyWindow)),
                       config[a])
          THEN [hash |-> h, pin |-> TRUE] ELSE Null]
  BY DEF CountAccesses
<1> DEFINE counted == AccessesSince(h, began[a] - config[a].frequencyWindow)
           qualifies == Qualifies(seen[a][h], Cardinality(counted), config[a])
           d == IF qualifies THEN [hash |-> h, pin |-> TRUE] ELSE Null
<1>2. h \in Hashes /\ config[a] \in Configs /\ placement[h].accessCount \in Nat
  BY DEF CountAccesses, TypeOK, TransactionsYoung, RowType
<1>3. Cardinality(counted) <= placement[h].accessCount /\ Cardinality(counted) \in Nat
  <2> DEFINE n == placement[h].accessCount
             f == [r \in counted |-> r.nth]
  <2>1. \A r \in counted : r \in accesses /\ r.hash = h
    BY DEF AccessesSince
  <2>2. \A r \in counted : r.nth \in 1 .. n
    BY <1>2, <2>1 DEF AccessesNumbered, TypeOK, AccessType
  <2>3. \A r, q \in counted : r.nth = q.nth => r = q
    BY <2>1 DEF AccessesNumbered
  <2>4. f \in Injection(counted, 1 .. n)
    BY <2>2, <2>3 DEF Injection, IsInjective
  <2>5. IsFiniteSet(1 .. n) /\ Cardinality(1 .. n) = n
    BY <1>2, FS_Interval
  <2>6. IsFiniteSet(counted) /\ Cardinality(counted) <= n
    BY <2>4, <2>5, FS_Injection
  <2>7. QED
    BY <2>6, FS_CardinalityType
<1>4. qualifies => Earned(h)
  BY <1>2, <1>3 DEF Qualifies, Earned, InteractiveIsDeclared, ConfigsType
<1>5. EndTransaction(a) /\ UNCHANGED <<now, tables>>
  BY DEF CountAccesses
<1>6. d \in [hash : Hashes, pin : BOOLEAN] \union {Null}
  BY <1>2
<1>7. d # Null => (d.pin => Earned(d.hash))
  BY <1>4
<1>8. QED
  BY <1>1, <1>5, <1>6, <1>7, EndInvariant

\* Every other operation that ends without a write.
LEMMA AnswerInvariant ==
    ASSUME InductiveInvariant, NEW a \in Callers,
           \/ Rollback(a)
           \/ \E h \in Hashes : PromotionRefused(a, h)
           \/ \E h \in Hashes, c \in Configs : EvaluateDemotion(a, h, c)
           \/ \E c \in Configs : WithinCapacity(a, c)
    PROVE  InductiveInvariant'
<1>1. CASE Rollback(a) \/ \E h \in Hashes : PromotionRefused(a, h)
  <2>1. EndTransaction(a) /\ UNCHANGED <<now, tables>>
        /\ decision' = [decision EXCEPT ![a] = Null]
    BY <1>1 DEF Rollback, PromotionRefused
  <2>2. QED
    BY <2>1, EndInvariant
<1>2. CASE \E c \in Configs : WithinCapacity(a, c)
  <2>1. EndTransaction(a) /\ UNCHANGED <<now, tables>> /\ UNCHANGED decision
    BY <1>2 DEF WithinCapacity
  <2>2. QED
    BY <2>1, EndInvariant
<1>3. CASE \E h \in Hashes, c \in Configs : EvaluateDemotion(a, h, c)
  <2>1. PICK h \in Hashes, c \in Configs : EvaluateDemotion(a, h, c)
    BY <1>3
  <2> DEFINE d == IF placement[h].pinned /\ IdleTooLong(placement[h], c)
                  THEN [hash |-> h, pin |-> FALSE] ELSE Null
  <2>2. EndTransaction(a) /\ UNCHANGED <<now, tables>>
        /\ decision' = [decision EXCEPT ![a] = d]
    BY <2>1 DEF EvaluateDemotion
  <2>3. d \in [hash : Hashes, pin : BOOLEAN] \union {Null}
    OBVIOUS
  <2>4. d # Null => (d.pin => Earned(d.hash))
    OBVIOUS
  <2>5. QED
    BY <2>2, <2>3, <2>4, EndInvariant
<1>4. QED
  BY <1>1, <1>2, <1>3

\* Pinning what has earned it, and unpinning anything, preserves the invariant.
LEMMA PinInvariant ==
    ASSUME InductiveInvariant, NEW a \in Callers, EndTransaction(a),
           UNCHANGED <<now, accesses, pruned>>,
           placement' \in [Hashes -> RowType],
           \A h \in Hashes : \E v \in BOOLEAN :
             placement'[h] = Pinned(placement[h], v) /\ (v => Earned(h)),
           UNCHANGED decision \/ decision' = [decision EXCEPT ![a] = Null]
    PROVE  InductiveInvariant'
<1> USE ConstantsAssumption DEF InductiveInvariant
<1>1. \A h \in Hashes : /\ placement'[h].accessCount = placement[h].accessCount
                        /\ placement'[h].lastAccessed = placement[h].lastAccessed
                        /\ placement'[h].interactivity = placement[h].interactivity
                        /\ placement'[h].pinned => Earned(h)
  BY DEF TypeOK, RowType, Pinned
<1> DEFINE DeclaredAfter(h) == \E r \in accesses' \union pruned' : r.hash = h /\ r.interactive
           EarnedAfter(h) == /\ DeclaredAfter(h)
                             /\ \E c \in Configs :
                                  placement'[h].accessCount >= c.frequencyThreshold
<1>2. \A h \in Hashes : /\ Declared(h) => DeclaredAfter(h)
                        /\ Earned(h) => EarnedAfter(h)
  BY <1>1 DEF Declared, Earned
<1> HIDE DEF DeclaredAfter, EarnedAfter
<1>3. decision' \in [Callers -> [hash : Hashes, pin : BOOLEAN] \union {Null}]
  BY DEF TypeOK
<1>4. TypeOK' /\ TransactionsYoung'
  BY <1>3, EndFacts DEF TypeOK
<1>5. PrunedIsOld'
  BY DEF PrunedIsOld, PruneHorizon
<1>6. LastAccessedIsRecent' /\ AccessesNumbered'
  <2>1. \A r \in accesses \union pruned : r.hash \in Hashes
    BY DEF TypeOK, AccessType
  <2>2. LastAccessedIsRecent'
    BY <1>1, <2>1 DEF LastAccessedIsRecent
  <2>3. AccessesNumbered'
    BY <1>1, <2>1 DEF AccessesNumbered
  <2>4. QED
    BY <2>2, <2>3
<1>7. InteractiveIsDeclared'
  <2>1. \A h \in Hashes : placement'[h].interactivity = "interactive" => DeclaredAfter(h)
    BY <1>1, <1>2 DEF InteractiveIsDeclared
  <2>2. \A b \in Callers : \A h \in DOMAIN seen'[b] :
          seen'[b][h].interactivity = "interactive" => DeclaredAfter(h)
    BY <1>2, EndFacts DEF InteractiveIsDeclared, TypeOK
  <2>3. ASSUME NEW b \in Callers, decision'[b] # Null, decision'[b].pin
        PROVE  EarnedAfter(decision'[b].hash)
    <3>1. decision'[b] = decision[b] /\ decision[b].hash \in Hashes
      BY <2>3 DEF TypeOK
    <3>2. QED
      BY <2>3, <3>1, <1>2 DEF InteractiveIsDeclared
  <2>4. QED
    BY <2>1, <2>2, <2>3
       DEF InteractiveIsDeclared, Declared, Earned, DeclaredAfter, EarnedAfter
<1>8. PinnedEarnedIt'
  <2>1. \A h \in Hashes : placement'[h].pinned => EarnedAfter(h)
    BY <1>1, <1>2
  <2>2. QED
    BY <2>1 DEF PinnedEarnedIt, Earned, Declared, EarnedAfter, DeclaredAfter
<1>9. RowsLocked'
  <2>1. \A b \in Callers : held[b] \subseteq Hashes
    BY DEF TypeOK
  <2>2. \A b \in Callers : /\ held'[b] \subseteq held[b]
                           /\ pc'[b] = "recording" => pc[b] = "recording"
    BY EndFacts
  <2>3. QED
    BY <1>1, <2>1, <2>2 DEF RowsLocked
<1>10. QED
  BY <1>4, <1>5, <1>6, <1>7, <1>8, <1>9

\* promote() and demote() act on an answer that may be old, but was earned.
LEMMA SetPinnedInvariant ==
    ASSUME InductiveInvariant, NEW a \in Callers, SetPinned(a)
    PROVE  InductiveInvariant'
<1> USE DEF InductiveInvariant
<1> DEFINE h == decision[a].hash
           v == decision[a].pin
<1>1. h \in Hashes /\ v \in BOOLEAN /\ (v => Earned(h))
  BY DEF SetPinned, TypeOK, InteractiveIsDeclared
<1>2. placement' = [placement EXCEPT ![h] = Pinned(placement[h], v)]
  BY DEF SetPinned
<1>3. ASSUME NEW k \in Hashes
      PROVE  /\ placement'[k] \in RowType
             /\ \E w \in BOOLEAN :
                  placement'[k] = Pinned(placement[k], w) /\ (w => Earned(k))
  <2>1. placement[k] \in RowType
    BY DEF TypeOK
  <2>2. CASE k = h
    BY <1>1, <1>2, <2>1, <2>2 DEF TypeOK, Pinned, RowType
  <2>3. CASE k # h
    <3>1. placement'[k] = placement[k]
      BY <1>2, <2>3 DEF TypeOK
    <3>2. placement[k] = Pinned(placement[k], placement[k].pinned)
      BY <2>1 DEF Pinned, RowType
    <3>3. placement[k].pinned \in BOOLEAN
      BY <2>1 DEF RowType
    <3>4. QED
      BY <2>1, <3>1, <3>2, <3>3 DEF PinnedEarnedIt
  <2>4. QED
    BY <2>2, <2>3
<1>4. placement' \in [Hashes -> RowType]
  BY <1>2, <1>3 DEF TypeOK
<1>5. EndTransaction(a) /\ UNCHANGED <<now, accesses, pruned>>
      /\ decision' = [decision EXCEPT ![a] = Null]
  BY DEF SetPinned
<1>6. QED
  BY <1>3, <1>4, <1>5, PinInvariant

\* An eviction only unpins.
LEMMA EvictionInvariant ==
    ASSUME InductiveInvariant, NEW a \in Callers, CommitEviction(a)
    PROVE  InductiveInvariant'
<1> USE DEF InductiveInvariant
<1>1. ASSUME NEW k \in Hashes
      PROVE  /\ placement'[k] \in RowType
             /\ \E w \in BOOLEAN :
                  placement'[k] = Pinned(placement[k], w) /\ (w => Earned(k))
  <2>1. placement[k] \in RowType /\ placement[k].pinned \in BOOLEAN
    BY DEF TypeOK, RowType
  <2>2. placement[k] = Pinned(placement[k], placement[k].pinned)
    BY <2>1 DEF Pinned, RowType
  <2>3. Pinned(placement[k], FALSE) \in RowType
    BY <2>1 DEF Pinned, RowType
  <2>4. placement'[k] = placement[k] \/ placement'[k] = Pinned(placement[k], FALSE)
    BY DEF CommitEviction
  <2>5. QED
    BY <2>1, <2>2, <2>3, <2>4 DEF PinnedEarnedIt
<1>2. placement' \in [Hashes -> RowType]
  BY <1>1 DEF CommitEviction
<1>3. EndTransaction(a) /\ UNCHANGED <<now, accesses, pruned, decision>>
  BY DEF CommitEviction
<1>4. QED
  BY <1>1, <1>2, <1>3, PinInvariant

\* recordAccess adds one numbered row, prunes only what is past the horizon, and
\* sets last_accessed_at to a time at most MaxTxn ago.
LEMMA CommitAccessInvariant ==
    ASSUME InductiveInvariant, NEW a \in Callers, CommitAccess(a)
    PROVE  InductiveInvariant'
<1> USE ConstantsAssumption DEF InductiveInvariant
<1>1. PICK h \in held[a] :
        LET logged == accesses \union {AccessRow(a, h)}
            old == {r \in logged : r.hash = h /\ r.at < began[a] - PruneHorizon(config[a])}
        IN /\ placement' = [placement EXCEPT ![h] = Upserted(placement[h], given[a], began[a])]
           /\ accesses' = logged \ old
           /\ pruned' = pruned \union old
  BY DEF CommitAccess
<1> DEFINE new == AccessRow(a, h)
           o == given[a]
           c == config[a]
<1>2. /\ h \in Hashes /\ o \in Options /\ c \in Configs /\ placement[h] \in RowType
      /\ began[a] \in 0 .. MaxTime /\ began[a] <= now /\ now <= began[a] + MaxTxn
  BY DEF CommitAccess, TypeOK, TransactionsYoung
<1>3. placement[h].accessCount \in Nat /\ placement[h].accessCount < MaxAccesses
  BY <1>2 DEF CommitAccess, RowsLocked, RowType
<1>4. /\ placement'[h] \in RowType
      /\ placement'[h].accessCount = placement[h].accessCount + 1
      /\ placement'[h].lastAccessed = began[a]
      /\ placement'[h].pinned = placement[h].pinned
      /\ placement'[h].interactivity = "interactive" =>
           o.interactivity = "interactive" \/ placement[h].interactivity = "interactive"
  BY <1>1, <1>2, <1>3, UpsertedType DEF TypeOK
<1>5. \A k \in Hashes : k # h => placement'[k] = placement[k]
  BY <1>1 DEF TypeOK
<1>6. new \in AccessType /\ new.hash = h /\ new.at = began[a]
      /\ new.nth = placement[h].accessCount + 1
      /\ (o.interactivity = "interactive" => new.interactive)
  <2>1. new.hash = h /\ new.at = began[a] /\ new.nth = placement[h].accessCount + 1
    BY DEF AccessRow
  <2>2. new.interactive = (o.interactivity = "interactive") /\ new.interactive \in BOOLEAN
    BY DEF AccessRow
  <2>3. placement[h].accessCount + 1 \in 1 .. MaxAccesses
    BY <1>3
  <2>4. new \in AccessType
    BY <1>2, <2>1, <2>2, <2>3 DEF AccessRow, AccessType
  <2>5. QED
    BY <2>1, <2>2, <2>4
<1>7. accesses' \union pruned' = accesses \union pruned \union {new}
      /\ accesses' \subseteq accesses \union {new}
  BY <1>1
<1>8. EndTransaction(a) /\ UNCHANGED <<now, decision>>
  BY DEF CommitAccess
<1>9. TypeOK' /\ TransactionsYoung'
  <2>1. placement' \in [Hashes -> RowType]
    BY <1>1, <1>4, <1>5 DEF TypeOK
  <2>2. accesses' \subseteq AccessType /\ pruned' \subseteq AccessType
    BY <1>6, <1>7 DEF TypeOK
  <2>3. QED
    BY <1>8, <2>1, <2>2, EndFacts DEF TypeOK
<1>10. RowsLocked'
  <2>1. \A b \in Callers : held[b] \subseteq Hashes
    BY DEF TypeOK
  <2>2. \A b \in Callers : /\ held'[b] \subseteq held[b]
                           /\ pc'[b] = "recording" => pc[b] = "recording" /\ b # a
    BY <1>8, EndFacts
  <2>3. \A b \in Callers : b # a => h \notin held[b]
    BY DEF RowsLocked
  <2>4. QED
    BY <1>5, <2>1, <2>2, <2>3 DEF RowsLocked
<1>11. PrunedIsOld'
  <2>1. PruneHorizon(c) \in Nat
    BY <1>2 DEF PruneHorizon, ConfigsType
  <2>2. ASSUME NEW r \in pruned', r \notin pruned
        PROVE  r.at < now - PruneHorizon(c)
    <3>1. r.at < began[a] - PruneHorizon(c) /\ r \in accesses \union {new}
      BY <1>1, <2>2
    <3>2. r.at \in Int /\ now \in Int
      BY <1>6, <3>1 DEF TypeOK, AccessType
    <3>3. QED
      BY <1>2, <2>1, <3>1, <3>2
  <2>3. QED
    BY <1>2, <1>8, <2>2 DEF PrunedIsOld, PruneHorizon
<1>12. LastAccessedIsRecent'
  <2> SUFFICES ASSUME NEW r \in accesses'
               PROVE  r.at <= now /\ r.at <= placement'[r.hash].lastAccessed + MaxTxn
    BY <1>8 DEF LastAccessedIsRecent
  <2>1. CASE r = new
    BY <1>2, <1>4, <1>6, <2>1 DEF TypeOK
  <2>2. CASE r \in accesses /\ r.hash = h
    <3>1. r.at <= now /\ r.at \in Int /\ now \in Int
      BY <2>2 DEF LastAccessedIsRecent, TypeOK, AccessType
    <3>2. QED
      BY <1>2, <1>4, <2>2, <3>1
  <2>3. CASE r \in accesses /\ r.hash # h
    BY <1>5, <2>3 DEF LastAccessedIsRecent, TypeOK, AccessType
  <2>4. QED
    BY <1>7, <2>1, <2>2, <2>3
<1>13. AccessesNumbered'
  <2>1. \A r \in accesses \union pruned : r.hash \in Hashes /\ r.nth \in Nat
    BY DEF TypeOK, AccessType
  <2>2. \A r \in accesses \union pruned : r.hash = h => r.nth <= placement[h].accessCount
    BY DEF AccessesNumbered
  <2>3. \A r \in accesses' \union pruned' : r.nth <= placement'[r.hash].accessCount
    BY <1>3, <1>4, <1>5, <1>6, <1>7, <2>1, <2>2 DEF AccessesNumbered
  <2>4. \A r, q \in accesses' \union pruned' : r.hash = q.hash /\ r.nth = q.nth => r = q
    BY <1>3, <1>6, <1>7, <2>1, <2>2 DEF AccessesNumbered
  <2>5. QED
    BY <2>3, <2>4 DEF AccessesNumbered
<1> DEFINE DeclaredAfter(k) == \E r \in accesses' \union pruned' : r.hash = k /\ r.interactive
           EarnedAfter(k) == /\ DeclaredAfter(k)
                             /\ \E d \in Configs :
                                  placement'[k].accessCount >= d.frequencyThreshold
<1>14. \A k \in Hashes : /\ Declared(k) => DeclaredAfter(k)
                         /\ Earned(k) => EarnedAfter(k)
  <2>1. \A k \in Hashes : /\ placement[k].accessCount \in Nat
                          /\ placement'[k].accessCount \in Nat
                          /\ placement'[k].accessCount >= placement[k].accessCount
    BY <1>3, <1>4, <1>5 DEF TypeOK, RowType
  <2>2. \A d \in Configs : d.frequencyThreshold \in Nat
    BY DEF ConfigsType
  <2>3. \A k \in Hashes : Declared(k) => DeclaredAfter(k)
    BY <1>7 DEF Declared
  <2>4. QED
    BY <2>1, <2>2, <2>3 DEF Earned
<1>15. o.interactivity = "interactive" => DeclaredAfter(h)
  BY <1>6, <1>7
<1> HIDE DEF DeclaredAfter, EarnedAfter
<1>16. InteractiveIsDeclared'
  <2>1. \A k \in Hashes : placement'[k].interactivity = "interactive" => DeclaredAfter(k)
    BY <1>2, <1>4, <1>5, <1>14, <1>15 DEF InteractiveIsDeclared
  <2>2. \A b \in Callers : \A k \in DOMAIN seen'[b] :
          seen'[b][k].interactivity = "interactive" => DeclaredAfter(k)
    BY <1>8, <1>14, EndFacts DEF InteractiveIsDeclared, TypeOK
  <2>3. ASSUME NEW b \in Callers, decision'[b] # Null, decision'[b].pin
        PROVE  EarnedAfter(decision'[b].hash)
    BY <1>8, <1>14, <2>3 DEF InteractiveIsDeclared, TypeOK
  <2>4. QED
    BY <2>1, <2>2, <2>3
       DEF InteractiveIsDeclared, Declared, Earned, DeclaredAfter, EarnedAfter
<1>17. PinnedEarnedIt'
  <2>1. \A k \in Hashes : placement'[k].pinned => EarnedAfter(k)
    BY <1>4, <1>5, <1>14 DEF PinnedEarnedIt
  <2>2. QED
    BY <2>1 DEF PinnedEarnedIt, Earned, Declared, EarnedAfter, DeclaredAfter
<1>18. QED
  BY <1>9, <1>10, <1>11, <1>12, <1>13, <1>16, <1>17

\* Every step of the specification preserves the invariant.
LEMMA NextInvariant == InductiveInvariant /\ [Next]_vars => InductiveInvariant'
<1> SUFFICES ASSUME InductiveInvariant, [Next]_vars PROVE InductiveInvariant'
  OBVIOUS
<1>1. CASE Tick
  BY <1>1, TickInvariant
<1>2. CASE \E a \in Callers : Operation(a)
  <2> PICK a \in Callers : Operation(a)
    BY <1>2
  <2>1. CASE \/ Begin(a)
             \/ \E h \in Hashes, o \in Options, c \in Configs : UpsertAccess(a, h, o, c)
             \/ \E h \in Hashes : PassOver(a, h) \/ Unpin(a, h)
    BY <2>1, LockInvariant
  <2>2. CASE \E c \in Configs : ListPinned(a, c) \/ \E h \in Hashes : ReadForPromotion(a, h, c)
    BY <2>2, ReadInvariant
  <2>3. CASE \/ Rollback(a)
             \/ \E h \in Hashes : PromotionRefused(a, h)
             \/ \E h \in Hashes, c \in Configs : EvaluateDemotion(a, h, c)
             \/ \E c \in Configs : WithinCapacity(a, c)
    BY <2>3, AnswerInvariant
  <2>4. CASE CountAccesses(a)
    BY <2>4, CountInvariant
  <2>5. CASE CommitAccess(a)
    BY <2>5, CommitAccessInvariant
  <2>6. CASE SetPinned(a)
    BY <2>6, SetPinnedInvariant
  <2>7. CASE CommitEviction(a)
    BY <2>7, EvictionInvariant
  <2>8. QED
    BY <2>1, <2>2, <2>3, <2>4, <2>5, <2>6, <2>7 DEF Operation
<1>3. CASE UNCHANGED vars
  BY <1>3 DEF vars, InductiveInvariant, TypeOK, TransactionsYoung, RowsLocked, PrunedIsOld,
              PruneHorizon, LastAccessedIsRecent, AccessesNumbered, InteractiveIsDeclared,
              PinnedEarnedIt, Earned, Declared
<1>4. QED
  BY <1>1, <1>2, <1>3 DEF Next

\* The inductive invariant holds throughout, for any number of callers and hashes:
\* it is what the row locks and the horizon of pruneOlderThan buy.
THEOREM Invariance == Spec => []InductiveInvariant
<1>1. Init => InductiveInvariant
  BY InitInvariant
<1>2. InductiveInvariant /\ [Next]_vars => InductiveInvariant'
  BY NextInvariant
<1>3. QED
  BY <1>1, <1>2, PTL DEF Spec

\* Every variable stays within its type.
THEOREM TypeCorrectness == Spec => []TypeOK
<1>1. InductiveInvariant => TypeOK
  BY DEF InductiveInvariant
<1>2. QED
  BY <1>1, Invariance, PTL

\* promote() pins only hashes that some access declared interactive and that were
\* accessed often enough, however old the answer it acts on.
THEOREM PinsAreEarned == Spec => []PinnedEarnedIt
<1>1. InductiveInvariant => PinnedEarnedIt
  BY DEF InductiveInvariant
<1>2. QED
  BY <1>1, Invariance, PTL

\* With a margin as long as the longest transaction between every window and every
\* idle threshold, countWithinWindow never misses a row that pruneOlderThan deleted.
THEOREM WindowsAreExact ==
    ASSUME Margin
    PROVE  Spec => []WindowCountsExact
<1>1. InductiveInvariant => WindowCountsExact
  <2> SUFFICES ASSUME InductiveInvariant, NEW a \in Callers, pc[a] = "counting",
                      NEW r \in pruned
               PROVE  r.at < began[a] - config[a].frequencyWindow
    BY DEF WindowCountsExact
  <2>1. config[a] \in Configs /\ began[a] \in Int /\ now \in Int /\ now <= began[a] + MaxTxn
    BY DEF InductiveInvariant, TypeOK, TransactionsYoung
  <2>2. PICK c \in Configs : r.at < now - PruneHorizon(c)
    BY DEF InductiveInvariant, PrunedIsOld
  <2>3. /\ PruneHorizon(c) \in Nat /\ PruneHorizon(c) >= c.idleThreshold
        /\ c.idleThreshold \in Nat /\ config[a].frequencyWindow \in Nat
    BY <2>1, ConstantsAssumption DEF PruneHorizon, ConfigsType
  <2>4. config[a].frequencyWindow + MaxTxn <= c.idleThreshold
    BY <2>1 DEF Margin
  <2>5. r.at \in Int
    BY DEF InductiveInvariant, TypeOK, AccessType
  <2>6. QED
    BY <2>1, <2>2, <2>3, <2>4, <2>5, ConstantsAssumption
<1>2. QED
  BY <1>1, Invariance, PTL

\* With the same margin no hash is hot and idle at once, though last_accessed_at may
\* go back when transactions commit in another order than they began.
THEOREM Hysteresis ==
    ASSUME Margin
    PROVE  Spec => []HotIsNeverIdle
<1>1. InductiveInvariant => HotIsNeverIdle
  <2> SUFFICES ASSUME InductiveInvariant, NEW h \in Hashes, NEW c \in Configs,
                      Cardinality(AccessesSince(h, now - c.frequencyWindow))
                        >= c.frequencyThreshold
               PROVE  ~IdleTooLong(placement[h], c)
    BY DEF HotIsNeverIdle
  <2>1. /\ c.frequencyThreshold \in Nat \ {0} /\ c.frequencyWindow \in Nat
        /\ c.idleThreshold \in Nat /\ c.frequencyWindow + MaxTxn <= c.idleThreshold
    BY ConstantsAssumption DEF ConfigsType, Margin
  <2>2. AccessesSince(h, now - c.frequencyWindow) # {}
    <3>1. Cardinality({}) = 0
      BY FS_EmptySet
    <3>2. ~(0 >= c.frequencyThreshold)
      BY <2>1
    <3>3. QED
      BY <3>1, <3>2
  <2>3. PICK r \in accesses : r.hash = h /\ r.at >= now - c.frequencyWindow
    BY <2>2 DEF AccessesSince
  <2>4. r.at <= placement[h].lastAccessed + MaxTxn
    BY <2>3 DEF InductiveInvariant, LastAccessedIsRecent
  <2>5. r.at \in Int /\ placement[h].lastAccessed \in Int /\ now \in Int
    BY DEF InductiveInvariant, TypeOK, AccessType, RowType
  <2>6. now - placement[h].lastAccessed <= c.idleThreshold
    BY <2>1, <2>3, <2>4, <2>5, ConstantsAssumption
  <2>7. QED
    BY <2>1, <2>5, <2>6 DEF IdleTooLong
<1>2. QED
  BY <1>1, Invariance, PTL

\* ------------------------------------------------------------------- evictions

\* What a caller remembers stays in order while nobody touches it.
LEMMA OthersInOrder ==
    ASSUME NEW b \in Callers, EvictionInOrder(b),
           pc'[b] = pc[b], held'[b] = held[b], seen'[b] = seen[b], left'[b] = left[b]
    PROVE  EvictionInOrder(b)'
BY DEF EvictionInOrder

\* A transaction that ends holds no row, and other transactions keep their own.
LEMMA EndInOrder ==
    ASSUME InductiveInvariant, InductiveEvictions, NEW a \in Callers, EndTransaction(a)
    PROVE  \A b \in Callers : EvictionInOrder(b)'
<1> USE DEF InductiveInvariant, TypeOK, EndTransaction
<1> TAKE b \in Callers
<1>1. CASE b = a
  BY <1>1 DEF EvictionInOrder
<1>2. CASE b # a
  BY <1>2, OthersInOrder DEF InductiveEvictions
<1>3. QED
  BY <1>1, <1>2

\* Every step of an eviction takes the next row in the order of use.
LEMMA OrderKept ==
    ASSUME InductiveInvariant, InductiveEvictions, [Next]_vars
    PROVE  \A b \in Callers : EvictionInOrder(b)'
<1> USE DEF InductiveInvariant, TypeOK, InductiveEvictions
<1> SUFFICES ASSUME NEW b \in Callers PROVE EvictionInOrder(b)'
  OBVIOUS
<1>0. EvictionInOrder(b)
  OBVIOUS
<1>1. CASE Tick \/ UNCHANGED vars
  BY <1>1, OthersInOrder DEF Tick, txn, vars
<1>2. ASSUME NEW a \in Callers, Operation(a)
      PROVE  EvictionInOrder(b)'
  <2>1. CASE EndTransaction(a)
    BY <2>1, EndInOrder
  <2>2. CASE \/ Begin(a)
             \/ \E h \in Hashes, o \in Options, c \in Configs : UpsertAccess(a, h, o, c)
    <3>1. CASE b = a
      BY <1>0, <2>2, <3>1 DEF Begin, UpsertAccess, EvictionInOrder
    <3>2. CASE b # a
      BY <2>2, <3>2, OthersInOrder DEF Begin, UpsertAccess
    <3>3. QED
      BY <3>1, <3>2
  <2>3. CASE \E h \in Hashes, c \in Configs : ReadForPromotion(a, h, c)
    <3>1. CASE b = a
      BY <1>0, <2>3, <3>1 DEF ReadForPromotion, EvictionInOrder
    <3>2. CASE b # a
      BY <2>3, <3>2, OthersInOrder DEF ReadForPromotion
    <3>3. QED
      BY <3>1, <3>2
  <2>4. CASE \E c \in Configs : ListPinned(a, c)
    <3>1. CASE b = a
      <4>1. pc'[b] = "evicting" /\ held'[b] = {} /\ left'[b] = PinnedHashes
        BY <1>0, <2>4, <3>1 DEF ListPinned, EvictionInOrder
      <4>2. DOMAIN seen'[b] = PinnedHashes
        BY <2>4, <3>1 DEF ListPinned
      <4>3. QED
        BY <4>1, <4>2 DEF EvictionInOrder
    <3>2. CASE b # a
      BY <2>4, <3>2, OthersInOrder DEF ListPinned
    <3>3. QED
      BY <3>1, <3>2
  <2>5. CASE \E h \in Hashes : PassOver(a, h) \/ Unpin(a, h)
    <3>1. PICK h \in Hashes : PassOver(a, h) \/ Unpin(a, h)
      BY <2>5
    <3>2. CASE b = a
      <4>1. /\ pc[b] = "evicting" /\ pc'[b] = "evicting" /\ seen'[b] = seen[b]
            /\ h \in left[b] /\ left'[b] = left[b] \ {h}
            /\ \A k \in left[b] : seen[b][h].lastAccessed <= seen[b][k].lastAccessed
        BY <3>1, <3>2 DEF PassOver, Unpin, LeastRecentlyUsed
      <4>2. \/ held'[b] = held[b] /\ seen[b][h].sizeBytes <= 0
            \/ held'[b] = held[b] \union {h}
        BY <3>1, <3>2 DEF PassOver, Unpin
      <4>3. h \in DOMAIN seen[b] /\ seen[b][h].sizeBytes \in Nat
        BY <1>0, <4>1 DEF EvictionInOrder, RowType
      <4>4. \A k \in DOMAIN seen'[b] \ (held'[b] \union left'[b]) : seen'[b][k].sizeBytes = 0
        BY <1>0, <4>1, <4>2, <4>3 DEF EvictionInOrder
      <4>5. \A j \in held'[b], k \in left'[b] :
              seen'[b][j].lastAccessed <= seen'[b][k].lastAccessed
        BY <1>0, <4>1, <4>2 DEF EvictionInOrder
      <4>6. held'[b] \subseteq DOMAIN seen'[b] /\ left'[b] \subseteq DOMAIN seen'[b]
        BY <1>0, <4>1, <4>2, <4>3 DEF EvictionInOrder
      <4>7. QED
        BY <4>1, <4>4, <4>5, <4>6 DEF EvictionInOrder
    <3>3. CASE b # a
      BY <3>1, <3>3, OthersInOrder DEF PassOver, Unpin
    <3>4. QED
      BY <3>2, <3>3
  <2>6. QED
    BY <1>2, <2>1, <2>2, <2>3, <2>4, <2>5
       DEF Operation, Rollback, CommitAccess, CountAccesses, SetPinned, CommitEviction,
           PromotionRefused, EvaluateDemotion, WithinCapacity
<1>3. QED
  BY <1>1, <1>2 DEF Next

\* A row changes what it says of its use and its size only when it is accessed.
LEMMA RowsChangeByAccess ==
    ASSUME InductiveInvariant, [Next]_vars, NEW h \in Hashes
    PROVE  /\ placement'[h].accessCount >= placement[h].accessCount
           /\ placement'[h].accessCount = placement[h].accessCount =>
                /\ placement'[h].lastAccessed = placement[h].lastAccessed
                /\ placement'[h].sizeBytes = placement[h].sizeBytes
<1> USE DEF InductiveInvariant
<1>1. placement[h] \in RowType /\ placement[h].accessCount \in Nat
  BY DEF TypeOK, RowType
<1>2. CASE placement'[h] = placement[h]
  BY <1>1, <1>2
<1>3. ASSUME NEW v, placement'[h] = Pinned(placement[h], v)
      PROVE  /\ placement'[h].accessCount = placement[h].accessCount
             /\ placement'[h].lastAccessed = placement[h].lastAccessed
             /\ placement'[h].sizeBytes = placement[h].sizeBytes
  BY <1>1, <1>3 DEF Pinned, RowType
<1>4. ASSUME NEW a \in Callers, SetPinned(a)
      PROVE  placement'[h] = placement[h] \/ \E v : placement'[h] = Pinned(placement[h], v)
  BY <1>4 DEF SetPinned, TypeOK
<1>5. ASSUME NEW a \in Callers, CommitEviction(a)
      PROVE  placement'[h] = placement[h] \/ \E v : placement'[h] = Pinned(placement[h], v)
  BY <1>5 DEF CommitEviction, TypeOK
<1>6. ASSUME NEW a \in Callers, CommitAccess(a)
      PROVE  placement'[h] = placement[h] \/ placement'[h].accessCount = placement[h].accessCount + 1
  <2>1. PICK k \in held[a] :
          placement' = [placement EXCEPT ![k] = Upserted(placement[k], given[a], began[a])]
    BY <1>6 DEF CommitAccess
  <2>2. CASE k = h
    <3>1. placement'[h] = Upserted(placement[h], given[a], began[a])
      BY <2>1, <2>2 DEF TypeOK
    <3>2. QED
      BY <3>1 DEF Upserted
  <2>3. CASE k # h
    BY <2>1, <2>3 DEF TypeOK
  <2>4. QED
    BY <2>2, <2>3
<1>7. \/ placement'[h] = placement[h]
      \/ \E v : placement'[h] = Pinned(placement[h], v)
      \/ placement'[h].accessCount = placement[h].accessCount + 1
  <2>1. CASE UNCHANGED placement
    BY <2>1
  <2>2. CASE \E a \in Callers : SetPinned(a) \/ CommitEviction(a) \/ CommitAccess(a)
    BY <1>4, <1>5, <1>6, <2>2
  <2>3. CASE Tick \/ UNCHANGED vars
    BY <2>1, <2>3 DEF Tick, vars, tables
  <2>4. ASSUME NEW a \in Callers, Operation(a)
        PROVE  \/ UNCHANGED placement
               \/ SetPinned(a) \/ CommitEviction(a) \/ CommitAccess(a)
    BY <2>4 DEF Operation, tables, Begin, Rollback, CountAccesses, UpsertAccess,
                PromotionRefused, PassOver, Unpin, ReadForPromotion, EvaluateDemotion,
                WithinCapacity, ListPinned
  <2>5. QED
    BY <2>1, <2>2, <2>3, <2>4 DEF Next
<1>8. QED
  BY <1>1, <1>2, <1>3, <1>7

\* What was read of a row is replaced by what the row is now, forgotten, or kept.
LEMMA ReadsKept ==
    ASSUME InductiveInvariant, InductiveEvictions, [Next]_vars
    PROVE  \A b \in Callers : ReadsStandUntilAccess(b)'
<1> USE DEF InductiveInvariant
<1> SUFFICES ASSUME NEW b \in Callers, NEW h \in DOMAIN seen'[b]
             PROVE  /\ seen'[b][h].accessCount <= placement'[h].accessCount
                    /\ seen'[b][h].accessCount = placement'[h].accessCount =>
                         /\ seen'[b][h].lastAccessed = placement'[h].lastAccessed
                         /\ seen'[b][h].sizeBytes = placement'[h].sizeBytes
  BY DEF ReadsStandUntilAccess
<1>1. \/ h \in DOMAIN seen[b] /\ seen'[b][h] = seen[b][h]
      \/ h \in Hashes /\ seen'[b][h] = placement[h] /\ UNCHANGED placement
  <2>1. CASE UNCHANGED seen
    BY <2>1
  <2>2. ASSUME NEW a \in Callers, EndTransaction(a)
        PROVE  h \in DOMAIN seen[b] /\ seen'[b][h] = seen[b][h]
    BY <2>2 DEF EndTransaction, TypeOK, NothingSeen
  <2>3. ASSUME NEW a \in Callers,
               \E c \in Configs : ListPinned(a, c) \/ \E k \in Hashes : ReadForPromotion(a, k, c)
        PROVE  \/ h \in DOMAIN seen[b] /\ seen'[b][h] = seen[b][h]
               \/ h \in Hashes /\ seen'[b][h] = placement[h] /\ UNCHANGED placement
    <3>1. UNCHANGED placement
      BY <2>3 DEF ListPinned, ReadForPromotion, tables
    <3>2. PICK S \in SUBSET Hashes : seen' = [seen EXCEPT ![a] = [k \in S |-> placement[k]]]
      <4>1. CASE \E c \in Configs : ListPinned(a, c)
        BY <4>1 DEF ListPinned, PinnedHashes
      <4>2. CASE \E c \in Configs, k \in Hashes : ReadForPromotion(a, k, c)
        <5>1. PICK k \in Hashes : seen' = [seen EXCEPT ![a] = [j \in {k} |-> placement[j]]]
          BY <4>2 DEF ReadForPromotion
        <5>2. {k} \in SUBSET Hashes
          OBVIOUS
        <5>3. QED
          BY <5>1, <5>2
      <4>3. QED
        BY <2>3, <4>1, <4>2
    <3>3. CASE b = a
      BY <3>1, <3>2, <3>3 DEF TypeOK
    <3>4. CASE b # a
      BY <3>2, <3>4 DEF TypeOK
    <3>5. QED
      BY <3>3, <3>4
  <2>4. CASE Tick \/ UNCHANGED vars
    BY <2>1, <2>4 DEF Tick, vars, txn
  <2>5. ASSUME NEW a \in Callers, Operation(a)
        PROVE  \/ UNCHANGED seen
               \/ EndTransaction(a)
               \/ \E c \in Configs : ListPinned(a, c) \/ \E k \in Hashes : ReadForPromotion(a, k, c)
    BY <2>5 DEF Operation, Begin, Rollback, CommitAccess, CountAccesses, SetPinned,
                CommitEviction, UpsertAccess, PromotionRefused, PassOver, Unpin,
                EvaluateDemotion, WithinCapacity
  <2>6. QED
    BY <2>1, <2>2, <2>3, <2>4, <2>5 DEF Next
<1>2. h \in Hashes
  BY <1>1 DEF TypeOK
<1>3. placement[h].accessCount \in Nat
  BY <1>2 DEF TypeOK, RowType
<1>4. CASE h \in DOMAIN seen[b] /\ seen'[b][h] = seen[b][h]
  <2>1. /\ seen[b][h].accessCount <= placement[h].accessCount
        /\ seen[b][h].accessCount = placement[h].accessCount =>
             /\ seen[b][h].lastAccessed = placement[h].lastAccessed
             /\ seen[b][h].sizeBytes = placement[h].sizeBytes
    BY <1>4 DEF InductiveEvictions, ReadsStandUntilAccess
  <2>2. seen[b][h].accessCount \in Nat
    BY <1>4 DEF TypeOK, RowType
  <2>3. placement'[h].accessCount \in Nat
    <3>1. TypeOK'
      BY NextInvariant
    <3>2. QED
      BY <1>2, <3>1 DEF TypeOK, RowType
  <2>4. /\ placement'[h].accessCount >= placement[h].accessCount
        /\ placement'[h].accessCount = placement[h].accessCount =>
             /\ placement'[h].lastAccessed = placement[h].lastAccessed
             /\ placement'[h].sizeBytes = placement[h].sizeBytes
    BY <1>2, RowsChangeByAccess
  <2>5. QED
    BY <1>3, <1>4, <2>1, <2>2, <2>3, <2>4
<1>5. CASE seen'[b][h] = placement[h] /\ UNCHANGED placement
  BY <1>3, <1>5
<1>6. QED
  BY <1>1, <1>4, <1>5

\* What evictions have read and unpinned keeps to the order of use, and stands.
THEOREM EvictionInvariance == Spec => [](InductiveInvariant /\ InductiveEvictions)
<1>1. Init => InductiveEvictions
  BY DEF Init, InductiveEvictions, EvictionInOrder, ReadsStandUntilAccess, NothingSeen
<1>2. InductiveInvariant /\ InductiveEvictions /\ [Next]_vars => InductiveEvictions'
  BY OrderKept, ReadsKept DEF InductiveEvictions
<1>3. QED
  BY <1>1, <1>2, Invariance, PTL DEF Spec

\* Fewer rows, none of them larger, have no larger size in total.
LEMMA TotalSizeMonotonic ==
    ASSUME NEW S, IsFiniteSet(S), NEW T \in SUBSET S, NEW rows, NEW other,
           \A h \in S : rows[h].sizeBytes \in Nat,
           \A h \in T : other[h].sizeBytes \in Nat /\ other[h].sizeBytes <= rows[h].sizeBytes
    PROVE  TotalSize(other, T) <= TotalSize(rows, S) /\ TotalSize(rows, S) \in Nat
<1> DEFINE bytes == {{h} \X (1 .. rows[h].sizeBytes) : h \in S}
           fewer == {{h} \X (1 .. other[h].sizeBytes) : h \in T}
<1>1. IsFiniteSet(bytes)
  <2> DEFINE f == [h \in S |-> {h} \X (1 .. rows[h].sizeBytes)]
  <2>1. f \in Surjection(S, bytes)
    BY DEF Surjection
  <2>2. QED
    BY <2>1, FS_Surjection
<1>2. \A s \in bytes : IsFiniteSet(s)
  <2> SUFFICES ASSUME NEW h \in S PROVE IsFiniteSet({h} \X (1 .. rows[h].sizeBytes))
    OBVIOUS
  <2>1. IsFiniteSet(1 .. rows[h].sizeBytes)
    BY FS_Interval
  <2>2. IsFiniteSet({h})
    BY FS_Singleton
  <2>3. QED
    BY <2>1, <2>2, FS_Product
<1>3. IsFiniteSet(UNION bytes)
  BY <1>1, <1>2, FS_UNION
<1>4. UNION fewer \subseteq UNION bytes
  <2> SUFFICES ASSUME NEW h \in T, NEW i \in 1 .. other[h].sizeBytes
               PROVE  <<h, i>> \in {h} \X (1 .. rows[h].sizeBytes)
    OBVIOUS
  <2>1. QED
    OBVIOUS
<1>5. Cardinality(UNION fewer) <= Cardinality(UNION bytes)
  BY <1>3, <1>4, FS_Subset
<1>6. Cardinality(UNION bytes) \in Nat
  BY <1>3, FS_CardinalityType
<1>7. QED
  BY <1>5, <1>6 DEF TotalSize

\* Rows without a size count for nothing.
LEMMA TotalSizeZero ==
    ASSUME NEW T, NEW rows, \A h \in T : rows[h].sizeBytes = 0
    PROVE  TotalSize(rows, T) = 0
<1>1. UNION {{h} \X (1 .. rows[h].sizeBytes) : h \in T} = {}
  OBVIOUS
<1>2. QED
  BY <1>1, FS_EmptySet DEF TotalSize

\* Only its own operations end a transaction, and only an eviction's commit writes.
LEMMA EvictionEnds ==
    ASSUME InductiveInvariant, [Next]_vars, NEW a \in Callers,
           pc[a] = "evicting", pc'[a] = "idle"
    PROVE  CommitEviction(a) \/ placement' = placement
<1> USE DEF InductiveInvariant, TypeOK
<1>1. CASE Tick \/ UNCHANGED vars
  BY <1>1 DEF Tick, txn, vars
<1>2. ASSUME NEW b \in Callers, Operation(b)
      PROVE  CommitEviction(a) \/ placement' = placement
  <2>1. CASE b = a
    BY <1>2, <2>1
       DEF Operation, tables, Begin, Rollback, CommitAccess, CountAccesses, SetPinned,
           UpsertAccess, PromotionRefused, PassOver, Unpin, ReadForPromotion,
           EvaluateDemotion, WithinCapacity, ListPinned
  <2>2. CASE b # a
    BY <1>2, <2>2
       DEF Operation, EndTransaction, Begin, Rollback, CommitAccess, CountAccesses,
           SetPinned, CommitEviction, UpsertAccess, PromotionRefused, PassOver, Unpin,
           ReadForPromotion, EvaluateDemotion, WithinCapacity, ListPinned
  <2>3. QED
    BY <2>1, <2>2
<1>3. QED
  BY <1>1, <1>2 DEF Next

\* An eviction that nothing was promoted or grew behind brings the pinned set within
\* the budget: what stays pinned is some of the rows it read and left pinned, at no
\* more than the size it read.
THEOREM EvictionsReachBudget ==
    ASSUME IsFiniteSet(Hashes)
    PROVE  Spec => EvictionReachesBudget
<1>1. ASSUME InductiveInvariant, InductiveEvictions, [Next]_vars, NEW a \in Callers,
             pc[a] = "evicting", pc'[a] = "idle", ~Disturbed(a), placement' # placement
      PROVE  TotalSize(placement', {h \in Hashes : placement'[h].pinned})
               <= config[a].pinnedBudget
  <2> DEFINE after == {h \in Hashes : placement'[h].pinned}
             kept == DOMAIN seen[a] \ held[a]
  <2>1. CommitEviction(a)
    BY <1>1, EvictionEnds
  <2>2. /\ DOMAIN seen[a] \subseteq Hashes /\ held[a] \subseteq Hashes
        /\ \A h \in DOMAIN seen[a] : seen[a][h].sizeBytes \in Nat
        /\ \A h \in Hashes : placement[h] \in RowType
    BY <1>1 DEF InductiveInvariant, TypeOK, RowType
  <2>3. config[a].pinnedBudget \in Nat
    BY <1>1, ConstantsAssumption DEF InductiveInvariant, TypeOK, TransactionsYoung, ConfigsType
  <2>4. \A h \in Hashes : placement'[h].pinned =>
          h \notin held[a] /\ placement'[h] = placement[h]
    BY <2>1, <2>2 DEF CommitEviction, Pinned, RowType
  <2>5. ASSUME NEW h \in after
        PROVE  /\ h \in kept /\ placement'[h].sizeBytes \in Nat
               /\ placement'[h].sizeBytes <= seen[a][h].sizeBytes
    BY <1>1, <2>2, <2>4 DEF Disturbed, RowType
  <2>6. IsFiniteSet(kept)
    <3>1. kept \subseteq Hashes
      BY <2>2
    <3>2. QED
      BY <3>1, FS_Subset
  <2>7. TotalSize(placement', after) <= TotalSize(seen[a], kept)
    <3>1. after \in SUBSET kept
      BY <2>5
    <3>2. \A h \in kept : seen[a][h].sizeBytes \in Nat
      BY <2>2
    <3> HIDE DEF after, kept
    <3>3. QED
      BY <2>5, <2>6, <3>1, <3>2, TotalSizeMonotonic
  <2>8. CASE BelowBudget(a)
    <3>1. TotalSize(seen[a], kept) <= config[a].pinnedBudget
      BY <2>8 DEF BelowBudget
    <3>2. TotalSize(seen[a], kept) \in Nat
      <4>1. \A h \in kept : seen[a][h].sizeBytes \in Nat
        BY <2>2
      <4> HIDE DEF kept
      <4>2. QED
        BY <2>6, <4>1, TotalSizeMonotonic
    <3>4. TotalSize(placement', after) \in Nat
      <4>1. after \in SUBSET kept
        BY <2>5
      <4>2. IsFiniteSet(after)
        BY <2>6, <4>1, FS_Subset
      <4> HIDE DEF after
      <4>3. QED
        BY <2>5, <4>2, TotalSizeMonotonic
    <3>3. QED
      BY <2>3, <2>7, <3>1, <3>2, <3>4
  <2>9. CASE left[a] = {}
    <3>1. \A h \in kept : seen[a][h].sizeBytes = 0
      BY <1>1, <2>9 DEF InductiveEvictions, EvictionInOrder
    <3>2. \A h \in after : placement'[h].sizeBytes = 0
      BY <2>2, <2>5, <3>1
    <3>3. TotalSize(placement', after) = 0
      BY <3>2, TotalSizeZero
    <3>4. QED
      BY <2>3, <3>3
  <2>10. QED
    BY <2>1, <2>8, <2>9 DEF CommitEviction
<1>2. InductiveInvariant /\ InductiveEvictions /\ [Next]_vars =>
        [\A a \in Callers :
           pc[a] = "evicting" /\ pc'[a] = "idle" /\ held[a] # {} /\ ~Disturbed(a)
               /\ placement' # placement
             => TotalSize(placement', {h \in Hashes : placement'[h].pinned})
                  <= config[a].pinnedBudget]_vars
  BY <1>1
<1>3. QED
  BY <1>2, EvictionInvariance, PTL DEF Spec, EvictionReachesBudget

\* An eviction unpins in the order of use: no row it keeps was used less recently
\* than one it unpins, but for rows accessed behind it or without a size.
THEOREM EvictionsSpareRecentlyUsed == Spec => EvictionSparesRecentlyUsed
<1>1. ASSUME InductiveInvariant, InductiveEvictions, [Next]_vars, NEW a \in Callers,
             pc[a] = "evicting", pc'[a] = "idle",
             NEW h \in held[a], NEW k \in DOMAIN seen[a],
             placement[h].pinned, ~placement'[h].pinned, placement'[k].pinned,
             \A j \in {h, k} : placement[j].accessCount = seen[a][j].accessCount,
             placement[k].sizeBytes > 0
      PROVE  placement[h].lastAccessed <= placement[k].lastAccessed
  <2>1. CommitEviction(a)
    BY <1>1, EvictionEnds
  <2>2. k \in Hashes /\ placement[k] \in RowType
    BY <1>1 DEF InductiveInvariant, TypeOK
  <2>3. k \notin held[a]
    BY <1>1, <2>1, <2>2 DEF CommitEviction, Pinned, RowType
  <2>4. EvictionInOrder(a) /\ ReadsStandUntilAccess(a)
    BY <1>1 DEF InductiveEvictions
  <2>5. h \in DOMAIN seen[a]
    BY <1>1, <2>4 DEF EvictionInOrder
  <2>6. /\ placement[h].lastAccessed = seen[a][h].lastAccessed
        /\ placement[k].lastAccessed = seen[a][k].lastAccessed
        /\ placement[k].sizeBytes = seen[a][k].sizeBytes
    BY <1>1, <2>4, <2>5 DEF ReadsStandUntilAccess
  <2>7. k \in left[a]
    BY <1>1, <2>3, <2>4, <2>6 DEF EvictionInOrder
  <2>8. QED
    BY <1>1, <2>4, <2>6, <2>7 DEF EvictionInOrder
<1>2. InductiveInvariant /\ InductiveEvictions /\ [Next]_vars =>
        [\A a \in Callers : pc[a] = "evicting" /\ pc'[a] = "idle" =>
           \A h \in held[a], k \in DOMAIN seen[a] :
             (/\ placement[h].pinned /\ ~placement'[h].pinned /\ placement'[k].pinned
              /\ \A j \in {h, k} : placement[j].accessCount = seen[a][j].accessCount
              /\ placement[k].sizeBytes > 0)
             => placement[h].lastAccessed <= placement[k].lastAccessed]_vars
  BY <1>1
<1>3. QED
  BY <1>2, EvictionInvariance, PTL DEF Spec, EvictionSparesRecentlyUsed

==============================================================================
