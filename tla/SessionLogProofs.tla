--------------------------- MODULE SessionLogProofs ---------------------------
(***************************************************************************)
(* The safety of SessionLog for any number of sessions, clients and        *)
(* entries: the inductive invariant, the properties TLC checks on a small  *)
(* instance, and the refinement of SessionHistory.                         *)
(***************************************************************************)
EXTENDS SessionLog, SequenceTheorems, TLAPS

\* Initially there is no row and no transaction.
LEMMA InitInvariant == Init => InductiveInvariant
BY ConstantsAssumption
   DEF Init, InductiveInvariant, TypeOK, States, SequenceNumbers, MutationsSerialized,
       AppendsPrepared, LiveLogHasNoGaps

\* Ending a transaction that has written nothing preserves the invariant.
LEMMA RollbackInvariant ==
    ASSUME InductiveInvariant, NEW c \in Clients, EndTransaction(c), UNCHANGED tables
    PROVE  InductiveInvariant'
<1> USE ConstantsAssumption DEF InductiveInvariant, EndTransaction, tables
<1>1. TypeOK'
  BY DEF TypeOK, States
<1>2. MutationsSerialized'
  BY DEF TypeOK, MutationsSerialized
<1>3. AppendsPrepared'
  BY DEF TypeOK, AppendsPrepared
<1>4. LiveLogHasNoGaps'
  BY DEF LiveLogHasNoGaps
<1>5. QED
  BY <1>1, <1>2, <1>3, <1>4

\* Taking the pointer's row lock makes the transaction the session's only one,
\* so the current_sequence it reads cannot change before it ends.
LEMMA LockInvariant ==
    ASSUME InductiveInvariant, NEW c \in Clients, NEW s \in Sessions,
           (\E x \in Inputs : LockToAppend(c, s, x)) \/ LockToRewind(c, s)
    PROVE  InductiveInvariant'
<1> USE ConstantsAssumption
        DEF InductiveInvariant, LockToAppend, LockToRewind, tables, PointerFree
<1>1. TypeOK'
  BY ZenonT(60) DEF TypeOK, States
<1>2. MutationsSerialized'
  BY DEF TypeOK, MutationsSerialized
<1>3. AppendsPrepared'
  BY DEF TypeOK, AppendsPrepared
<1>4. LiveLogHasNoGaps'
  BY DEF LiveLogHasNoGaps
<1>5. QED
  BY <1>1, <1>2, <1>3, <1>4

\* DELETE and INSERT prepare the append; nothing is committed yet.
LEMMA PrepareInvariant ==
    ASSUME InductiveInvariant, NEW c \in Clients, DeleteAfter(c) \/ InsertEntry(c)
    PROVE  InductiveInvariant'
<1> USE ConstantsAssumption DEF InductiveInvariant, DeleteAfter, InsertEntry, tables
<1>1. TypeOK'
  BY DEF TypeOK, States
<1>2. MutationsSerialized'
  BY DEF TypeOK, MutationsSerialized
<1>3. AppendsPrepared'
  BY DEF TypeOK, AppendsPrepared
<1>4. LiveLogHasNoGaps'
  BY DEF LiveLogHasNoGaps
<1>5. QED
  BY <1>1, <1>2, <1>3, <1>4

\* What a transaction about to commit an append knows of its session.
LEMMA ReadyToAppend ==
    ASSUME InductiveInvariant, NEW c \in Clients, pc[c] = "inserted"
    PROVE  /\ session[c] \in Sessions /\ input[c] \in Inputs
           /\ read[c] = pointer[session[c]] /\ read[c] \in Nat /\ read[c] < MaxLength
           /\ \A n \in 1 .. read[c] : n \in SequenceNumbers /\ n \notin deleted[c]
BY ConstantsAssumption
   DEF InductiveInvariant, TypeOK, MutationsSerialized, AppendsPrepared, SequenceNumbers

\* The commit of an append extends the live log by one row and leaves no gap.
LEMMA CommitAppendInvariant ==
    ASSUME InductiveInvariant, NEW c \in Clients, CommitAppend(c)
    PROVE  InductiveInvariant'
<1> USE ConstantsAssumption
<1> DEFINE s == session[c]
<1>1. /\ pc[c] = "inserted"
      /\ pointer' = [pointer EXCEPT ![s] = read[c] + 1]
      /\ log' = [log EXCEPT ![s] = [n \in SequenceNumbers |->
                   IF n = read[c] + 1 THEN input[c]
                   ELSE IF n \in deleted[c] THEN NoEntry ELSE log[s][n]]]
      /\ EndTransaction(c)
  BY DEF CommitAppend
<1>2. /\ s \in Sessions /\ input[c] \in Inputs /\ read[c] \in Nat
      /\ read[c] = pointer[s] /\ read[c] < MaxLength
      /\ \A n \in 1 .. read[c] : n \in SequenceNumbers /\ n \notin deleted[c]
  BY <1>1, ReadyToAppend
<1> HIDE DEF s
<1>3. TypeOK'
  <2>1. pointer' \in [Sessions -> 0 .. MaxLength]
    BY <1>1, <1>2 DEF InductiveInvariant, TypeOK
  <2>2. log' \in [Sessions -> [SequenceNumbers -> Inputs \union {NoEntry}]]
    BY <1>1, <1>2 DEF InductiveInvariant, TypeOK
  <2>3. QED
    BY <1>1, <2>1, <2>2 DEF InductiveInvariant, TypeOK, States, EndTransaction
<1>4. \A d \in Clients \ {c} : session[d] # s
  BY <1>1 DEF InductiveInvariant, MutationsSerialized, s
<1>5. MutationsSerialized'
  BY <1>1, <1>4 DEF InductiveInvariant, TypeOK, MutationsSerialized, EndTransaction
<1>6. AppendsPrepared'
  BY <1>1, <1>2, <1>4
     DEF InductiveInvariant, TypeOK, MutationsSerialized, AppendsPrepared, EndTransaction
<1>7. LiveLogHasNoGaps'
  <2> SUFFICES ASSUME NEW t \in Sessions, NEW n \in 1 .. pointer'[t]
               PROVE  log'[t][n] # NoEntry
    BY DEF LiveLogHasNoGaps
  <2>1. CASE t # s
    BY <1>1, <2>1 DEF InductiveInvariant, TypeOK, LiveLogHasNoGaps
  <2>2. CASE t = s
    <3>1. n \in SequenceNumbers /\ n \in 1 .. read[c] + 1
      BY <1>1, <1>2, <2>2 DEF InductiveInvariant, TypeOK, SequenceNumbers
    <3>2. log'[t][n] = IF n = read[c] + 1 THEN input[c]
                       ELSE IF n \in deleted[c] THEN NoEntry ELSE log[s][n]
      BY <1>1, <1>2, <2>2, <3>1 DEF InductiveInvariant, TypeOK
    <3>3. QED
      BY <1>2, <3>1, <3>2 DEF InductiveInvariant, LiveLogHasNoGaps
  <2>3. QED
    BY <2>1, <2>2
<1>8. QED
  BY <1>3, <1>5, <1>6, <1>7 DEF InductiveInvariant

\* The commit of a rewind moves one pointer back and touches no row.
LEMMA CommitRewindInvariant ==
    ASSUME InductiveInvariant, NEW c \in Clients, NEW target \in Int,
           CommitRewind(c, target)
    PROVE  InductiveInvariant'
<1> USE ConstantsAssumption DEF CommitRewind, InRange
<1>1. /\ session[c] \in Sessions /\ read[c] = pointer[session[c]]
      /\ target \in 0 .. read[c] /\ read[c] \in 0 .. MaxLength
      /\ \A d \in Clients \ {c} : session[d] # session[c]
  BY DEF InductiveInvariant, TypeOK, MutationsSerialized
<1>2. TypeOK'
  BY <1>1 DEF InductiveInvariant, TypeOK, States, EndTransaction
<1>3. MutationsSerialized'
  BY <1>1 DEF InductiveInvariant, TypeOK, MutationsSerialized, EndTransaction
<1>4. AppendsPrepared'
  BY <1>1 DEF InductiveInvariant, TypeOK, AppendsPrepared, EndTransaction
<1>5. LiveLogHasNoGaps'
  BY <1>1 DEF InductiveInvariant, TypeOK, LiveLogHasNoGaps
<1>6. QED
  BY <1>2, <1>3, <1>4, <1>5 DEF InductiveInvariant

\* Every step of every client preserves the inductive invariant.
LEMMA StepInvariant == InductiveInvariant /\ [Next]_vars => InductiveInvariant'
<1> SUFFICES ASSUME InductiveInvariant, [Next]_vars PROVE InductiveInvariant'
  OBVIOUS
<1>1. CASE UNCHANGED vars
  BY <1>1 DEF vars, InductiveInvariant, TypeOK, MutationsSerialized, AppendsPrepared,
              LiveLogHasNoGaps
<1>2. ASSUME NEW c \in Clients, Step(c) PROVE InductiveInvariant'
  <2>1. CASE \E s \in Sessions : (\E x \in Inputs : LockToAppend(c, s, x)) \/ LockToRewind(c, s)
    BY <2>1, LockInvariant
  <2>2. CASE DeleteAfter(c) \/ InsertEntry(c)
    BY <2>2, PrepareInvariant
  <2>3. CASE CommitAppend(c)
    BY <2>3, CommitAppendInvariant
  <2>4. ASSUME NEW target \in -1 .. MaxLength + 1, CommitRewind(c, target)
        PROVE  InductiveInvariant'
    BY <2>4, CommitRewindInvariant, ConstantsAssumption
  <2>5. ASSUME NEW target \in -1 .. MaxLength + 1, RejectRewind(c, target)
        PROVE  InductiveInvariant'
    BY <2>5, RollbackInvariant DEF RejectRewind
  <2>6. CASE Crash(c)
    BY <2>6, RollbackInvariant DEF Crash
  <2>7. QED
    BY <1>2, <2>1, <2>2, <2>3, <2>4, <2>5, <2>6 DEF Step
<1>3. QED
  BY <1>1, <1>2 DEF Next

\* The mutations of a session are serial and its log has no gap below the
\* pointer, in every reachable state, whatever the number of clients.
THEOREM Invariance == Spec => []InductiveInvariant
<1>1. QED
  BY InitInvariant, StepInvariant, PTL DEF Spec

\* Replay never skips an entry.
THEOREM NoGaps == Spec => []LiveLogHasNoGaps
<1>1. InductiveInvariant => LiveLogHasNoGaps
  BY DEF InductiveInvariant
<1>2. QED
  BY <1>1, Invariance, PTL

\* An append never fails on UNIQUE (session_id, sequence), even the first one
\* after a rewind.
THEOREM NoCollision == Spec => []AppendNeverCollides
<1>1. ASSUME InductiveInvariant, NEW c \in Clients, pc[c] = "truncated"
      PROVE  ~Collides(c)
  <2>1. read[c] + 1 \in SequenceNumbers
    BY <1>1, ConstantsAssumption
       DEF InductiveInvariant, TypeOK, AppendsPrepared, SequenceNumbers
  <2>2. deleted[c] = {n \in SequenceNumbers : n > read[c] /\ log[session[c]][n] # NoEntry}
    BY <1>1 DEF InductiveInvariant, AppendsPrepared
  <2>3. read[c] + 1 > read[c]
    BY <1>1, ConstantsAssumption DEF InductiveInvariant, TypeOK
  <2>4. QED
    BY <2>1, <2>2, <2>3 DEF Collides
<1>2. InductiveInvariant => AppendNeverCollides
  BY <1>1 DEF AppendNeverCollides
<1>3. QED
  BY <1>2, Invariance, PTL

-------------------------------------------------------------------------------

\* Appending to a list written as a function of its positions.
LEMMA AppendAsFunction ==
    ASSUME NEW S, NEW p \in Nat, NEW f \in [1 .. p -> S], NEW x \in S
    PROVE  Append(f, x) = [n \in 1 .. p + 1 |-> IF n = p + 1 THEN x ELSE f[n]]
<1> DEFINE g == [n \in 1 .. p + 1 |-> IF n = p + 1 THEN x ELSE f[n]]
<1>1. f \in Seq(S) /\ Len(f) = p
  OBVIOUS
<1>2. g \in Seq(S) /\ Len(g) = p + 1
  <2>1. g \in [1 .. p + 1 -> S]
    OBVIOUS
  <2>2. QED
    BY <2>1
<1>3. /\ Append(f, x) \in Seq(S)
      /\ Len(Append(f, x)) = p + 1
      /\ \A n \in 1 .. p : Append(f, x)[n] = f[n]
      /\ Append(f, x)[p + 1] = x
  BY <1>1, AppendProperties
<1>4. \A n \in 1 .. p + 1 : Append(f, x)[n] = g[n]
  BY <1>3
<1> HIDE DEF g
<1>5. Append(f, x) = g
  BY <1>2, <1>3, <1>4, SeqEqual
<1>6. QED
  BY <1>5 DEF g

\* Cutting a list written as a function of its positions.
LEMMA CutAsFunction ==
    ASSUME NEW S, NEW p \in Nat, NEW f \in [1 .. p -> S], NEW m \in 0 .. p
    PROVE  Len(f) = p /\ SubSeq(f, 1, m) = [n \in 1 .. m |-> f[n]]
<1>1. f \in Seq(S) /\ Len(f) = p
  OBVIOUS
<1>2. QED
  BY <1>1

\* Before a commit nothing is visible: rollbacks, locks, DELETE and INSERT leave
\* replay as it was.
LEMMA UncommittedStutters ==
    ASSUME UNCHANGED tables
    PROVE  UNCHANGED [s \in Sessions |-> Live(s)]
BY DEF tables, Live

\* A committed append adds its input to what replay returns.
LEMMA CommitAppendRefines ==
    ASSUME InductiveInvariant, NEW c \in Clients, NEW s \in Sessions,
           s = session[c], CommitAppend(c)
    PROVE  History!AppendEntry(s)
<1> DEFINE history == [t \in Sessions |-> Live(t)]
<1>1. /\ pc[c] = "inserted"
      /\ pointer' = [pointer EXCEPT ![s] = read[c] + 1]
      /\ log' = [log EXCEPT ![s] = [n \in SequenceNumbers |->
                   IF n = read[c] + 1 THEN input[c]
                   ELSE IF n \in deleted[c] THEN NoEntry ELSE log[s][n]]]
  BY DEF CommitAppend
<1>2. /\ input[c] \in Inputs /\ read[c] \in Nat
      /\ read[c] = pointer[s] /\ read[c] < MaxLength
      /\ \A n \in 1 .. read[c] : n \in SequenceNumbers /\ n \notin deleted[c]
  BY <1>1, ReadyToAppend
<1>3. \A t \in Sessions \ {s} : Live(t)' = Live(t)
  BY <1>1, <1>2 DEF InductiveInvariant, TypeOK, Live
<1>4. Live(s)' = [n \in 1 .. read[c] + 1 |-> IF n = read[c] + 1 THEN input[c] ELSE log[s][n]]
  <2>1. pointer'[s] = read[c] + 1
    BY <1>1, <1>2 DEF InductiveInvariant, TypeOK
  <2>2. ASSUME NEW n \in 1 .. read[c] + 1
        PROVE  log'[s][n] = IF n = read[c] + 1 THEN input[c] ELSE log[s][n]
    <3>1. n \in SequenceNumbers
      BY <1>2, ConstantsAssumption DEF SequenceNumbers
    <3>2. log'[s][n] = IF n = read[c] + 1 THEN input[c]
                       ELSE IF n \in deleted[c] THEN NoEntry ELSE log[s][n]
      BY <1>1, <1>2, <3>1 DEF InductiveInvariant, TypeOK
    <3>3. QED
      BY <1>2, <3>2
  <2>3. QED
    BY <2>1, <2>2 DEF Live
<1>5. Live(s) \in [1 .. read[c] -> Inputs \union {NoEntry}]
  BY <1>2 DEF InductiveInvariant, TypeOK, Live
<1>6. Append(Live(s), input[c])
        = [n \in 1 .. read[c] + 1 |-> IF n = read[c] + 1 THEN input[c] ELSE Live(s)[n]]
  BY <1>2, <1>5, AppendAsFunction
<1>7. Live(s)' = Append(Live(s), input[c])
  <2>1. \A n \in 1 .. read[c] : Live(s)[n] = log[s][n]
    BY <1>2 DEF Live
  <2>2. \A n \in 1 .. read[c] + 1 : n # read[c] + 1 => n \in 1 .. read[c]
    BY <1>2
  <2>3. QED
    BY <1>4, <1>6, <2>1, <2>2
<1>8. history' = [history EXCEPT ![s] = Append(@, input[c])]
  BY <1>2, <1>3, <1>7
<1>9. QED
  BY <1>2, <1>8 DEF History!AppendEntry

\* A committed rewind cuts what replay returns.
LEMMA CommitRewindRefines ==
    ASSUME InductiveInvariant, NEW c \in Clients, NEW s \in Sessions,
           s = session[c], NEW target \in Int, CommitRewind(c, target)
    PROVE  History!Rewind(s)
<1> DEFINE history == [t \in Sessions |-> Live(t)]
<1>1. /\ pointer[s] \in Nat /\ target \in 0 .. pointer[s]
      /\ pointer' = [pointer EXCEPT ![s] = target] /\ log' = log
  BY ConstantsAssumption
     DEF InductiveInvariant, TypeOK, MutationsSerialized, CommitRewind, InRange
<1>2. \A t \in Sessions \ {s} : Live(t)' = Live(t)
  BY <1>1 DEF InductiveInvariant, TypeOK, Live
<1>3. Live(s)' = [n \in 1 .. target |-> log[s][n]]
  BY <1>1 DEF InductiveInvariant, TypeOK, Live
<1>4. Live(s) \in [1 .. pointer[s] -> Inputs \union {NoEntry}]
  BY <1>1, ConstantsAssumption DEF InductiveInvariant, TypeOK, Live, SequenceNumbers
<1>5. Len(Live(s)) = pointer[s] /\ SubSeq(Live(s), 1, target) = [n \in 1 .. target |-> Live(s)[n]]
  BY <1>1, <1>4, CutAsFunction
<1>6. Live(s)' = SubSeq(Live(s), 1, target)
  BY <1>1, <1>3, <1>5 DEF Live
<1>7. history' = [history EXCEPT ![s] = SubSeq(@, 1, target)]
  BY <1>1, <1>2, <1>6
<1>8. target \in 0 .. Len(history[s])
  BY <1>1, <1>5
<1>9. QED
  BY <1>7, <1>8 DEF History!Rewind

\* Every step of every client is a mutation of one history, or invisible.
LEMMA StepRefines ==
    InductiveInvariant /\ [Next]_vars => [History!Next]_[s \in Sessions |-> Live(s)]
<1> SUFFICES ASSUME InductiveInvariant, [Next]_vars
             PROVE  History!Next \/ UNCHANGED tables
  BY UncommittedStutters
<1>1. CASE UNCHANGED vars
  BY <1>1 DEF vars, tables
<1>2. ASSUME NEW c \in Clients, Step(c) PROVE History!Next \/ UNCHANGED tables
  <2>1. CASE CommitAppend(c)
    <3>1. session[c] \in Sessions
      BY <2>1, ReadyToAppend DEF CommitAppend
    <3>2. QED
      BY <2>1, <3>1, CommitAppendRefines DEF History!Next
  <2>2. ASSUME NEW target \in -1 .. MaxLength + 1, CommitRewind(c, target)
        PROVE  History!Next
    <3>1. session[c] \in Sessions /\ target \in Int
      BY <2>2, ConstantsAssumption
         DEF CommitRewind, InductiveInvariant, TypeOK, MutationsSerialized
    <3>2. History!Rewind(session[c])
      BY <2>2, <3>1, CommitRewindRefines
    <3>3. QED
      BY <3>1, <3>2 DEF History!Next
  <2>3. QED
    BY <1>2, <2>1, <2>2 DEF Step, LockToAppend, DeleteAfter, InsertEntry, LockToRewind,
                            RejectRewind, Crash, tables
<1>3. QED
  BY <1>1, <1>2 DEF Next

\* The transactions implement SessionHistory: replay shows a list that appends
\* extend and rewinds cut, one mutation at a time, for any number of clients.
THEOREM Refinement == Spec => ImplementsSessionHistory
<1>1. Init => History!Init
  BY DEF Init, History!Init, Live
<1>2. QED
  BY <1>1, StepRefines, Invariance, PTL DEF Spec, History!Spec, ImplementsSessionHistory

===============================================================================
