-------------------------- MODULE IrInterpreterProofs --------------------------
(***************************************************************************)
(* The archived interpreter for any workflow and any number of workers:    *)
(* whoever runs a node finds its inputs, and the fan-out and join of       *)
(* branches and maps implement what spike 1.8 promises.                    *)
(***************************************************************************)
EXTENDS IrInterpreter, FiniteSetTheorems, TLAPS

Labels ==
    {"idle", "claimed", "counted", "recorded", "promoting", "promoted", "checked", "gone"}

\* ------------------------------------------------------- what frames preserve

\* No other worker's step touches what v relies on.
Undisturbed(v) ==
    /\ pc'[v] = pc[v] /\ claim'[v] = claim[v] /\ draft'[v] = draft[v]
    /\ size' = size /\ output \subseteq output'
    /\ \A e \in Execs : lock[e] = v /\ status[e] \in {"queued", "blocked"} =>
         lock'[e] = v /\ status'[e] = status[e]
    /\ \A n \in Nodes : counter[n] = v /\ fan[n] # Nothing =>
         counter'[n] = v /\ fan'[n] = fan[n]
    /\ \A n \in Nodes : fan[n] # Nothing => fan'[n] # Nothing

\* The parts of a row's name.
LEMMA RowNames ==
    /\ \A e \in Execs : e[1] \in Nodes /\ e[2] \in 0 .. MaxSize /\ e = <<e[1], e[2]>>
    /\ \A n \in Nodes, i \in 0 .. MaxSize :
         <<n, i>> \in Execs /\ <<n, i>>[1] = n /\ <<n, i>>[2] = i
    /\ \A n \in Nodes : <<n, 0>> \in Execs /\ <<n, 0>>[1] = n /\ <<n, 0>>[2] = 0
    /\ Nothing \notin Workers /\ Nothing \notin Execs /\ Nothing \notin FanRows
    /\ MaxSize \in Nat
BY IrAssumption DEF Execs

\* A claim is a row.
LEMMA ClaimedRow ==
    ASSUME TypeOK, NEW w \in Workers, claim[w] # Nothing
    PROVE  /\ claim[w] \in Execs /\ Claimed(w) \in Nodes /\ claim[w][2] \in 0 .. MaxSize
           /\ claim[w] = <<Claimed(w), claim[w][2]>>
           /\ ~ IsChild(w) => claim[w] = <<Claimed(w), 0>>
<1>1. claim[w] \in Execs
  BY DEF TypeOK
<1>2. QED
  BY <1>1, RowNames DEF Claimed, IsChild

\* A worker whose rows, locks and reads are left alone stays current.
LEMMA StaysCurrent ==
    ASSUME InductiveInvariant, NEW v \in Workers, Undisturbed(v)
    PROVE  Current(v)'
<1>0. TypeOK /\ Current(v) /\ \A n \in Nodes : Counted(n)
  BY DEF InductiveInvariant
<1>1. /\ pc'[v] = pc[v] /\ claim'[v] = claim[v] /\ draft'[v] = draft[v]
      /\ size' = size /\ output \subseteq output'
      /\ Claimed(v)' = Claimed(v) /\ (IsChild(v)' <=> IsChild(v))
      /\ ReadsBlocked(v)' <=> ReadsBlocked(v)
  BY DEF Undisturbed, Claimed, IsChild, ReadsBlocked
<1>2. pc'[v] \in {"idle", "gone"} <=> claim'[v] = Nothing
  BY <1>0, <1>1 DEF Current
<1>3. claim'[v] # Nothing => lock'[claim'[v]] = v /\ status'[claim'[v]] = "queued"
  BY <1>0, <1>1, ClaimedRow DEF Current, Undisturbed
<1>4. pc[v] \notin {"idle", "gone"} => claim[v] # Nothing /\ Claimed(v) \in Nodes
  BY <1>0, ClaimedRow DEF Current
<1>5. pc'[v] = "counted" =>
        /\ IsChild(v)' /\ counter'[Claimed(v)'] = v
        /\ draft'[v].completed = fan'[Claimed(v)'].completed + 1
  <2> SUFFICES ASSUME pc[v] = "counted"
               PROVE  /\ IsChild(v) /\ counter'[Claimed(v)] = v
                      /\ draft[v].completed = fan'[Claimed(v)].completed + 1
    BY <1>1
  <2>1. IsChild(v) /\ claim[v] # Nothing /\ status[claim[v]] = "queued"
    BY <1>0, <1>4 DEF Current
  <2>2. claim[v][2] \in 1 .. MaxSize /\ status[<<Claimed(v), claim[v][2]>>] = "queued"
    BY <1>0, <2>1, ClaimedRow, RowNames DEF IsChild
  <2>3. fan[Claimed(v)] # Nothing
    BY <1>0, <1>4, <2>2 DEF Counted
  <2>4. QED
    BY <1>0, <1>1, <1>4, <2>3 DEF Current, Undisturbed
<1>6. pc'[v] = "recorded" \/ ReadsBlocked(v)' =>
        /\ ~ IsChild(v)'
        /\ Claimed(v)' \in FanNodes =>
             /\ fan'[Claimed(v)'] # Nothing
             /\ draft'[v].joined = [i \in 1 .. size'[Claimed(v)'] |-> i]
  BY <1>0, <1>1, <1>4 DEF Current, Undisturbed, ReadsBlocked
<1>7. ReadsBlocked(v)' =>
        \A n \in draft'[v].blocked :
           n \in Nodes /\ status'[<<n, 0>>] = "blocked" /\ lock'[<<n, 0>>] = v
  <2> SUFFICES ASSUME ReadsBlocked(v), NEW n \in draft[v].blocked
               PROVE  n \in Nodes /\ status'[<<n, 0>>] = "blocked" /\ lock'[<<n, 0>>] = v
    BY <1>1
  <2>1. n \in Nodes /\ status[<<n, 0>>] = "blocked" /\ lock[<<n, 0>>] = v
    BY <1>0 DEF Current
  <2>2. QED
    BY <2>1, RowNames DEF Undisturbed
<1>8. pc'[v] \in {"promoted", "checked"} =>
        /\ draft'[v].ready \subseteq draft'[v].blocked
        /\ \A n \in draft'[v].ready : Deps(n)' \subseteq output' \cup {Claimed(v)'}
  BY <1>0, <1>1 DEF Current, Deps
<1>9. QED
  BY <1>2, <1>3, <1>5, <1>6, <1>7, <1>8 DEF Current

\* A node none of whose rows changes, or that leaves "blocked", stays counted.
LEMMA StaysCounted ==
    ASSUME TypeOK, NEW n \in Nodes, Counted(n),
           size' = size, fan'[n] = fan[n], arrived'[n] = arrived[n],
           \A i \in 1 .. MaxSize : status'[<<n, i>>] = status[<<n, i>>],
           \/ status'[<<n, 0>>] = status[<<n, 0>>]
           \/ status[<<n, 0>>] = "blocked" /\ status'[<<n, 0>>] = "queued"
           \/ n \notin FanNodes /\ status'[<<n, 0>>] = "done"
    PROVE  Counted(n)'
<1>1. size[n] \in 0 .. MaxSize
  BY DEF TypeOK
<1>2. DoneChildren(n)' = DoneChildren(n)
  BY <1>1, RowNames DEF DoneChildren
<1>3. FanNodes' = FanNodes
  BY DEF FanNodes, Kind
<1>4. CASE fan[n] = Nothing
  BY <1>3, <1>4 DEF Counted
<1>5. CASE fan[n] # Nothing
  <2>1. n \in FanNodes /\ status[<<n, 0>>] # "blocked" /\ status'[<<n, 0>>] = status[<<n, 0>>]
    BY <1>5 DEF Counted
  <2>2. QED
    BY <1>2, <1>3, <1>5, <2>1 DEF Counted
<1>6. QED
  BY <1>4, <1>5

\* The rows stay as they are: nothing but locks and drafts changes.
LEMMA RowsUnchanged ==
    ASSUME InductiveInvariant, UNCHANGED rows
    PROVE  RowsHaveInputs' /\ \A n \in Nodes : Counted(n)'
<1>1. UNCHANGED <<size, status, fan, output, result, arrived, run>>
  BY DEF rows
<1>2. \A n \in Nodes : Counted(n)'
  BY <1>1, StaysCounted DEF InductiveInvariant
<1>3. RowsHaveInputs'
  BY <1>1 DEF InductiveInvariant, RowsHaveInputs, Deps
<1>4. QED
  BY <1>2, <1>3

\* One field of one worker's draft is written.
LEMMA Drafted ==
    ASSUME TypeOK, NEW w \in Workers, NEW new,
           draft' = [draft EXCEPT ![w] = new],
           new = [joined |-> new.joined, completed |-> new.completed, blocked |-> new.blocked,
                  ready |-> new.ready, finished |-> new.finished]
    PROVE  /\ draft'[w] = new /\ draft' = [v \in Workers |-> draft'[v]]
           /\ \A v \in Workers : v # w => draft'[v] = draft[v]
           /\ \A v \in Workers : draft'[v] =
                [joined |-> draft'[v].joined, completed |-> draft'[v].completed,
                 blocked |-> draft'[v].blocked, ready |-> draft'[v].ready,
                 finished |-> draft'[v].finished]
<1>1. draft = [v \in Workers |-> draft[v]]
  BY DEF TypeOK
<1>2. /\ draft'[w] = new /\ draft' = [v \in Workers |-> draft'[v]]
      /\ \A v \in Workers : v # w => draft'[v] = draft[v]
  BY <1>1
<1>3. ASSUME NEW v \in Workers
      PROVE  draft'[v] =
                [joined |-> draft'[v].joined, completed |-> draft'[v].completed,
                 blocked |-> draft'[v].blocked, ready |-> draft'[v].ready,
                 finished |-> draft'[v].finished]
  <2>1. CASE v = w
    BY <1>2, <2>1
  <2>2. CASE v # w
    BY <1>2, <2>2 DEF TypeOK
  <2>3. QED
    BY <2>1, <2>2
<1>4. QED
  BY <1>2, <1>3

\* The end of a transaction: the worker has nothing, the others keep what they have.
LEMMA Ended ==
    ASSUME TypeOK, NEW w \in Workers, NEW next \in {"idle", "gone"}, EndTransaction(w, next)
    PROVE  /\ lock' \in [Execs -> Workers \cup {Nothing}]
           /\ counter' \in [Nodes -> Workers \cup {Nothing}]
           /\ pc' \in [Workers -> Labels] /\ claim' \in [Workers -> Execs \cup {Nothing}]
           /\ draft' = [v \in Workers |-> draft'[v]]
           /\ \A v \in Workers : draft'[v] =
                [joined |-> draft'[v].joined, completed |-> draft'[v].completed,
                 blocked |-> draft'[v].blocked, ready |-> draft'[v].ready,
                 finished |-> draft'[v].finished]
           /\ \A v \in Workers : v # w =>
                /\ pc'[v] = pc[v] /\ claim'[v] = claim[v] /\ draft'[v] = draft[v]
                /\ \A e \in Execs : lock[e] = v => lock'[e] = v
                /\ \A n \in Nodes : counter[n] = v => counter'[n] = v
           /\ Current(w)'
<1>1. /\ lock' = [e \in Execs |-> IF lock[e] = w THEN Nothing ELSE lock[e]]
      /\ counter' = [n \in Nodes |-> IF counter[n] = w THEN Nothing ELSE counter[n]]
      /\ claim' = [claim EXCEPT ![w] = Nothing]
      /\ draft' = [draft EXCEPT ![w] = NoDraft]
      /\ pc' = [pc EXCEPT ![w] = next]
  BY DEF EndTransaction, Goto
<1>2. /\ lock' \in [Execs -> Workers \cup {Nothing}]
      /\ counter' \in [Nodes -> Workers \cup {Nothing}]
      /\ pc' \in [Workers -> Labels] /\ claim' \in [Workers -> Execs \cup {Nothing}]
      /\ pc'[w] = next /\ claim'[w] = Nothing
  BY <1>1 DEF TypeOK, Labels
<1>3. \A v \in Workers : v # w => pc'[v] = pc[v] /\ claim'[v] = claim[v]
  BY <1>1 DEF TypeOK
<1>4. \A v \in Workers : v # w =>
        /\ \A e \in Execs : lock[e] = v => lock'[e] = v
        /\ \A n \in Nodes : counter[n] = v => counter'[n] = v
  BY <1>1
<1>5. NoDraft = [joined |-> NoDraft.joined, completed |-> NoDraft.completed,
                 blocked |-> NoDraft.blocked, ready |-> NoDraft.ready,
                 finished |-> NoDraft.finished]
  BY DEF NoDraft
<1>6. Current(w)'
  BY <1>2 DEF Current, ReadsBlocked
<1>7. QED
  BY ZenonT(60), <1>1, <1>2, <1>3, <1>4, <1>5, <1>6, Drafted

\* Writing one field leaves the others.
LEMMA Fields ==
    ASSUME NEW d, NEW x,
           d = [joined |-> d.joined, completed |-> d.completed, blocked |-> d.blocked,
                ready |-> d.ready, finished |-> d.finished]
    PROVE  /\ [d EXCEPT !.joined = x] =
                [joined |-> x, completed |-> d.completed, blocked |-> d.blocked,
                 ready |-> d.ready, finished |-> d.finished]
           /\ [d EXCEPT !.completed = x] =
                [joined |-> d.joined, completed |-> x, blocked |-> d.blocked,
                 ready |-> d.ready, finished |-> d.finished]
           /\ [d EXCEPT !.blocked = x] =
                [joined |-> d.joined, completed |-> d.completed, blocked |-> x,
                 ready |-> d.ready, finished |-> d.finished]
           /\ [d EXCEPT !.ready = x] =
                [joined |-> d.joined, completed |-> d.completed, blocked |-> d.blocked,
                 ready |-> x, finished |-> d.finished]
           /\ [d EXCEPT !.finished = x] =
                [joined |-> d.joined, completed |-> d.completed, blocked |-> d.blocked,
                 ready |-> d.ready, finished |-> x]
<1> DEFINE j == d.joined  c == d.completed  b == d.blocked  r == d.ready  f == d.finished
<1>1. d = [joined |-> j, completed |-> c, blocked |-> b, ready |-> r, finished |-> f]
  OBVIOUS
<1> HIDE DEF j, c, b, r, f
<1>2. /\ [d EXCEPT !.joined = x] =
           [joined |-> x, completed |-> c, blocked |-> b, ready |-> r, finished |-> f]
      /\ [d EXCEPT !.completed = x] =
           [joined |-> j, completed |-> x, blocked |-> b, ready |-> r, finished |-> f]
      /\ [d EXCEPT !.blocked = x] =
           [joined |-> j, completed |-> c, blocked |-> x, ready |-> r, finished |-> f]
      /\ [d EXCEPT !.ready = x] =
           [joined |-> j, completed |-> c, blocked |-> b, ready |-> x, finished |-> f]
      /\ [d EXCEPT !.finished = x] =
           [joined |-> j, completed |-> c, blocked |-> b, ready |-> r, finished |-> x]
  BY <1>1
<1>3. QED
  BY <1>2 DEF j, c, b, r, f

\* The drafts after one field of w's has been written.
DraftsAfter(w, field, x) ==
    /\ \A v \in Workers : v # w => draft'[v] = draft[v]
    /\ draft' = [v \in Workers |-> draft'[v]]
    /\ \A v \in Workers : draft'[v] =
         [joined |-> draft'[v].joined, completed |-> draft'[v].completed,
          blocked |-> draft'[v].blocked, ready |-> draft'[v].ready,
          finished |-> draft'[v].finished]
    /\ draft'[w].joined = IF field = "joined" THEN x ELSE draft[w].joined
    /\ draft'[w].completed = IF field = "completed" THEN x ELSE draft[w].completed
    /\ draft'[w].blocked = IF field = "blocked" THEN x ELSE draft[w].blocked
    /\ draft'[w].ready = IF field = "ready" THEN x ELSE draft[w].ready

LEMMA FieldWritten ==
    ASSUME TypeOK, NEW w \in Workers, NEW x
    PROVE  /\ draft' = [draft EXCEPT ![w].joined = x] => DraftsAfter(w, "joined", x)
           /\ draft' = [draft EXCEPT ![w].completed = x] => DraftsAfter(w, "completed", x)
           /\ draft' = [draft EXCEPT ![w].blocked = x] => DraftsAfter(w, "blocked", x)
           /\ draft' = [draft EXCEPT ![w].ready = x] => DraftsAfter(w, "ready", x)
           /\ draft' = [draft EXCEPT ![w].finished = x] => DraftsAfter(w, "finished", x)
<1> DEFINE d == draft[w]
<1>1. d = [joined |-> d.joined, completed |-> d.completed, blocked |-> d.blocked,
           ready |-> d.ready, finished |-> d.finished]
  BY DEF TypeOK
<1>2. ASSUME draft' = [draft EXCEPT ![w].joined = x] PROVE DraftsAfter(w, "joined", x)
  <2> DEFINE new == [joined |-> x, completed |-> d.completed,
                     blocked |-> d.blocked, ready |-> d.ready, finished |-> d.finished]
  <2>1. draft' = [draft EXCEPT ![w] = new]
    BY <1>1, <1>2, Fields
  <2>2. /\ new.joined = x /\ new.completed = d.completed
        /\ new.blocked = d.blocked /\ new.ready = d.ready
        /\ new = [joined |-> new.joined, completed |-> new.completed, blocked |-> new.blocked,
                  ready |-> new.ready, finished |-> new.finished]
    OBVIOUS
  <2> HIDE DEF new
  <2>3. QED
    BY <2>1, <2>2, Drafted DEF DraftsAfter
<1>3. ASSUME draft' = [draft EXCEPT ![w].completed = x] PROVE DraftsAfter(w, "completed", x)
  <2> DEFINE new == [joined |-> d.joined, completed |-> x,
                     blocked |-> d.blocked, ready |-> d.ready, finished |-> d.finished]
  <2>1. draft' = [draft EXCEPT ![w] = new]
    BY <1>1, <1>3, Fields
  <2>2. /\ new.joined = d.joined /\ new.completed = x
        /\ new.blocked = d.blocked /\ new.ready = d.ready
        /\ new = [joined |-> new.joined, completed |-> new.completed, blocked |-> new.blocked,
                  ready |-> new.ready, finished |-> new.finished]
    OBVIOUS
  <2> HIDE DEF new
  <2>3. QED
    BY <2>1, <2>2, Drafted DEF DraftsAfter
<1>4. ASSUME draft' = [draft EXCEPT ![w].blocked = x] PROVE DraftsAfter(w, "blocked", x)
  <2> DEFINE new == [joined |-> d.joined, completed |-> d.completed,
                     blocked |-> x, ready |-> d.ready, finished |-> d.finished]
  <2>1. draft' = [draft EXCEPT ![w] = new]
    BY <1>1, <1>4, Fields
  <2>2. /\ new.joined = d.joined /\ new.completed = d.completed
        /\ new.blocked = x /\ new.ready = d.ready
        /\ new = [joined |-> new.joined, completed |-> new.completed, blocked |-> new.blocked,
                  ready |-> new.ready, finished |-> new.finished]
    OBVIOUS
  <2> HIDE DEF new
  <2>3. QED
    BY <2>1, <2>2, Drafted DEF DraftsAfter
<1>5. ASSUME draft' = [draft EXCEPT ![w].ready = x] PROVE DraftsAfter(w, "ready", x)
  <2> DEFINE new == [joined |-> d.joined, completed |-> d.completed,
                     blocked |-> d.blocked, ready |-> x, finished |-> d.finished]
  <2>1. draft' = [draft EXCEPT ![w] = new]
    BY <1>1, <1>5, Fields
  <2>2. /\ new.joined = d.joined /\ new.completed = d.completed
        /\ new.blocked = d.blocked /\ new.ready = x
        /\ new = [joined |-> new.joined, completed |-> new.completed, blocked |-> new.blocked,
                  ready |-> new.ready, finished |-> new.finished]
    OBVIOUS
  <2> HIDE DEF new
  <2>3. QED
    BY <2>1, <2>2, Drafted DEF DraftsAfter
<1>6. ASSUME draft' = [draft EXCEPT ![w].finished = x] PROVE DraftsAfter(w, "finished", x)
  <2> DEFINE new == [joined |-> d.joined, completed |-> d.completed,
                     blocked |-> d.blocked, ready |-> d.ready, finished |-> x]
  <2>1. draft' = [draft EXCEPT ![w] = new]
    BY <1>1, <1>6, Fields
  <2>2. /\ new.joined = d.joined /\ new.completed = d.completed
        /\ new.blocked = d.blocked /\ new.ready = d.ready
        /\ new = [joined |-> new.joined, completed |-> new.completed, blocked |-> new.blocked,
                  ready |-> new.ready, finished |-> new.finished]
    OBVIOUS
  <2> HIDE DEF new
  <2>3. QED
    BY <2>1, <2>2, Drafted DEF DraftsAfter
<1>7. QED
  BY <1>2, <1>3, <1>4, <1>5, <1>6

\* The statements of a transaction: locks, and what is read, but no row.
InTransaction(w, label) ==
    /\ pc' = [pc EXCEPT ![w] = label]
    /\ claim[w] # Nothing /\ UNCHANGED <<size, status, fan, output, result, arrived, claim>>
    /\ \A v \in Workers : v # w => draft'[v] = draft[v]
    /\ draft' = [v \in Workers |-> draft'[v]]
    /\ \A v \in Workers : draft'[v] =
         [joined |-> draft'[v].joined, completed |-> draft'[v].completed,
          blocked |-> draft'[v].blocked, ready |-> draft'[v].ready,
          finished |-> draft'[v].finished]
    /\ lock' \in [Execs -> Workers \cup {Nothing}]
    /\ counter' \in [Nodes -> Workers \cup {Nothing}]
    /\ \A e \in Execs : lock[e] \in Workers => lock'[e] = lock[e]
    /\ \A n \in Nodes : counter[n] \in Workers => counter'[n] = counter[n]

LEMMA TransactionKeeps ==
    ASSUME InductiveInvariant, NEW w \in Workers, NEW label \in Labels,
           InTransaction(w, label), UNCHANGED rows, Current(w)'
    PROVE  InductiveInvariant'
<1>1. TypeOK
  BY DEF InductiveInvariant
<1>2. TypeOK'
  BY <1>1 DEF TypeOK, InTransaction, Labels
<1>3. ASSUME NEW v \in Workers PROVE Current(v)'
  <2>1. CASE v = w
    BY <2>1
  <2>2. CASE v # w
    <3>1. Undisturbed(v)
      BY <1>1, <2>2 DEF InTransaction, Undisturbed, TypeOK
    <3>2. QED
      BY <3>1, StaysCurrent
  <2>3. QED
    BY <2>1, <2>2
<1>4. QED
  BY <1>2, <1>3, RowsUnchanged DEF InductiveInvariant

\* A worker polls: it locks one queued row, or finds none and ends.
LEMMA ClaimKeeps ==
    ASSUME InductiveInvariant, NEW w \in Workers, Claim(w)
    PROVE  InductiveInvariant'
<1>1. TypeOK /\ Current(w)
  BY DEF InductiveInvariant
<1>2. PICK e \in Claimable : /\ lock' = [lock EXCEPT ![e] = w]
                             /\ claim' = [claim EXCEPT ![w] = e]
  BY DEF Claim
<1>3. /\ pc[w] = "idle" /\ pc' = [pc EXCEPT ![w] = "claimed"] /\ UNCHANGED <<rows, counter, draft>>
      /\ e \in Execs /\ status[e] = "queued" /\ lock[e] = Nothing
  BY <1>2 DEF Claim, Goto, Claimable
<1>4. UNCHANGED <<size, status, fan, output, result, arrived, run, counter, draft>>
  BY <1>3 DEF rows
<1>5. TypeOK'
  BY <1>1, <1>2, <1>3, <1>4 DEF TypeOK
<1>6. /\ pc'[w] = "claimed" /\ claim'[w] = e /\ lock'[e] = w /\ e # Nothing
      /\ \A v \in Workers : v # w => pc'[v] = pc[v] /\ claim'[v] = claim[v]
      /\ \A f \in Execs : f # e => lock'[f] = lock[f]
  BY <1>1, <1>2, <1>3, RowNames DEF TypeOK
<1>7. ASSUME NEW v \in Workers PROVE Current(v)'
  <2>1. CASE v = w
    BY <1>3, <1>4, <1>6, <2>1 DEF Current, ReadsBlocked
  <2>2. CASE v # w
    <3>1. Undisturbed(v)
      BY <1>3, <1>4, <1>6, <2>2, RowNames DEF Undisturbed
    <3>2. QED
      BY <3>1, StaysCurrent
  <2>3. QED
    BY <2>1, <2>2
<1>8. QED
  BY <1>3, <1>5, <1>7, RowsUnchanged DEF InductiveInvariant

LEMMA LeaveKeeps ==
    ASSUME InductiveInvariant, NEW w \in Workers, Leave(w)
    PROVE  InductiveInvariant'
<1>1. TypeOK /\ Current(w)
  BY DEF InductiveInvariant
<1>2. /\ pc[w] = "idle" /\ pc' = [pc EXCEPT ![w] = "gone"]
      /\ UNCHANGED <<rows, lock, counter, claim, draft>>
  BY DEF Leave, Goto, locks
<1>3. UNCHANGED <<size, status, fan, output, result, arrived, run, lock, counter, claim, draft>>
  BY <1>2 DEF rows
<1>4. TypeOK'
  BY <1>1, <1>2, <1>3 DEF TypeOK
<1>5. ASSUME NEW v \in Workers PROVE Current(v)'
  <2>1. CASE v = w
    BY <1>1, <1>2, <1>3, <2>1 DEF Current, ReadsBlocked, TypeOK
  <2>2. CASE v # w
    <3>1. Undisturbed(v)
      BY <1>1, <1>2, <1>3, <2>2 DEF Undisturbed, TypeOK
    <3>2. QED
      BY <3>1, StaysCurrent
  <2>3. QED
    BY <2>1, <2>2
<1>6. QED
  BY <1>2, <1>4, <1>5, RowsUnchanged DEF InductiveInvariant

\* A worker is lost, and with it its transaction.
LEMMA LoseKeeps ==
    ASSUME InductiveInvariant, NEW w \in Workers, Lose(w)
    PROVE  InductiveInvariant'
<1>1. TypeOK /\ EndTransaction(w, "gone") /\ UNCHANGED rows
  BY DEF InductiveInvariant, Lose
<1>2. UNCHANGED <<size, status, fan, output, result, arrived, run>>
  BY <1>1 DEF rows
<1>3. TypeOK'
  BY <1>1, <1>2, Ended DEF TypeOK, Labels
<1>4. ASSUME NEW v \in Workers PROVE Current(v)'
  <2>1. CASE v = w
    BY <1>1, <2>1, Ended
  <2>2. CASE v # w
    <3>1. Undisturbed(v)
      BY <1>1, <1>2, <2>2, Ended DEF Undisturbed
    <3>2. QED
      BY <3>1, StaysCurrent
  <2>3. QED
    BY <2>1, <2>2
<1>5. QED
  BY <1>1, <1>3, <1>4, RowsUnchanged DEF InductiveInvariant

\* A child reads its parent's counter, under its lock.
LEMMA CountChildKeeps ==
    ASSUME InductiveInvariant, NEW w \in Workers, CountChild(w)
    PROVE  InductiveInvariant'
<1>1. TypeOK /\ Current(w)
  BY DEF InductiveInvariant
<1> DEFINE n == Claimed(w)
           completed == fan[n].completed + 1
<1>2. /\ pc[w] = "claimed" /\ IsChild(w) /\ counter[n] = Nothing
      /\ counter' = [counter EXCEPT ![n] = w]
      /\ draft' = [draft EXCEPT ![w].completed = completed]
      /\ pc' = [pc EXCEPT ![w] = "counted"] /\ UNCHANGED <<rows, lock, claim>>
  BY DEF CountChild, Goto
<1>3. DraftsAfter(w, "completed", completed)
  BY <1>1, <1>2, FieldWritten
<1>4. claim[w] # Nothing /\ n \in Nodes
  BY <1>1, <1>2, ClaimedRow DEF Current
<1>5. UNCHANGED <<size, status, fan, output, result, arrived, run, lock, claim>>
  BY <1>2 DEF rows
<1>6. /\ counter' \in [Nodes -> Workers \cup {Nothing}] /\ counter'[n] = w
      /\ \A m \in Nodes : counter[m] \in Workers => counter'[m] = counter[m]
  BY <1>1, <1>2, <1>4, RowNames DEF TypeOK
<1>7. InTransaction(w, "counted")
  BY <1>1, <1>2, <1>3, <1>4, <1>5, <1>6 DEF InTransaction, DraftsAfter, TypeOK
<1>8. /\ pc'[w] = "counted" /\ Claimed(w)' = n /\ IsChild(w)'
      /\ draft'[w].completed = fan'[n].completed + 1
  BY <1>1, <1>2, <1>3, <1>5 DEF TypeOK, Claimed, IsChild, DraftsAfter
<1>9. Current(w)'
  BY <1>1, <1>4, <1>5, <1>6, <1>8 DEF Current, ReadsBlocked
<1>10. QED
  BY <1>2, <1>7, <1>9, TransactionKeeps DEF Labels

\* The members of a set of numbers in order, as the join reads its children.
Smaller(indexes, x) == Cardinality({y \in indexes : y < x})
InOrder(indexes) ==
    [i \in 1 .. Cardinality(indexes) |-> CHOOSE x \in indexes : Smaller(indexes, x) = i - 1]

\* Between one and s, the i-th is i.
LEMMA Consecutive ==
    ASSUME NEW s \in Nat
    PROVE  InOrder(1 .. s) = [i \in 1 .. s |-> i]
<1>1. Cardinality(1 .. s) = s
  BY FS_Interval
<1>2. ASSUME NEW x \in 1 .. s PROVE Smaller(1 .. s, x) = x - 1
  <2>1. {y \in 1 .. s : y < x} = 1 .. (x - 1)
    OBVIOUS
  <2>2. x - 1 \in Nat /\ Cardinality(1 .. (x - 1)) = x - 1
    BY FS_Interval
  <2>3. QED
    BY <2>1, <2>2 DEF Smaller
<1>3. ASSUME NEW i \in 1 .. s PROVE (CHOOSE x \in 1 .. s : Smaller(1 .. s, x) = i - 1) = i
  <2>1. ASSUME NEW x \in 1 .. s, Smaller(1 .. s, x) = i - 1 PROVE x = i
    BY <1>2, <2>1
  <2>2. Smaller(1 .. s, i) = i - 1
    BY <1>2
  <2>3. QED
    BY <2>1, <2>2
<1>4. QED
  BY <1>1, <1>3 DEF InOrder

\* Once all of the children are done their outputs are joined in order.
LEMMA Joined ==
    ASSUME InductiveInvariant, NEW n \in FanNodes, fan[n] # Nothing, status[<<n, 0>>] = "queued"
    PROVE  InOrderOfSource(n) = [i \in 1 .. size[n] |-> i]
<1>1. n \in Nodes /\ size[n] \in Nat
  BY DEF FanNodes, InductiveInvariant, TypeOK
<1>2. {arrived[n][i] : i \in DOMAIN arrived[n]} = 1 .. size[n]
  BY <1>1 DEF InductiveInvariant, Counted
<1>3. InOrderOfSource(n) = InOrder({arrived[n][i] : i \in DOMAIN arrived[n]})
  BY DEF InOrderOfSource, InOrder, Smaller
<1>4. InOrderOfSource(n) = InOrder(1 .. size[n])
  BY <1>2, <1>3
<1>5. QED
  BY <1>1, <1>4, Consecutive

\* A node's work is recorded: a join's is its children's, in order.
LEMMA RecordKeeps ==
    ASSUME InductiveInvariant, NEW w \in Workers, Record(w)
    PROVE  InductiveInvariant'
<1>1. TypeOK /\ Current(w)
  BY DEF InductiveInvariant
<1> DEFINE n == Claimed(w)
           joined == IF Kind(n) = "step" THEN Nothing ELSE InOrderOfSource(n)
<1>2. /\ pc[w] = "claimed" /\ ~ IsChild(w) /\ (Kind(n) = "step" \/ fan[n] # Nothing)
      /\ draft' = [draft EXCEPT ![w].joined = joined]
      /\ pc' = [pc EXCEPT ![w] = "recorded"] /\ UNCHANGED <<rows, lock, counter, claim>>
  BY DEF Record, Goto, locks
<1>3. DraftsAfter(w, "joined", joined)
  BY <1>1, <1>2, FieldWritten
<1>4. claim[w] # Nothing /\ n \in Nodes /\ claim[w] = <<n, 0>> /\ status[claim[w]] = "queued"
  BY <1>1, <1>2, ClaimedRow DEF Current
<1>5. UNCHANGED <<size, status, fan, output, result, arrived, run, lock, counter, claim>>
  BY <1>2 DEF rows
<1>6. InTransaction(w, "recorded")
  BY <1>1, <1>2, <1>3, <1>4, <1>5 DEF InTransaction, DraftsAfter, TypeOK
<1>7. n \in FanNodes => fan[n] # Nothing /\ joined = [i \in 1 .. size[n] |-> i]
  BY <1>2, <1>4, Joined DEF FanNodes
<1>8. /\ pc'[w] = "recorded" /\ Claimed(w)' = n /\ ~ IsChild(w)'
      /\ draft'[w].joined = joined
  BY <1>1, <1>2, <1>3, <1>5 DEF TypeOK, Claimed, IsChild, DraftsAfter
<1>9. FanNodes' = FanNodes
  BY DEF FanNodes, Kind
<1>10. Current(w)'
  BY <1>1, <1>4, <1>5, <1>7, <1>8, <1>9 DEF Current, ReadsBlocked
<1>11. QED
  BY <1>2, <1>6, <1>10, TransactionKeeps DEF Labels

\* The blocked rows are read and locked, so they stay blocked for the rest of it.
LEMMA LockBlockedKeeps ==
    ASSUME InductiveInvariant, NEW w \in Workers, LockBlocked(w)
    PROVE  InductiveInvariant'
<1>1. TypeOK /\ Current(w)
  BY DEF InductiveInvariant
<1>2. /\ pc[w] = "recorded" /\ \A n \in Blocked : lock[<<n, 0>>] = Nothing
      /\ lock' = [e \in Execs |-> IF e[1] \in Blocked /\ e[2] = 0 THEN w ELSE lock[e]]
      /\ draft' = [draft EXCEPT ![w].blocked = Blocked]
      /\ pc' = [pc EXCEPT ![w] = "promoting"] /\ UNCHANGED <<rows, counter, claim>>
  BY DEF LockBlocked, Goto
<1>3. DraftsAfter(w, "blocked", Blocked)
  BY <1>1, <1>2, FieldWritten
<1>4. claim[w] # Nothing /\ claim[w] \in Execs /\ lock[claim[w]] = w
  BY <1>1, <1>2, ClaimedRow DEF Current
<1>5. UNCHANGED <<size, status, fan, output, result, arrived, run, counter, claim>>
  BY <1>2 DEF rows
<1>6. \A e \in Execs : e[1] \in Blocked /\ e[2] = 0 => lock[e] = Nothing
  <2>1. \A e \in Execs : e[2] = 0 => e = <<e[1], 0>>
    BY RowNames
  <2>2. QED
    BY <1>2, <2>1
<1>7. /\ lock' \in [Execs -> Workers \cup {Nothing}]
      /\ \A e \in Execs : lock[e] \in Workers => lock'[e] = lock[e]
  BY <1>1, <1>2, <1>6, RowNames DEF TypeOK
<1>8. InTransaction(w, "promoting")
  BY <1>1, <1>2, <1>3, <1>4, <1>5, <1>7 DEF InTransaction, DraftsAfter, TypeOK
<1>9. /\ pc'[w] = "promoting" /\ Claimed(w)' = Claimed(w) /\ (IsChild(w)' <=> IsChild(w))
      /\ draft'[w].blocked = Blocked /\ draft'[w].joined = draft[w].joined
  BY <1>1, <1>2, <1>3, <1>5 DEF TypeOK, Claimed, IsChild, DraftsAfter
<1>10. \A n \in Blocked : n \in Nodes /\ status'[<<n, 0>>] = "blocked" /\ lock'[<<n, 0>>] = w
  BY <1>2, <1>5, RowNames DEF Blocked
<1>11. FanNodes' = FanNodes
  BY DEF FanNodes, Kind
<1>12. Current(w)'
  BY <1>1, <1>2, <1>4, <1>5, <1>7, <1>9, <1>10, <1>11 DEF Current, ReadsBlocked
<1>13. QED
  BY <1>2, <1>8, <1>12, TransactionKeeps DEF Labels

\* What is ready has its inputs, or gets the last of them from this commit.
LEMMA PromoteKeeps ==
    ASSUME InductiveInvariant, NEW w \in Workers, Promote(w)
    PROVE  InductiveInvariant'
<1>1. TypeOK /\ Current(w)
  BY DEF InductiveInvariant
<1> DEFINE ready == {n \in draft[w].blocked : Satisfied(n, Done(w))}
<1>2. /\ pc[w] = "promoting" /\ draft' = [draft EXCEPT ![w].ready = ready]
      /\ pc' = [pc EXCEPT ![w] = "promoted"] /\ UNCHANGED <<rows, lock, counter, claim>>
  BY DEF Promote, Goto, locks
<1>3. DraftsAfter(w, "ready", ready)
  BY <1>1, <1>2, FieldWritten
<1>4. claim[w] # Nothing
  BY <1>1, <1>2 DEF Current
<1>5. UNCHANGED <<size, status, fan, output, result, arrived, run, lock, counter, claim>>
  BY <1>2 DEF rows
<1>6. InTransaction(w, "promoted")
  BY <1>1, <1>2, <1>3, <1>4, <1>5 DEF InTransaction, DraftsAfter, TypeOK
<1>7. /\ pc'[w] = "promoted" /\ Claimed(w)' = Claimed(w) /\ (IsChild(w)' <=> IsChild(w))
      /\ draft'[w].ready = ready /\ draft'[w].blocked = draft[w].blocked
      /\ draft'[w].joined = draft[w].joined
  BY <1>1, <1>2, <1>3, <1>5 DEF TypeOK, Claimed, IsChild, DraftsAfter
<1>8. \A n \in ready : Deps(n)' \subseteq output' \cup {Claimed(w)'}
  BY <1>5, <1>7 DEF Satisfied, Done, Deps
<1>9. FanNodes' = FanNodes
  BY DEF FanNodes, Kind
<1>10. Current(w)'
  BY <1>1, <1>2, <1>4, <1>5, <1>7, <1>8, <1>9 DEF Current, ReadsBlocked
<1>11. QED
  BY <1>2, <1>6, <1>10, TransactionKeeps DEF Labels

LEMMA CheckOutputsKeeps ==
    ASSUME InductiveInvariant, NEW w \in Workers, CheckOutputs(w)
    PROVE  InductiveInvariant'
<1>1. TypeOK /\ Current(w)
  BY DEF InductiveInvariant
<1>2. /\ pc[w] = "promoted" /\ draft' = [draft EXCEPT ![w].finished = Outputs \subseteq Done(w)]
      /\ pc' = [pc EXCEPT ![w] = "checked"] /\ UNCHANGED <<rows, lock, counter, claim>>
  BY DEF CheckOutputs, Goto, locks
<1>3. DraftsAfter(w, "finished", Outputs \subseteq Done(w))
  BY <1>1, <1>2, FieldWritten
<1>4. claim[w] # Nothing
  BY <1>1, <1>2 DEF Current
<1>5. UNCHANGED <<size, status, fan, output, result, arrived, run, lock, counter, claim>>
  BY <1>2 DEF rows
<1>6. InTransaction(w, "checked")
  BY <1>1, <1>2, <1>3, <1>4, <1>5 DEF InTransaction, DraftsAfter, TypeOK
<1>7. /\ pc'[w] = "checked" /\ Claimed(w)' = Claimed(w) /\ (IsChild(w)' <=> IsChild(w))
      /\ draft'[w].ready = draft[w].ready /\ draft'[w].blocked = draft[w].blocked
      /\ draft'[w].joined = draft[w].joined
  BY <1>1, <1>2, <1>3, <1>5 DEF TypeOK, Claimed, IsChild, DraftsAfter
<1>8. FanNodes' = FanNodes /\ \A n : Deps(n)' = Deps(n)
  BY DEF FanNodes, Kind, Deps
<1>9. Current(w)'
  BY <1>1, <1>2, <1>4, <1>5, <1>7, <1>8 DEF Current, ReadsBlocked
<1>10. QED
  BY <1>2, <1>6, <1>9, TransactionKeeps DEF Labels

\* A commit: the rows are sound, and no other worker is disturbed.
LEMMA CommitKeeps ==
    ASSUME InductiveInvariant, NEW w \in Workers, EndTransaction(w, "idle"),
           size' = size, output \subseteq output', output' \subseteq Nodes,
           status' \in [Execs -> {"absent", "blocked", "queued", "awaiting_children", "done"}],
           fan' \in [Nodes -> FanRows \cup {Nothing}],
           arrived' \in [Nodes -> Seq(1 .. MaxSize)],
           result' = [n \in Nodes |-> result'[n]],
           \A e \in Execs : lock[e] # w /\ status[e] \in {"queued", "blocked"} =>
             status'[e] = status[e],
           \A n \in Nodes : counter[n] # w /\ fan[n] # Nothing => fan'[n] = fan[n],
           \A n \in Nodes : fan[n] # Nothing => fan'[n] # Nothing,
           RowsHaveInputs', \A n \in Nodes : Counted(n)'
    PROVE  InductiveInvariant'
<1>1. TypeOK
  BY DEF InductiveInvariant
<1>2. TypeOK'
  BY <1>1, Ended DEF TypeOK, Labels
<1>3. ASSUME NEW v \in Workers PROVE Current(v)'
  <2>1. CASE v = w
    BY <1>1, <2>1, Ended
  <2>2. CASE v # w
    <3>1. Undisturbed(v)
      BY <1>1, <2>2, Ended DEF Undisturbed
    <3>2. QED
      BY <3>1, StaysCurrent
  <2>3. QED
    BY <2>1, <2>2
<1>4. QED
  BY <1>2, <1>3 DEF InductiveInvariant

\* A node that fans out parks itself; its children have the inputs it has.
LEMMA FanOutKeeps ==
    ASSUME InductiveInvariant, NEW w \in Workers, FanOut(w)
    PROVE  InductiveInvariant'
<1>1. TypeOK /\ Current(w)
  BY DEF InductiveInvariant
<1>0. PICK n \in Nodes :
        n = Claimed(w) /\ claim[w] = <<n, 0>> /\ status[<<n, 0>>] = "queued" /\ lock[<<n, 0>>] = w
  BY <1>1, ClaimedRow DEF FanOut, Current
<1> DEFINE row == [total |-> size[n], completed |-> 0]
<1>2. /\ pc[w] = "claimed" /\ ~ IsChild(w) /\ Kind(n) # "step" /\ fan[n] = Nothing
      /\ status' = [e \in Execs |->
                      CASE e = <<n, 0>> -> "awaiting_children"
                        [] e[1] = n /\ e[2] \in 1 .. size[n] -> "queued"
                        [] OTHER -> status[e]]
      /\ fan' = [fan EXCEPT ![n] = row] /\ EndTransaction(w, "idle")
      /\ UNCHANGED <<size, output, result, arrived>>
  BY <1>0 DEF FanOut
<1>3. status[<<n, 0>>] = "queued" /\ lock[<<n, 0>>] = w
  BY <1>0
<1>4. size[n] \in 0 .. MaxSize /\ row \in FanRows /\ row # Nothing
      /\ row.total = size[n] /\ row.completed = 0
  BY <1>1, <1>3, RowNames DEF TypeOK, FanRows
<1> HIDE DEF row
<1>5. /\ fan' \in [Nodes -> FanRows \cup {Nothing}] /\ fan'[n] = row
      /\ \A m \in Nodes : m # n => fan'[m] = fan[m]
  BY <1>1, <1>2, <1>3, <1>4 DEF TypeOK
<1>6. /\ \A i \in 1 .. MaxSize : status[<<n, i>>] = "absent"
      /\ arrived[n] = <<>> /\ n \in FanNodes
  BY <1>2, <1>3 DEF InductiveInvariant, Counted, FanNodes
<1>7. /\ status'[<<n, 0>>] = "awaiting_children"
      /\ \A i \in 1 .. MaxSize :
           status'[<<n, i>>] = IF i <= size[n] THEN "queued" ELSE "absent"
      /\ \A e \in Execs : e[1] # n => status'[e] = status[e]
  BY <1>2, <1>3, <1>4, <1>6, RowNames
<1>8. \A e \in Execs : e[1] = n => e = <<n, 0>> \/ (e[2] \in 1 .. MaxSize /\ e = <<n, e[2]>>)
  BY RowNames
<1>9. status' \in [Execs -> {"absent", "blocked", "queued", "awaiting_children", "done"}]
  BY <1>1, <1>2 DEF TypeOK
<1>10. \A e \in Execs : lock[e] # w /\ status[e] \in {"queued", "blocked"} => status'[e] = status[e]
  BY <1>3, <1>6, <1>7, <1>8
<1>11. RowsHaveInputs'
  <2>1. Deps(n) \subseteq output
    BY <1>3, RowNames DEF InductiveInvariant, RowsHaveInputs
  <2>2. QED
    BY <1>2, <1>7, <2>1 DEF InductiveInvariant, RowsHaveInputs, Deps
<1>12. ASSUME NEW m \in Nodes PROVE Counted(m)'
  <2>1. CASE m = n
    <3>1. DoneChildren(n)' = {}
      BY <1>2, <1>4, <1>7, RowNames DEF DoneChildren
    <3>2. Cardinality({}) = 0
      BY FS_EmptySet
    <3>3. {arrived'[n][i] : i \in DOMAIN arrived'[n]} = {}
      BY <1>2, <1>6
    <3>4. FanNodes' = FanNodes
      BY DEF FanNodes, Kind
    <3>5. QED
      BY <1>2, <1>4, <1>5, <1>6, <1>7, <2>1, <3>1, <3>2, <3>3, <3>4 DEF Counted
  <2>2. CASE m # n
    <3>1. /\ \A i \in 1 .. MaxSize : status'[<<m, i>>] = status[<<m, i>>]
          /\ status'[<<m, 0>>] = status[<<m, 0>>]
      BY <1>7, <2>2, RowNames
    <3>2. fan'[m] = fan[m] /\ arrived'[m] = arrived[m] /\ size' = size /\ Counted(m)
      BY <1>2, <1>5, <2>2 DEF InductiveInvariant
    <3>3. QED
      BY <1>1, <3>1, <3>2, StaysCounted
  <2>3. QED
    BY <2>1, <2>2
<1>13. QED
  <2>1. \A m \in Nodes : fan[m] # Nothing => m # n
    BY <1>2
  <2>2. \A m \in Nodes : fan[m] # Nothing => fan'[m] = fan[m]
    BY <1>5, <2>1
  <2>3. arrived' \in [Nodes -> Seq(1 .. MaxSize)] /\ result' = [m \in Nodes |-> result'[m]]
        /\ output' = output /\ output' \subseteq Nodes /\ size' = size
    BY <1>1, <1>2 DEF TypeOK
  <2>4. QED
    BY ZenonT(60), <1>2, <1>5, <1>9, <1>10, <1>11, <1>12, <2>2, <2>3, CommitKeeps

\* What a list gains with one more at its end.
Members(seq) == {seq[k] : k \in DOMAIN seq}

LEMMA Appended ==
    ASSUME NEW seq \in Seq(1 .. MaxSize), NEW x \in 1 .. MaxSize
    PROVE  Members(Append(seq, x)) = Members(seq) \cup {x}
<1> DEFINE more == Append(seq, x)
<1>1. /\ Len(seq) \in Nat /\ DOMAIN seq = 1 .. Len(seq) /\ DOMAIN more = 1 .. (Len(seq) + 1)
      /\ more[Len(seq) + 1] = x /\ \A k \in 1 .. Len(seq) : more[k] = seq[k]
  OBVIOUS
<1> HIDE DEF more
<1>2. \A k \in DOMAIN more : more[k] \in {seq[j] : j \in DOMAIN seq} \cup {x}
  BY <1>1
<1>3. \A k \in DOMAIN seq : seq[k] \in {more[j] : j \in DOMAIN more}
  <2> SUFFICES ASSUME NEW k \in DOMAIN seq PROVE \E j \in DOMAIN more : seq[k] = more[j]
    OBVIOUS
  <2>1. k \in DOMAIN more /\ seq[k] = more[k]
    BY <1>1
  <2>2. QED
    BY <2>1
<1>4. x \in {more[j] : j \in DOMAIN more}
  BY <1>1
<1>5. {more[k] : k \in DOMAIN more} = {seq[k] : k \in DOMAIN seq} \cup {x}
  BY <1>2, <1>3, <1>4
<1>6. QED
  BY <1>5 DEF more, Members

\* What a child's commit is: the n of which it is the i-th child counts it.
CommitsChild(w, n, i) ==
    LET completed == fan[n].completed + 1
        last == completed = fan[n].total IN
    /\ status[<<n, i>>] = "queued" /\ lock[<<n, i>>] = w /\ counter[n] = w
    /\ fan' = [fan EXCEPT ![n].completed = completed]
    /\ arrived' = [arrived EXCEPT ![n] = Append(@, i)]
    /\ status' = [e \in Execs |->
                    CASE e = <<n, i>> -> "done"
                      [] e = <<n, 0>> /\ last -> "queued"
                      [] OTHER -> status[e]]
    /\ EndTransaction(w, "idle") /\ UNCHANGED <<size, output, result>>
    /\ fan[n] # Nothing /\ fan[n] \in FanRows /\ n \in FanNodes /\ fan[n].total = size[n]
    /\ size[n] \in 0 .. MaxSize /\ i \in 1 .. size[n]
    /\ fan[n].completed = Cardinality(DoneChildren(n))
    /\ DoneChildren(n) = {arrived[n][k] : k \in DOMAIN arrived[n]}
    /\ \A k \in 1 .. MaxSize :
         status[<<n, k>>] \in IF k <= size[n] THEN {"queued", "done"} ELSE {"absent"}
    /\ i \notin DoneChildren(n) /\ status[<<n, 0>>] = "awaiting_children"

LEMMA ChildCommitted ==
    ASSUME InductiveInvariant, NEW w \in Workers, CommitChild(w)
    PROVE  \E n \in Nodes, i \in 1 .. MaxSize : CommitsChild(w, n, i)
<1>1. TypeOK /\ Current(w)
  BY DEF InductiveInvariant
<1>2. PICK n \in Nodes, i \in 1 .. MaxSize :
        /\ n = Claimed(w) /\ i = claim[w][2] /\ claim[w] = <<n, i>>
        /\ status[<<n, i>>] = "queued" /\ lock[<<n, i>>] = w /\ counter[n] = w
        /\ draft[w].completed = fan[n].completed + 1
  <2>1. pc[w] = "counted"
    BY DEF CommitChild
  <2>2. /\ claim[w] # Nothing /\ IsChild(w) /\ counter[Claimed(w)] = w
        /\ draft[w].completed = fan[Claimed(w)].completed + 1
        /\ status[claim[w]] = "queued" /\ lock[claim[w]] = w
    BY <1>1, <2>1 DEF Current
  <2>3. claim[w][2] \in 1 .. MaxSize /\ Claimed(w) \in Nodes /\ claim[w] = <<Claimed(w), claim[w][2]>>
    BY <1>1, <2>2, ClaimedRow, RowNames DEF IsChild
  <2>4. QED
    BY <2>2, <2>3
<1> DEFINE completed == fan[n].completed + 1
           last == completed = fan[n].total
<1>3. /\ fan' = [fan EXCEPT ![n].completed = completed]
      /\ arrived' = [arrived EXCEPT ![n] = Append(@, i)]
      /\ status' = [e \in Execs |->
                      CASE e = <<n, i>> -> "done"
                        [] e = <<n, 0>> /\ last -> "queued"
                        [] OTHER -> status[e]]
      /\ EndTransaction(w, "idle") /\ UNCHANGED <<size, output, result>>
  BY <1>2 DEF CommitChild
<1>4. /\ fan[n] # Nothing /\ fan[n] \in FanRows /\ n \in FanNodes /\ fan[n].total = size[n]
      /\ size[n] \in 0 .. MaxSize /\ i \in 1 .. size[n]
      /\ fan[n].completed = Cardinality(DoneChildren(n))
      /\ DoneChildren(n) = {arrived[n][k] : k \in DOMAIN arrived[n]}
      /\ status[<<n, 0>>] \in {"awaiting_children", "queued", "done"}
      /\ \A k \in 1 .. MaxSize :
           status[<<n, k>>] \in IF k <= size[n] THEN {"queued", "done"} ELSE {"absent"}
      /\ status[<<n, 0>>] # "awaiting_children" => DoneChildren(n) = 1 .. size[n]
  <2>1. Counted(n)
    BY DEF InductiveInvariant
  <2>2. size[n] \in 0 .. MaxSize /\ fan[n] \in FanRows \cup {Nothing}
    BY <1>1 DEF TypeOK
  <2>3. fan[n] # Nothing
    BY <1>2, <2>1 DEF Counted
  <2>4. QED
    BY <1>2, <2>1, <2>2, <2>3, RowNames DEF Counted
<1>5. i \notin DoneChildren(n) /\ status[<<n, 0>>] = "awaiting_children"
  BY <1>2, <1>4 DEF DoneChildren
<1>6. CommitsChild(w, n, i)
  BY <1>2, <1>3, <1>4, <1>5 DEF CommitsChild
<1>7. QED
  BY <1>6

\* The last child, and no other, makes the number of those done the total.
LEMMA CommitChildKeeps ==
    ASSUME InductiveInvariant, NEW w \in Workers, CommitChild(w)
    PROVE  InductiveInvariant'
<1>1. TypeOK /\ Current(w)
  BY DEF InductiveInvariant
<1>2. PICK n \in Nodes, i \in 1 .. MaxSize : CommitsChild(w, n, i)
  BY ChildCommitted
<1> DEFINE completed == fan[n].completed + 1
           last == completed = fan[n].total
<1>3. /\ fan' = [fan EXCEPT ![n].completed = completed]
      /\ arrived' = [arrived EXCEPT ![n] = Append(@, i)]
      /\ status' = [e \in Execs |->
                      CASE e = <<n, i>> -> "done"
                        [] e = <<n, 0>> /\ last -> "queued"
                        [] OTHER -> status[e]]
      /\ EndTransaction(w, "idle") /\ UNCHANGED <<size, output, result>>
      /\ status[<<n, i>>] = "queued" /\ lock[<<n, i>>] = w /\ counter[n] = w
  BY <1>2 DEF CommitsChild
<1>4. /\ fan[n] # Nothing /\ fan[n] \in FanRows /\ n \in FanNodes /\ fan[n].total = size[n]
      /\ size[n] \in 0 .. MaxSize /\ i \in 1 .. size[n]
      /\ fan[n].completed = Cardinality(DoneChildren(n))
      /\ DoneChildren(n) = {arrived[n][k] : k \in DOMAIN arrived[n]}
      /\ \A k \in 1 .. MaxSize :
           status[<<n, k>>] \in IF k <= size[n] THEN {"queued", "done"} ELSE {"absent"}
  BY <1>2 DEF CommitsChild
<1>5. i \notin DoneChildren(n) /\ status[<<n, 0>>] = "awaiting_children"
  BY <1>2 DEF CommitsChild
<1>6. /\ status'[<<n, i>>] = "done"
      /\ status'[<<n, 0>>] = IF last THEN "queued" ELSE "awaiting_children"
      /\ \A e \in Execs : e # <<n, i>> /\ e # <<n, 0>> => status'[e] = status[e]
      /\ status' \in [Execs -> {"absent", "blocked", "queued", "awaiting_children", "done"}]
  <2> HIDE DEF last
  <2>1. <<n, i>> \in Execs /\ <<n, 0>> \in Execs /\ <<n, i>> # <<n, 0>>
    BY RowNames
  <2>2. /\ status'[<<n, i>>] = "done"
        /\ status'[<<n, 0>>] = IF last THEN "queued" ELSE "awaiting_children"
        /\ \A e \in Execs : e # <<n, i>> /\ e # <<n, 0>> => status'[e] = status[e]
    BY <1>3, <1>5, <2>1
  <2>3. status' \in [Execs -> {"absent", "blocked", "queued", "awaiting_children", "done"}]
    BY <1>1, <1>3 DEF TypeOK
  <2>4. QED
    BY <2>2, <2>3
<1>7. \A k \in 1 .. MaxSize : k # i => status'[<<n, k>>] = status[<<n, k>>]
  BY <1>6, RowNames
<1>8. DoneChildren(n)' = DoneChildren(n) \cup {i}
  <2>1. i \in 1 .. size[n] /\ size' = size /\ size[n] \in 0 .. MaxSize /\ MaxSize \in Nat
    BY <1>3, <1>4, RowNames
  <2>2. \A k \in 1 .. size[n] :
          (status'[<<n, k>>] = "done") <=> (status[<<n, k>>] = "done" \/ k = i)
    BY <1>6, <1>7, <2>1
  <2>3. QED
    BY <2>1, <2>2 DEF DoneChildren
<1>9. /\ IsFiniteSet(DoneChildren(n)) /\ completed = Cardinality(DoneChildren(n) \cup {i})
      /\ completed \in 0 .. size[n] /\ (last => DoneChildren(n) \cup {i} = 1 .. size[n])
  <2>0. size[n] \in Nat
    BY <1>4, RowNames
  <2>1. IsFiniteSet(1 .. size[n]) /\ Cardinality(1 .. size[n]) = size[n]
    <3>1. \A s \in Nat : IsFiniteSet(1 .. s) /\ Cardinality(1 .. s) = s
      BY FS_Interval
    <3>2. QED
      BY <2>0, <3>1
  <2>2. DoneChildren(n) \cup {i} \subseteq 1 .. size[n]
    BY <1>4 DEF DoneChildren
  <2>3. IsFiniteSet(DoneChildren(n)) /\ IsFiniteSet(DoneChildren(n) \cup {i})
    BY <2>1, <2>2, FS_Subset
  <2>4. Cardinality(DoneChildren(n) \cup {i}) = Cardinality(DoneChildren(n)) + 1
    BY <1>5, <2>3, FS_AddElement
  <2>5. /\ Cardinality(DoneChildren(n) \cup {i}) <= size[n]
        /\ Cardinality(DoneChildren(n) \cup {i}) = size[n] => DoneChildren(n) \cup {i} = 1 .. size[n]
    BY <2>1, <2>2, FS_Subset
  <2>6. Cardinality(DoneChildren(n) \cup {i}) \in Nat
    BY <2>3, FS_CardinalityType
  <2>7. QED
    BY <1>4, <2>3, <2>4, <2>5, <2>6
<1>10. /\ fan'[n] = [total |-> size[n], completed |-> completed]
       /\ fan'[n] \in FanRows /\ fan'[n].total = size[n] /\ fan'[n].completed = completed
       /\ \A m \in Nodes : m # n => fan'[m] = fan[m]
       /\ fan' \in [Nodes -> FanRows \cup {Nothing}]
  <2> DEFINE row == [total |-> size[n], completed |-> completed]
  <2>1. [fan[n] EXCEPT !.completed = completed] = row
    BY <1>4 DEF FanRows
  <2> HIDE DEF completed
  <2>0. size[n] \in 0 .. MaxSize /\ completed \in 0 .. MaxSize
    BY <1>4, <1>9, RowNames
  <2>2. row \in FanRows /\ row.total = size[n] /\ row.completed = completed
    BY <2>0 DEF FanRows
  <2>3. fan' = [fan EXCEPT ![n] = row]
    BY <1>3, <2>1
  <2> HIDE DEF row
  <2>4. fan'[n] = row /\ fan' \in [Nodes -> FanRows \cup {Nothing}]
        /\ \A m \in Nodes : m # n => fan'[m] = fan[m]
    BY <1>1, <2>2, <2>3 DEF TypeOK
  <2>5. QED
    BY <2>2, <2>4 DEF row
<1>11. /\ arrived' \in [Nodes -> Seq(1 .. MaxSize)]
       /\ \A m \in Nodes : m # n => arrived'[m] = arrived[m]
       /\ {arrived'[n][k] : k \in DOMAIN arrived'[n]} = DoneChildren(n) \cup {i}
  <2> DEFINE more == Append(arrived[n], i)
  <2>1. arrived[n] \in Seq(1 .. MaxSize) /\ more \in Seq(1 .. MaxSize)
    BY <1>1 DEF TypeOK
  <2>2. Members(more) = Members(arrived[n]) \cup {i}
    BY <2>1, Appended
  <2>3. arrived' = [arrived EXCEPT ![n] = more]
    BY <1>3
  <2> HIDE DEF more
  <2>4. arrived' \in [Nodes -> Seq(1 .. MaxSize)] /\ arrived'[n] = more
        /\ \A m \in Nodes : m # n => arrived'[m] = arrived[m]
    BY <1>1, <2>1, <2>3 DEF TypeOK
  <2>5. QED
    BY <1>4, <2>2, <2>4 DEF Members
<1> HIDE DEF completed, last
<1>12. Counted(n)'
  <2>1. FanNodes' = FanNodes /\ size' = size
    BY <1>3 DEF FanNodes, Kind
  <2>2. fan'[n] # Nothing /\ n \in FanNodes' /\ fan'[n].total = size'[n]
    BY <1>4, <1>10, <2>1, RowNames
  <2>3. \A k \in 1 .. MaxSize :
          status'[<<n, k>>] \in IF k <= size'[n] THEN {"queued", "done"} ELSE {"absent"}
    BY <1>4, <1>6, <1>7, <2>1
  <2>4. fan'[n].completed = Cardinality(DoneChildren(n)')
    BY <1>8, <1>9, <1>10
  <2>5. DoneChildren(n)' = {arrived'[n][k] : k \in DOMAIN arrived'[n]}
    BY <1>8, <1>11
  <2>6. status'[<<n, 0>>] # "awaiting_children" => DoneChildren(n)' = 1 .. size'[n]
    BY <1>6, <1>8, <1>9, <2>1
  <2>7. status'[<<n, 0>>] \in {"awaiting_children", "queued", "done"}
    BY <1>6
  <2>8. QED
    BY <2>2, <2>3, <2>4, <2>5, <2>6, <2>7 DEF Counted
<1>13. ASSUME NEW m \in Nodes, m # n PROVE Counted(m)'
  <2>1. /\ \A k \in 1 .. MaxSize : status'[<<m, k>>] = status[<<m, k>>]
        /\ status'[<<m, 0>>] = status[<<m, 0>>]
    BY <1>6, <1>13, RowNames
  <2>2. fan'[m] = fan[m] /\ arrived'[m] = arrived[m] /\ size' = size /\ Counted(m)
    BY <1>3, <1>10, <1>11, <1>13 DEF InductiveInvariant
  <2>3. QED
    BY <1>1, <2>1, <2>2, StaysCounted
<1>14. RowsHaveInputs'
  <2>1. Deps(n) \subseteq output
    BY <1>3, RowNames DEF InductiveInvariant, RowsHaveInputs
  <2>2. \A e \in Execs : e # <<n, i>> /\ e # <<n, 0>> =>
          (status'[e] \notin {"absent", "blocked"} => Deps(e[1]) \subseteq output)
    BY <1>6 DEF InductiveInvariant, RowsHaveInputs
  <2>3. \A e \in Execs : e = <<n, i>> \/ e = <<n, 0>> => Deps(e[1]) \subseteq output
    BY <2>1, RowNames
  <2>4. output' = output /\ \A m : Deps(m)' = Deps(m)
    BY <1>3 DEF Deps
  <2>5. QED
    BY <2>2, <2>3, <2>4 DEF RowsHaveInputs
<1>15. QED
  <2>1. \A e \in Execs : lock[e] # w /\ status[e] \in {"queued", "blocked"} => status'[e] = status[e]
    BY <1>3, <1>5, <1>6
  <2>2. \A m \in Nodes : /\ counter[m] # w /\ fan[m] # Nothing => fan'[m] = fan[m]
                         /\ fan[m] # Nothing => fan'[m] # Nothing
    BY <1>3, <1>10, RowNames
  <2>3. /\ result' = [m \in Nodes |-> result'[m]] /\ output' = output /\ output' \subseteq Nodes
        /\ size' = size /\ EndTransaction(w, "idle")
    BY <1>1, <1>3 DEF TypeOK
  <2>4. QED
    BY ZenonT(60), <1>6, <1>10, <1>11, <1>12, <1>13, <1>14, <2>1, <2>2, <2>3, CommitKeeps

\* What a node's commit is: its output, and the promotions it allows.
CommitsNode(w, n) ==
    /\ claim[w] = <<n, 0>> /\ status[<<n, 0>>] = "queued" /\ lock[<<n, 0>>] = w
    /\ EndTransaction(w, "idle")
    /\ status' = [e \in Execs |->
                    CASE e = <<n, 0>> -> "done"
                      [] e[1] \in draft[w].ready /\ e[2] = 0 -> "queued"
                      [] OTHER -> status[e]]
    /\ output' = output \cup {n}
    /\ result' = [result EXCEPT ![n] = draft[w].joined]
    /\ UNCHANGED <<size, fan, arrived>>
    /\ \A m \in draft[w].ready : /\ m \in Nodes /\ status[<<m, 0>>] = "blocked"
                                 /\ lock[<<m, 0>>] = w /\ Deps(m) \subseteq output'
    /\ n \in FanNodes => fan[n] # Nothing /\ draft[w].joined = [i \in 1 .. size[n] |-> i]

LEMMA NodeCommitted ==
    ASSUME InductiveInvariant, NEW w \in Workers, CommitNode(w)
    PROVE  \E n \in Nodes : CommitsNode(w, n)
<1>1. TypeOK /\ Current(w) /\ pc[w] = "checked"
  BY DEF InductiveInvariant, CommitNode
<1>2. PICK n \in Nodes :
        n = Claimed(w) /\ claim[w] = <<n, 0>> /\ status[<<n, 0>>] = "queued" /\ lock[<<n, 0>>] = w
  <2>1. claim[w] # Nothing /\ ~ IsChild(w)
    BY <1>1 DEF Current, ReadsBlocked
  <2>2. QED
    BY <1>1, <2>1, ClaimedRow DEF Current
<1>3. /\ EndTransaction(w, "idle")
      /\ status' = [e \in Execs |->
                      CASE e = <<n, 0>> -> "done"
                        [] e[1] \in draft[w].ready /\ e[2] = 0 -> "queued"
                        [] OTHER -> status[e]]
      /\ output' = output \cup {n}
      /\ result' = [result EXCEPT ![n] = draft[w].joined]
      /\ UNCHANGED <<size, fan, arrived>>
  BY <1>2 DEF CommitNode
<1>4. \A m \in draft[w].ready : /\ m \in Nodes /\ status[<<m, 0>>] = "blocked"
                                /\ lock[<<m, 0>>] = w /\ Deps(m) \subseteq output'
  BY <1>1, <1>2, <1>3 DEF Current, ReadsBlocked
<1>5. n \in FanNodes => fan[n] # Nothing /\ draft[w].joined = [i \in 1 .. size[n] |-> i]
  BY <1>1, <1>2 DEF Current, ReadsBlocked
<1>6. CommitsNode(w, n)
  BY <1>2, <1>3, <1>4, <1>5 DEF CommitsNode
<1>7. QED
  BY <1>6

\* Where its commit leaves the rows.
LEMMA RowsAfterNode ==
    ASSUME InductiveInvariant, NEW w \in Workers, NEW n \in Nodes, CommitsNode(w, n)
    PROVE  /\ n \notin draft[w].ready /\ status'[<<n, 0>>] = "done"
           /\ \A m \in Nodes :
                /\ m \in draft[w].ready => status'[<<m, 0>>] = "queued"
                /\ m \notin draft[w].ready /\ m # n => status'[<<m, 0>>] = status[<<m, 0>>]
                /\ \A i \in 1 .. MaxSize : status'[<<m, i>>] = status[<<m, i>>]
           /\ status' \in [Execs -> {"absent", "blocked", "queued", "awaiting_children", "done"}]
<1> DEFINE ready == draft[w].ready
<1>1. TypeOK
  BY DEF InductiveInvariant
<1>3. /\ status[<<n, 0>>] = "queued"
      /\ status' = [e \in Execs |->
                      CASE e = <<n, 0>> -> "done"
                        [] e[1] \in ready /\ e[2] = 0 -> "queued"
                        [] OTHER -> status[e]]
      /\ \A m \in ready : status[<<m, 0>>] = "blocked"
  BY DEF CommitsNode
<1>5. n \notin ready
  BY <1>3
<1>6. /\ status'[<<n, 0>>] = "done"
      /\ \A m \in Nodes : /\ m \in ready => status'[<<m, 0>>] = "queued"
                          /\ m \notin ready /\ m # n => status'[<<m, 0>>] = status[<<m, 0>>]
                          /\ \A i \in 1 .. MaxSize : status'[<<m, i>>] = status[<<m, i>>]
      /\ status' \in [Execs -> {"absent", "blocked", "queued", "awaiting_children", "done"}]
  <2> HIDE DEF ready
  <2>1. \A e \in Execs :
          /\ e = <<n, 0>> => status'[e] = "done"
          /\ e # <<n, 0>> /\ e[1] \in ready /\ e[2] = 0 => status'[e] = "queued"
          /\ e # <<n, 0>> /\ ~ (e[1] \in ready /\ e[2] = 0) => status'[e] = status[e]
    <3>1. ASSUME NEW e \in Execs
          PROVE  status'[e] = CASE e = <<n, 0>> -> "done"
                                [] e[1] \in ready /\ e[2] = 0 -> "queued"
                                [] OTHER -> status[e]
      BY <1>3
    <3>2. \A e \in Execs : e = <<n, 0>> => ~ (e[1] \in ready /\ e[2] = 0)
      BY <1>5
    <3>3. QED
      BY <3>1, <3>2
  <2>2. /\ status'[<<n, 0>>] = "done"
        /\ \A m \in Nodes : /\ m \in ready /\ m # n => status'[<<m, 0>>] = "queued"
                            /\ m \notin ready /\ m # n => status'[<<m, 0>>] = status[<<m, 0>>]
    BY <2>1, RowNames
  <2>3. \A m \in Nodes, i \in 1 .. MaxSize : status'[<<m, i>>] = status[<<m, i>>]
    <3>1. \A m \in Nodes, i \in 1 .. MaxSize : i \in 0 .. MaxSize /\ i # 0
      BY RowNames
    <3>2. \A m \in Nodes, i \in 1 .. MaxSize :
            <<m, i>> \in Execs /\ <<m, i>>[2] # 0 /\ <<m, i>> # <<n, 0>>
      BY <3>1, RowNames
    <3>3. QED
      BY <2>1, <3>2
  <2>4. status' \in [Execs -> {"absent", "blocked", "queued", "awaiting_children", "done"}]
    BY <1>1, <1>3 DEF TypeOK
  <2>5. QED
    BY <1>5, <2>2, <2>3, <2>4
<1>7. QED
  BY <1>5, <1>6

\* A node's output is committed with the promotions it allows.
LEMMA CommitNodeKeeps ==
    ASSUME InductiveInvariant, NEW w \in Workers, CommitNode(w)
    PROVE  InductiveInvariant'
<1>1. TypeOK
  BY DEF InductiveInvariant
<1>2. PICK n \in Nodes : CommitsNode(w, n)
  BY NodeCommitted
<1> DEFINE ready == draft[w].ready
<1>3. /\ status[<<n, 0>>] = "queued" /\ lock[<<n, 0>>] = w
      /\ EndTransaction(w, "idle") /\ output' = output \cup {n}
      /\ result' = [result EXCEPT ![n] = draft[w].joined]
      /\ UNCHANGED <<size, fan, arrived>>
  BY <1>2 DEF CommitsNode
<1>4. /\ \A m \in ready : /\ m \in Nodes /\ status[<<m, 0>>] = "blocked"
                          /\ lock[<<m, 0>>] = w /\ Deps(m) \subseteq output'
      /\ n \in FanNodes => fan[n] # Nothing
  BY <1>2 DEF CommitsNode
<1>6. /\ n \notin ready /\ status'[<<n, 0>>] = "done"
      /\ \A m \in Nodes : /\ m \in ready => status'[<<m, 0>>] = "queued"
                          /\ m \notin ready /\ m # n => status'[<<m, 0>>] = status[<<m, 0>>]
                          /\ \A i \in 1 .. MaxSize : status'[<<m, i>>] = status[<<m, i>>]
      /\ status' \in [Execs -> {"absent", "blocked", "queued", "awaiting_children", "done"}]
  BY <1>2, RowsAfterNode
<1> HIDE DEF ready
<1>7. \A e \in Execs : \/ e = <<e[1], 0>> /\ e[1] \in Nodes
                       \/ e[2] \in 1 .. MaxSize /\ e = <<e[1], e[2]>> /\ e[1] \in Nodes
  BY RowNames
<1>8. \A e \in Execs : lock[e] # w /\ status[e] \in {"queued", "blocked"} => status'[e] = status[e]
  BY ZenonT(60), <1>3, <1>4, <1>6, <1>7
<1>9. RowsHaveInputs'
  <2>1. \A e \in Execs : e[1] \in ready => Deps(e[1]) \subseteq output'
    BY <1>4
  <2>2. \A e \in Execs : e[1] = n => Deps(e[1]) \subseteq output'
    BY <1>3, RowNames DEF InductiveInvariant, RowsHaveInputs
  <2>3. \A e \in Execs : e[1] \notin ready /\ e[1] # n => status'[e] = status[e]
    BY ZenonT(60), <1>6, <1>7
  <2>4. output \subseteq output' /\ \A m : Deps(m)' = Deps(m)
    BY <1>3 DEF Deps
  <2>5. QED
    BY <2>1, <2>2, <2>3, <2>4 DEF InductiveInvariant, RowsHaveInputs
<1>10. ASSUME NEW m \in Nodes PROVE Counted(m)'
  <2>0. Counted(m) /\ FanNodes' = FanNodes
    BY DEF InductiveInvariant, FanNodes, Kind
  <2>1. CASE m # n \/ n \notin FanNodes
    <3>1. /\ size' = size /\ fan'[m] = fan[m] /\ arrived'[m] = arrived[m]
          /\ \A i \in 1 .. MaxSize : status'[<<m, i>>] = status[<<m, i>>]
      BY <1>3, <1>6
    <3>2. \/ status'[<<m, 0>>] = status[<<m, 0>>]
          \/ status[<<m, 0>>] = "blocked" /\ status'[<<m, 0>>] = "queued"
          \/ m \notin FanNodes /\ status'[<<m, 0>>] = "done"
      BY <1>4, <1>6, <2>1
    <3>3. QED
      BY <1>1, <2>0, <3>1, <3>2, StaysCounted
  <2>2. CASE m = n /\ n \in FanNodes
    <3>1. fan[n] # Nothing
      BY <1>4, <2>2
    <3>2. size[n] \in 0 .. MaxSize
      BY <1>1 DEF TypeOK
    <3>3. DoneChildren(n)' = DoneChildren(n)
      BY <1>3, <1>6, <3>2, RowNames DEF DoneChildren
    <3>4. /\ fan[n].total = size[n]
          /\ \A i \in 1 .. MaxSize :
               status[<<n, i>>] \in IF i <= size[n] THEN {"queued", "done"} ELSE {"absent"}
          /\ fan[n].completed = Cardinality(DoneChildren(n))
          /\ DoneChildren(n) = {arrived[n][i] : i \in DOMAIN arrived[n]}
          /\ DoneChildren(n) = 1 .. size[n]
      BY <1>3, <2>0, <2>2, <3>1 DEF Counted
    <3>5. QED
      BY <1>3, <1>6, <2>0, <2>2, <3>1, <3>3, <3>4 DEF Counted
  <2>3. QED
    BY <2>1, <2>2
<1>11. QED
  <2>1. /\ fan' \in [Nodes -> FanRows \cup {Nothing}] /\ fan' = fan /\ size' = size
        /\ arrived' \in [Nodes -> Seq(1 .. MaxSize)] /\ result' = [m \in Nodes |-> result'[m]]
        /\ output \subseteq output' /\ output' \subseteq Nodes
        /\ EndTransaction(w, "idle")
    BY <1>1, <1>3 DEF TypeOK
  <2>2. \A m \in Nodes : /\ counter[m] # w /\ fan[m] # Nothing => fan'[m] = fan[m]
                         /\ fan[m] # Nothing => fan'[m] # Nothing
    BY <2>1
  <2>3. status' \in [Execs -> {"absent", "blocked", "queued", "awaiting_children", "done"}]
    BY <1>6
  <2>4. QED
    BY <1>8, <1>9, <1>10, <2>1, <2>2, <2>3, CommitKeeps

LEMMA Initially ==
    ASSUME Init
    PROVE  InductiveInvariant
<1> USE RowNames DEF Init
<1>1. TypeOK
  <2>1. draft = [w \in Workers |-> draft[w]] /\ result = [n \in Nodes |-> result[n]]
    OBVIOUS
  <2>2. \A w \in Workers : draft[w] =
          [joined |-> draft[w].joined, completed |-> draft[w].completed,
           blocked |-> draft[w].blocked, ready |-> draft[w].ready,
           finished |-> draft[w].finished]
    BY DEF NoDraft
  <2>3. arrived \in [Nodes -> Seq(1 .. MaxSize)]
    OBVIOUS
  <2>4. status \in [Execs -> {"absent", "blocked", "queued", "awaiting_children", "done"}]
    OBVIOUS
  <2>5. QED
    BY <2>1, <2>2, <2>3, <2>4 DEF TypeOK
<1>2. RowsHaveInputs
  BY DEF RowsHaveInputs
<1>3. ASSUME NEW n \in Nodes PROVE Counted(n)
  <2>1. \A i \in 1 .. MaxSize : status[<<n, i>>] = "absent"
    OBVIOUS
  <2>2. status[<<n, 0>>] \in {"blocked", "queued"}
    OBVIOUS
  <2>3. QED
    BY <2>1, <2>2 DEF Counted
<1>4. ASSUME NEW w \in Workers PROVE Current(w)
  BY DEF Current, ReadsBlocked
<1>5. QED
  BY <1>1, <1>2, <1>3, <1>4 DEF InductiveInvariant

LEMMA Stuttered ==
    ASSUME InductiveInvariant, UNCHANGED vars
    PROVE  InductiveInvariant'
<1>1. UNCHANGED <<rows, lock, counter, pc, claim, draft>>
  BY DEF vars, locks
<1>2. UNCHANGED <<size, status, fan, output, result, arrived>>
  BY <1>1 DEF rows
<1>3. TypeOK'
  BY <1>1, <1>2 DEF InductiveInvariant, TypeOK
<1>4. ASSUME NEW v \in Workers PROVE Current(v)'
  BY <1>1, <1>2, StaysCurrent DEF Undisturbed
<1>5. QED
  BY <1>1, <1>3, <1>4, RowsUnchanged DEF InductiveInvariant

LEMMA Inductive ==
    ASSUME InductiveInvariant, [Next]_vars
    PROVE  InductiveInvariant'
<1>1. ASSUME NEW w \in Workers, Work(w) \/ Leave(w) \/ Lose(w) PROVE InductiveInvariant'
  BY <1>1, ClaimKeeps, FanOutKeeps, CountChildKeeps, CommitChildKeeps, RecordKeeps,
     LockBlockedKeeps, PromoteKeeps, CheckOutputsKeeps, CommitNodeKeeps, LeaveKeeps, LoseKeeps
     DEF Work
<1>2. QED
  BY <1>1, Stuttered DEF Next

\* --------------------------------------------------------------- the theorems

THEOREM InvariantHolds == Spec => []InductiveInvariant
<1>1. QED
  BY Initially, Inductive, PTL DEF Spec

\* The output a binding reads has been committed before the node, or the step of
\* its case or body, is claimed, for any workflow and any number of workers: a row
\* is promoted by a transaction that sees the outputs it needs and has locked it
\* while it is blocked (promoteReadyNodes; resolveBinding never throws).
THEOREM InputsReadyHolds == Spec => []InputsReady
<1>1. ASSUME InductiveInvariant PROVE InputsReady
  <2> SUFFICES ASSUME NEW w \in Workers, claim[w] # Nothing
               PROVE  Deps(Claimed(w)) \subseteq output
    BY DEF InputsReady
  <2>1. status[claim[w]] = "queued"
    BY <1>1 DEF InductiveInvariant, Current
  <2>2. claim[w] \in Execs
    BY <1>1, ClaimedRow DEF InductiveInvariant
  <2>3. QED
    BY <1>1, <2>1, <2>2 DEF InductiveInvariant, RowsHaveInputs, Claimed
<1>2. QED
  BY <1>1, InvariantHolds, PTL

\* ------------------------------------------------------------- the refinement

\* The maps' rows as spike 1.8 sees them: FanNodes' own and their children's.
MapRows == FanNodes \X (0 .. MaxSize)
Seen(e) == IF status[e] = "blocked" THEN "queued" ELSE status[e]

LEMMA MapRowNames ==
    /\ \A e \in MapRows : e \in Execs /\ e[1] \in FanNodes /\ e[2] \in 0 .. MaxSize
    /\ \A n \in FanNodes, i \in 0 .. MaxSize : <<n, i>> \in MapRows
    /\ \A n \in FanNodes : <<n, 0>> \in MapRows /\ n \in Nodes
    /\ FanNodes' = FanNodes /\ MapRows' = MapRows
BY RowNames DEF MapRows, FanNodes, Execs, Kind

LEMMA MapsInitially ==
    ASSUME Init
    PROVE  Map!Init
<1> USE RowNames, MapRowNames DEF Init
<1>1. [n \in FanNodes |-> size[n]] \in [FanNodes -> 0 .. MaxSize]
  BY DEF FanNodes
<1>2. [e \in MapRows |-> Seen(e)] = [e \in MapRows |-> IF e[2] = 0 THEN "queued" ELSE "absent"]
  <2>1. \A e \in MapRows : Seen(e) = IF e[2] = 0 THEN "queued" ELSE "absent"
    BY DEF Seen
  <2>2. QED
    BY <2>1
<1>3. /\ [n \in FanNodes |-> fan[n]] = [n \in FanNodes |-> Nothing]
      /\ [n \in FanNodes |-> result[n]] = [n \in FanNodes |-> Nothing]
  BY DEF FanNodes
<1>4. [e \in FanNodes \X (1 .. MaxSize) |-> 0] \in [FanNodes \X (1 .. MaxSize) -> Nat]
  OBVIOUS
<1>5. QED
  BY <1>1, <1>2, <1>3, <1>4 DEF Map!Init, MapRows, Seen

\* Nothing that a map has changes.
LEMMA MapsUnchanged ==
    ASSUME \A n \in FanNodes : /\ size'[n] = size[n] /\ fan'[n] = fan[n]
                               /\ result'[n] = result[n],
           \A e \in MapRows : Seen(e)' = Seen(e)
    PROVE  UNCHANGED Map!vars
<1>1. /\ [n \in FanNodes |-> size[n]]' = [n \in FanNodes |-> size[n]]
      /\ [n \in FanNodes |-> fan[n]]' = [n \in FanNodes |-> fan[n]]
      /\ [n \in FanNodes |-> result[n]]' = [n \in FanNodes |-> result[n]]
  BY MapRowNames
<1>2. [e \in MapRows |-> Seen(e)]' = [e \in MapRows |-> Seen(e)]
  BY MapRowNames
<1>3. [e \in FanNodes \X (1 .. MaxSize) |-> 0]' = [e \in FanNodes \X (1 .. MaxSize) |-> 0]
  BY MapRowNames
<1>4. QED
  BY <1>1, <1>2, <1>3 DEF Map!vars, MapRows, Seen

LEMMA FanOutImplements ==
    ASSUME InductiveInvariant, NEW w \in Workers, FanOut(w)
    PROVE  \E m \in FanNodes : Map!FanOut(m)
<1>1. TypeOK /\ Current(w)
  BY DEF InductiveInvariant
<1>2. PICK n \in Nodes :
        n = Claimed(w) /\ claim[w] = <<n, 0>> /\ status[<<n, 0>>] = "queued"
  BY <1>1, ClaimedRow DEF FanOut, Current
<1>3. /\ n \in FanNodes /\ fan[n] = Nothing /\ size[n] \in 0 .. MaxSize
      /\ status' = [e \in Execs |->
                      CASE e = <<n, 0>> -> "awaiting_children"
                        [] e[1] = n /\ e[2] \in 1 .. size[n] -> "queued"
                        [] OTHER -> status[e]]
      /\ fan' = [fan EXCEPT ![n] = [total |-> size[n], completed |-> 0]]
      /\ UNCHANGED <<size, result>>
  BY <1>1, <1>2 DEF FanOut, FanNodes, TypeOK
<1>4. ASSUME NEW e \in MapRows
      PROVE  Seen(e)' = IF e = <<n, 0>> THEN "awaiting_children"
                        ELSE IF e \in Map!Children(n) THEN "queued" ELSE Seen(e)
  <2>1. e \in Execs /\ e = <<e[1], e[2]>>
    BY MapRowNames, RowNames
  <2>2. e \in Map!Children(n) <=> (e[1] = n /\ e[2] \in 1 .. size[n])
    BY <1>3, <2>1 DEF Map!Children
  <2>3. QED
    BY <1>3, <2>1, <2>2 DEF Seen
<1>5. [e \in MapRows |-> Seen(e)]' =
        [e \in MapRows |-> IF e = <<n, 0>> THEN "awaiting_children"
                           ELSE IF e \in Map!Children(n) THEN "queued" ELSE Seen(e)]
  BY <1>4, MapRowNames
<1>6. [m \in FanNodes |-> fan[m]]' =
        [[m \in FanNodes |-> fan[m]] EXCEPT
            ![n] = [total |-> [m \in FanNodes |-> size[m]][n], completed |-> 0]]
  <2> DEFINE row == [total |-> size[n], completed |-> 0]
  <2>1. [m \in FanNodes |-> size[m]][n] = size[n]
    BY <1>3
  <2>2. fan' = [fan EXCEPT ![n] = row] /\ n \in Nodes
    BY <1>3
  <2> HIDE DEF row
  <2>3. \A m \in FanNodes : fan'[m] = IF m = n THEN row ELSE fan[m]
    BY <1>1, <2>2, MapRowNames DEF TypeOK
  <2>4. [m \in FanNodes |-> fan[m]]' = [[m \in FanNodes |-> fan[m]] EXCEPT ![n] = row]
    BY <2>3, MapRowNames
  <2>5. QED
    BY <2>1, <2>4 DEF row
<1>7. /\ [m \in FanNodes |-> size[m]]' = [m \in FanNodes |-> size[m]]
      /\ [m \in FanNodes |-> result[m]]' = [m \in FanNodes |-> result[m]]
      /\ [e \in FanNodes \X (1 .. MaxSize) |-> 0]' = [e \in FanNodes \X (1 .. MaxSize) |-> 0]
  BY <1>3, MapRowNames
<1>8. /\ [e \in MapRows |-> Seen(e)][<<n, 0>>] = "queued"
      /\ [m \in FanNodes |-> fan[m]][n] = Nothing
      /\ DOMAIN [e \in MapRows |-> Seen(e)] = MapRows
  BY <1>2, <1>3, MapRowNames DEF Seen
<1>9. Map!FanOut(n)
  BY <1>3, <1>5, <1>6, <1>7, <1>8 DEF Map!FanOut, MapRows, Seen
<1>10. QED
  BY <1>3, <1>9

LEMMA CommitChildImplements ==
    ASSUME InductiveInvariant, NEW w \in Workers, CommitChild(w)
    PROVE  \E c \in FanNodes \X (1 .. MaxSize) : Map!ProcessStep(c)
<1>1. TypeOK
  BY DEF InductiveInvariant
<1>2. PICK n \in Nodes, i \in 1 .. MaxSize : CommitsChild(w, n, i)
  BY ChildCommitted
<1> DEFINE completed == fan[n].completed + 1
           last == completed = fan[n].total
<1>3. /\ fan' = [fan EXCEPT ![n].completed = completed]
      /\ status' = [e \in Execs |->
                      CASE e = <<n, i>> -> "done"
                        [] e = <<n, 0>> /\ last -> "queued"
                        [] OTHER -> status[e]]
      /\ UNCHANGED <<size, result>> /\ status[<<n, i>>] = "queued"
      /\ status[<<n, 0>>] = "awaiting_children" /\ n \in FanNodes /\ fan[n] \in FanRows
  BY <1>2 DEF CommitsChild
<1>4. <<n, i>> \in FanNodes \X (1 .. MaxSize) /\ <<n, i>>[1] = n
  BY <1>3
<1>5. /\ <<n, i>> \in MapRows /\ <<n, 0>> \in MapRows /\ <<n, i>> # <<n, 0>>
      /\ <<n, i>> \in Execs /\ <<n, 0>> \in Execs
  BY <1>3, MapRowNames, RowNames
<1>6. Seen(<<n, i>>) = "queued"
  BY <1>3 DEF Seen
<1> DEFINE seen == [e \in MapRows |-> Seen(e)]
           fans == [m \in FanNodes |-> fan[m]]
<1>7. ASSUME NEW e \in MapRows
      PROVE  Seen(e)' = IF e = <<n, i>> THEN "done"
                        ELSE IF e = <<n, 0>> /\ last THEN "queued" ELSE Seen(e)
  <2> HIDE DEF last
  <2>1. e \in Execs
    BY MapRowNames
  <2>2. QED
    BY <1>3, <1>5, <2>1 DEF Seen
<1>8. seen' = IF last THEN [seen EXCEPT ![<<n, i>>] = "done", ![<<n, 0>>] = "queued"]
              ELSE [seen EXCEPT ![<<n, i>>] = "done"]
  <2> HIDE DEF last
  <2>1. seen' = [e \in MapRows |-> Seen(e)']
    BY MapRowNames
  <2>2. CASE last
    <3>1. \A e \in MapRows : Seen(e)' = IF e = <<n, i>> THEN "done"
                                        ELSE IF e = <<n, 0>> THEN "queued" ELSE Seen(e)
      BY <1>7, <2>2
    <3>2. QED
      BY <1>5, <2>1, <2>2, <3>1
  <2>3. CASE ~ last
    <3>1. \A e \in MapRows : Seen(e)' = IF e = <<n, i>> THEN "done" ELSE Seen(e)
      BY <1>7, <2>3
    <3>2. QED
      BY <1>5, <2>1, <2>3, <3>1
  <2>4. QED
    BY <2>2, <2>3
<1>9. fans[n] = fan[n] /\ seen[<<n, i>>] = "queued"
  BY <1>3, <1>5, <1>6
<1>10. fans' = [fans EXCEPT ![n].completed = completed]
  <2> DEFINE row == [fan[n] EXCEPT !.completed = completed]
  <2>1. fan' = [fan EXCEPT ![n] = row] /\ n \in Nodes
    BY <1>3
  <2>2. [fans EXCEPT ![n].completed = completed] = [fans EXCEPT ![n] = row]
    BY <1>9
  <2> HIDE DEF row, completed
  <2>3. \A m \in FanNodes : fan'[m] = IF m = n THEN row ELSE fan[m]
    BY <1>1, <2>1, MapRowNames DEF TypeOK
  <2>4. fans' = [fans EXCEPT ![n] = row]
    BY <2>3, MapRowNames
  <2>5. QED
    BY <2>2, <2>4
<1>11. /\ [m \in FanNodes |-> size[m]]' = [m \in FanNodes |-> size[m]]
       /\ [m \in FanNodes |-> result[m]]' = [m \in FanNodes |-> result[m]]
       /\ [e \in FanNodes \X (1 .. MaxSize) |-> 0]' = [e \in FanNodes \X (1 .. MaxSize) |-> 0]
       /\ [e \in FanNodes \X (1 .. MaxSize) |-> 0][<<n, i>>] = 0
  BY <1>3, <1>4, MapRowNames
<1>12. Map!ProcessStep(<<n, i>>)
  BY <1>4, <1>8, <1>9, <1>10, <1>11 DEF Map!ProcessStep, MapRows, Seen
<1>13. QED
  BY <1>4, <1>12

\* A join of a branch or a map is one; a plain step's commit is none, and what
\* either promotes is, to spike 1.8, as it was.
LEMMA CommitNodeImplements ==
    ASSUME InductiveInvariant, NEW w \in Workers, CommitNode(w)
    PROVE  (\E m \in FanNodes : Map!Join(m)) \/ UNCHANGED Map!vars
<1>1. TypeOK
  BY DEF InductiveInvariant
<1>2. PICK n \in Nodes : CommitsNode(w, n)
  BY NodeCommitted
<1>3. /\ result' = [result EXCEPT ![n] = draft[w].joined] /\ UNCHANGED <<size, fan>>
      /\ status[<<n, 0>>] = "queued"
      /\ \A m \in draft[w].ready : m \in Nodes /\ status[<<m, 0>>] = "blocked"
      /\ n \in FanNodes => fan[n] # Nothing /\ draft[w].joined = [i \in 1 .. size[n] |-> i]
  BY <1>2 DEF CommitsNode
<1>4. ASSUME NEW e \in MapRows PROVE Seen(e)' = IF e = <<n, 0>> THEN "done" ELSE Seen(e)
  <2>1. /\ e[1] \in Nodes /\ e = <<e[1], e[2]>>
        /\ e[2] = 0 \/ e[2] \in 1 .. MaxSize
    BY MapRowNames, RowNames
  <2>2. CASE e[2] = 0
    <3>1. PICK m \in Nodes : e = <<m, 0>>
      BY <2>1, <2>2
    <3>2. e = <<n, 0>> <=> m = n
      BY <3>1
    <3>3. QED
      BY <1>2, <1>3, <3>1, <3>2, RowsAfterNode DEF Seen
  <2>3. CASE e[2] \in 1 .. MaxSize
    <3>1. PICK m \in Nodes, i \in 1 .. MaxSize : e = <<m, i>>
      BY <2>1, <2>3
    <3>2. e # <<n, 0>>
      BY <3>1
    <3>3. status'[<<m, i>>] = status[<<m, i>>]
      BY <1>2, RowsAfterNode
    <3>4. QED
      BY <3>1, <3>2, <3>3 DEF Seen
  <2>4. QED
    BY <2>1, <2>2, <2>3
<1>5. \A m \in FanNodes : result'[m] = IF m = n THEN draft[w].joined ELSE result[m]
  BY <1>1, <1>3, MapRowNames DEF TypeOK
<1>6. CASE n \in FanNodes
  <2> DEFINE seen == [e \in MapRows |-> Seen(e)]
             results == [m \in FanNodes |-> result[m]]
             joined == [i \in 1 .. size[n] |-> i]
  <2>1. <<n, 0>> \in MapRows /\ seen[<<n, 0>>] = "queued"
    BY <1>3, <1>6, MapRowNames DEF Seen
  <2>2. seen' = [seen EXCEPT ![<<n, 0>>] = "done"]
    BY <1>4, <2>1, MapRowNames
  <2>3. results' = [results EXCEPT ![n] = joined]
    BY <1>3, <1>5, <1>6, MapRowNames
  <2>4. \A c \in Map!Children(n) : seen[c] = "done"
    <3>1. DoneChildren(n) = 1 .. size[n]
      BY <1>3, <1>6 DEF InductiveInvariant, Counted
    <3>2. size[n] \in 0 .. MaxSize /\ [m \in FanNodes |-> size[m]][n] = size[n]
      BY <1>1, <1>6 DEF TypeOK
    <3>3. ASSUME NEW i \in 1 .. size[n] PROVE seen[<<n, i>>] = "done"
      <4>1. status[<<n, i>>] = "done"
        BY <3>1 DEF DoneChildren
      <4>2. i \in 0 .. MaxSize
        BY <3>2, RowNames
      <4>3. <<n, i>> \in MapRows
        BY <1>6, <4>2, MapRowNames
      <4>4. QED
        BY <4>1, <4>3 DEF Seen
    <3>4. Map!Children(n) = {n} \X (1 .. size[n])
      BY <3>2 DEF Map!Children
    <3>5. QED
      BY <3>3, <3>4
  <2>5. /\ [m \in FanNodes |-> fan[m]][n] # Nothing /\ [m \in FanNodes |-> size[m]][n] = size[n]
        /\ [m \in FanNodes |-> size[m]]' = [m \in FanNodes |-> size[m]]
        /\ [m \in FanNodes |-> fan[m]]' = [m \in FanNodes |-> fan[m]]
        /\ [e \in FanNodes \X (1 .. MaxSize) |-> 0]' = [e \in FanNodes \X (1 .. MaxSize) |-> 0]
    BY <1>3, <1>6, MapRowNames
  <2>6. Map!Join(n)
    BY <2>1, <2>2, <2>3, <2>4, <2>5 DEF Map!Join, MapRows, Seen
  <2>7. QED
    BY <1>6, <2>6
<1>7. CASE n \notin FanNodes
  <2>1. \A e \in MapRows : e # <<n, 0>>
    BY <1>7, MapRowNames
  <2>2. /\ \A e \in MapRows : Seen(e)' = Seen(e)
        /\ \A m \in FanNodes : /\ size'[m] = size[m] /\ fan'[m] = fan[m]
                               /\ result'[m] = result[m]
    BY <1>3, <1>4, <1>5, <1>7, <2>1
  <2>3. QED
    BY <2>2, MapsUnchanged
<1>8. QED
  BY <1>6, <1>7

\* Every other statement leaves the rows alone.
LEMMA OthersStutter ==
    ASSUME UNCHANGED rows
    PROVE  UNCHANGED Map!vars
<1>1. UNCHANGED <<size, status, fan, result>>
  BY DEF rows
<1>2. \A e \in MapRows : Seen(e)' = Seen(e)
  BY <1>1 DEF Seen
<1>3. QED
  BY <1>1, <1>2, MapsUnchanged

\* The fan-out and join of branches and maps, for any workflow and any number of
\* workers, are spike 1.8's: the last child, and only it, re-queues its node, and
\* the join finds all of the outputs, in the order of the source.
THEOREM MapForEachImplemented == Spec => ImplementsMapForEach
<1>1. ASSUME InductiveInvariant, [Next]_vars PROVE [Map!Next]_(Map!vars)
  <2>1. ASSUME NEW w \in Workers, Work(w) \/ Leave(w) \/ Lose(w)
        PROVE  Map!Next \/ UNCHANGED Map!vars
    <3>1. CASE FanOut(w)
      BY <1>1, <3>1, FanOutImplements DEF Map!Next
    <3>2. CASE CommitChild(w)
      BY <1>1, <3>2, CommitChildImplements DEF Map!Next
    <3>3. CASE CommitNode(w)
      BY <1>1, <3>3, CommitNodeImplements DEF Map!Next
    <3>4. CASE \/ Claim(w) \/ CountChild(w) \/ Record(w) \/ LockBlocked(w) \/ Promote(w)
               \/ CheckOutputs(w) \/ Leave(w) \/ Lose(w)
      BY <3>4, OthersStutter
         DEF Claim, CountChild, Record, LockBlocked, Promote, CheckOutputs, Leave, Lose
    <3>5. QED
      BY <2>1, <3>1, <3>2, <3>3, <3>4 DEF Work
  <2>2. CASE UNCHANGED vars
    BY <2>2, OthersStutter DEF vars
  <2>3. QED
    BY <1>1, <2>1, <2>2 DEF Next
<1>2. QED
  BY <1>1, MapsInitially, InvariantHolds, PTL DEF Spec, ImplementsMapForEach, Map!Spec

================================================================================
