------------------------------ MODULE MapForEach ------------------------------
(***************************************************************************)
(* What the durable map promises (archive/spikes/1.8-map-foreach), at the  *)
(* grain of its commits: a map is claimed once to fan out into children,   *)
(* the children are processed by whichever workers, and the last of them   *)
(* re-queues the map for the one claim that joins their outputs, in the    *)
(* order of the source.                                                    *)
(*                                                                         *)
(* A claim is part of the transaction that does the work, so a crash rolls *)
(* it back and is a step in which nothing happens.  IrInterpreter, the     *)
(* later interpreter with the same rows, implements this specification.    *)
(***************************************************************************)
EXTENDS Naturals, Sequences

CONSTANTS Maps, MaxSize, Nothing

VARIABLES
    size,       \* size[m]: the length of the source array; fixed
    status,     \* status[<<m, 0>>] of the map, status[<<m, i>>] of its i-th child
    fan,        \* fan[m]: the map_nodes row, once there is one
    owed,       \* owed[c]: fail_remaining, the attempts of a child still to fail
    result      \* result[m]: the children's outputs a join collected

vars == <<size, status, fan, owed, result>>

Children(m) == {m} \X (1 .. size[m])

Init ==
    /\ size \in [Maps -> 0 .. MaxSize]
    /\ status = [e \in Maps \X (0 .. MaxSize) |-> IF e[2] = 0 THEN "queued" ELSE "absent"]
    /\ fan = [m \in Maps |-> Nothing]
    /\ owed \in [Maps \X (1 .. MaxSize) -> Nat]
    /\ result = [m \in Maps |-> Nothing]

\* The children and the map_nodes row are inserted and the map parked, at once.
FanOut(m) ==
    /\ status[<<m, 0>>] = "queued" /\ fan[m] = Nothing
    /\ status' = [e \in DOMAIN status |->
                    IF e = <<m, 0>> THEN "awaiting_children"
                    ELSE IF e \in Children(m) THEN "queued" ELSE status[e]]
    /\ fan' = [fan EXCEPT ![m] = [total |-> size[m], completed |-> 0]]
    /\ UNCHANGED <<size, owed, result>>

\* A failed attempt is committed, and touches the child's own row alone.
Retry(c) ==
    /\ status[c] = "queued" /\ owed[c] > 0
    /\ owed' = [owed EXCEPT ![c] = @ - 1]
    /\ UNCHANGED <<size, status, fan, result>>

\* processStep of a child: the counter is bumped under its row's lock, and the
\* child that completes it re-queues the map.
ProcessStep(c) ==
    LET m == c[1]  completed == fan[m].completed + 1 IN
    /\ status[c] = "queued" /\ owed[c] = 0
    /\ fan' = [fan EXCEPT ![m].completed = completed]
    /\ status' = IF completed = fan[m].total
                 THEN [status EXCEPT ![c] = "done", ![<<m, 0>>] = "queued"]
                 ELSE [status EXCEPT ![c] = "done"]
    /\ UNCHANGED <<size, owed, result>>

\* Every child is done, or join throws; outputs go by map_index.
Join(m) ==
    /\ status[<<m, 0>>] = "queued" /\ fan[m] # Nothing
    /\ \A c \in Children(m) : status[c] = "done"
    /\ result' = [result EXCEPT ![m] = [i \in 1 .. size[m] |-> i]]
    /\ status' = [status EXCEPT ![<<m, 0>>] = "done"]
    /\ UNCHANGED <<size, fan, owed>>

Next ==
    \/ \E m \in Maps : FanOut(m) \/ Join(m)
    \/ \E c \in Maps \X (1 .. MaxSize) : Retry(c) \/ ProcessStep(c)

Spec == Init /\ [][Next]_vars
===============================================================================
