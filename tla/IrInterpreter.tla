----------------------------- MODULE IrInterpreter -----------------------------
(***************************************************************************)
(* The archived interpreter of the whole IR (archive/spikes/               *)
(* 1.5-ir-interpreter): plain steps, branches and maps of one run, each a  *)
(* row of ir.executions that any worker may claim.  A branch fans out into *)
(* the step of the case it selects as a map does into one child for each   *)
(* item; a case and a body have one step each.                             *)
(*                                                                         *)
(* Unlike src/engine (WorkerLoop) it takes no lock on the run: completions *)
(* are serialised by the rows that are still blocked, as long as some are. *)
(*                                                                         *)
(* The claim is a statement of the transaction that does the work, so      *)
(* nobody sees a row as running.  Steps below are the statements that lock *)
(* or read what others write; the transaction's other writes happen, for   *)
(* the others, when it commits.                                            *)
(***************************************************************************)
EXTENDS Naturals, Sequences, FiniteSets

CONSTANTS
    Workers,
    Nodes,      \* the top-level nodes of the workflow
    NodeDef,    \* of each: its kind, the step ids found anywhere in it, and the
                \* ids of the steps inside its cases or its body
    Outputs,    \* the nodes the workflow's outputs refer to
    MaxSize,    \* bound: items of a map's source
    MaxLost,    \* bound: workers lost
    Nothing

VARIABLES
    size,       \* how many children a node fans out into; fixed
    status,     \* committed ir.executions.status: <<n, 0>> is node n's row, and
                \* <<n, i>> that of its i-th child
    fan,        \* map_nodes or branch_nodes: total and completed children
    output,     \* nodes with a committed run_node_outputs row
    result,     \* the children's outputs each join collected
    arrived,    \* arrived[n]: its children, as their checkpoints were committed
    run,        \* workflow_runs.status
    lock,       \* who holds the lock of each ir.executions row
    counter,    \* who holds the lock of each node's fan row
    pc, claim,  \* where each worker is, and the row it has claimed
    draft,      \* what it will commit
    lost

rows == <<size, status, fan, output, result, arrived, run>>
locks == <<lock, counter>>
vars == <<rows, locks, pc, claim, draft, lost>>

Kind(n) == NodeDef[n].kind
FanNodes == {n \in Nodes : Kind(n) # "step"}
Execs == Nodes \X (0 .. MaxSize)

\* A row of map_nodes or branch_nodes.
FanRows == [total : 0 .. MaxSize, completed : 0 .. MaxSize]

\* externalDepsOf
Deps(n) == (NodeDef[n].refs \ NodeDef[n].internal) \ {n}

ASSUME IrAssumption ==
    /\ \A n \in Nodes : Kind(n) \in {"step", "branch", "map"}
    /\ Outputs \subseteq Nodes
    /\ MaxSize \in Nat \ {0} /\ MaxLost \in Nat
    /\ Nothing \notin Workers \cup Execs \cup FanRows

NoDraft == [joined |-> Nothing, completed |-> 0, blocked |-> {}, ready |-> {}, finished |-> FALSE]

Init ==
    /\ size \in {s \in [Nodes -> 0 .. MaxSize] :
                   \A n \in Nodes : /\ Kind(n) = "step" => s[n] = 0
                                    /\ Kind(n) = "branch" => s[n] = 1}
    /\ status = [e \in Execs |->
                   IF e[2] # 0 THEN "absent" ELSE IF Deps(e[1]) = {} THEN "queued" ELSE "blocked"]
    /\ fan = [n \in Nodes |-> Nothing] /\ result = [n \in Nodes |-> Nothing]
    /\ output = {} /\ arrived = [n \in Nodes |-> <<>>] /\ run = "running"
    /\ lock = [e \in Execs |-> Nothing] /\ counter = [n \in Nodes |-> Nothing]
    /\ pc = [w \in Workers |-> "idle"] /\ claim = [w \in Workers |-> Nothing]
    /\ draft = [w \in Workers |-> NoDraft]
    /\ lost = 0

Goto(w, l) == pc' = [pc EXCEPT ![w] = l]
Claimed(w) == claim[w][1]
IsChild(w) == claim[w][2] # 0

\* The end of a transaction: its locks are released and its worker polls again.
EndTransaction(w, next) ==
    /\ lock' = [e \in Execs |-> IF lock[e] = w THEN Nothing ELSE lock[e]]
    /\ counter' = [n \in Nodes |-> IF counter[n] = w THEN Nothing ELSE counter[n]]
    /\ claim' = [claim EXCEPT ![w] = Nothing]
    /\ draft' = [draft EXCEPT ![w] = NoDraft]
    /\ Goto(w, next)

\* ---------------------------------------------------------------- processOne

Claimable == {e \in Execs : status[e] = "queued" /\ lock[e] = Nothing}

\* claim_execution(): one queued row that is not locked.  It takes the one with the
\* lowest id; here any, so that nothing rests on the order rows were inserted in.
Claim(w) ==
    /\ pc[w] = "idle"
    /\ \E e \in Claimable :
         /\ lock' = [lock EXCEPT ![e] = w]
         /\ claim' = [claim EXCEPT ![w] = e]
    /\ Goto(w, "claimed")
    /\ UNCHANGED <<rows, counter, draft, lost>>

\* workerLoop ends after maxIdlePolls polls that found nothing.
Leave(w) ==
    /\ pc[w] = "idle" /\ Claimable = {}
    /\ Goto(w, "gone")
    /\ UNCHANGED <<rows, locks, claim, draft, lost>>

\* A statement or a binding throws, or the worker dies: ROLLBACK, and the error
\* ends workerLoop.
Lose(w) ==
    /\ pc[w] \notin {"idle", "gone"}
    /\ lost < MaxLost /\ lost' = lost + 1
    /\ EndTransaction(w, "gone")
    /\ UNCHANGED rows

\* First claim of a branch or a map: children, fan row and parked node, at once.
FanOut(w) ==
    LET n == Claimed(w) IN
    /\ pc[w] = "claimed" /\ ~ IsChild(w) /\ Kind(n) # "step" /\ fan[n] = Nothing
    /\ status' = [e \in Execs |->
                    CASE e = <<n, 0>> -> "awaiting_children"
                      [] e[1] = n /\ e[2] \in 1 .. size[n] -> "queued"
                      [] OTHER -> status[e]]
    /\ fan' = [fan EXCEPT ![n] = [total |-> size[n], completed |-> 0]]
    /\ EndTransaction(w, "idle")
    /\ UNCHANGED <<size, output, result, arrived, run, lost>>

\* Mutant: the counter is read without FOR UPDATE.
CountChildUnlocked(w) ==
    /\ pc[w] = "claimed" /\ IsChild(w)
    /\ draft' = [draft EXCEPT ![w].completed = fan[Claimed(w)].completed + 1]
    /\ Goto(w, "counted")
    /\ UNCHANGED <<rows, locks, claim, lost>>

\* A child checkpoints its output and reads its parent's counter FOR UPDATE.
CountChild(w) ==
    /\ pc[w] = "claimed" /\ IsChild(w)
    /\ counter[Claimed(w)] = Nothing
    /\ counter' = [counter EXCEPT ![Claimed(w)] = w]
    /\ draft' = [draft EXCEPT ![w].completed = fan[Claimed(w)].completed + 1]
    /\ Goto(w, "counted")
    /\ UNCHANGED <<rows, lock, claim, lost>>

CommitChild(w) ==
    LET n == Claimed(w) IN
    /\ pc[w] = "counted"
    /\ fan' = [fan EXCEPT ![n].completed = draft[w].completed]
    /\ arrived' = [arrived EXCEPT ![n] = Append(@, claim[w][2])]
    /\ status' = [e \in Execs |->
                    CASE e = claim[w] -> "done"
                      [] e = <<n, 0>> /\ draft[w].completed = fan[n].total -> "queued"
                      [] OTHER -> status[e]]
    /\ EndTransaction(w, "idle")
    /\ UNCHANGED <<size, output, result, run, lost>>

\* The checkpoints of a node's children, ORDER BY map_index.
InOrderOfSource(n) ==
    LET indexes == {arrived[n][i] : i \in DOMAIN arrived[n]} IN
    [i \in 1 .. Cardinality(indexes) |->
        CHOOSE x \in indexes : Cardinality({y \in indexes : y < x}) = i - 1]

\* A plain step runs, or a branch or a map is claimed again and joined; its
\* output is written, and not committed.
Record(w) ==
    LET n == Claimed(w) IN
    /\ pc[w] = "claimed" /\ ~ IsChild(w)
    /\ Kind(n) = "step" \/ fan[n] # Nothing
    /\ draft' = [draft EXCEPT ![w].joined =
                   IF Kind(n) = "step" THEN Nothing ELSE InOrderOfSource(n)]
    /\ Goto(w, "recorded")
    /\ UNCHANGED <<rows, locks, claim, lost>>

Blocked == {n \in Nodes : status[<<n, 0>>] = "blocked"}

\* Mutant: the blocked rows are read without FOR UPDATE.
ReadBlocked(w) ==
    /\ pc[w] = "recorded"
    /\ draft' = [draft EXCEPT ![w].blocked = Blocked]
    /\ Goto(w, "promoting")
    /\ UNCHANGED <<rows, locks, claim, lost>>

\* promoteReadyNodes: SELECT ... status = 'blocked' FOR UPDATE.
LockBlocked(w) ==
    /\ pc[w] = "recorded"
    /\ \A n \in Blocked : lock[<<n, 0>>] = Nothing
    /\ lock' = [e \in Execs |-> IF e[1] \in Blocked /\ e[2] = 0 THEN w ELSE lock[e]]
    /\ draft' = [draft EXCEPT ![w].blocked = Blocked]
    /\ Goto(w, "promoting")
    /\ UNCHANGED <<rows, counter, claim, lost>>

\* The outputs a statement of w sees: the committed ones, and its own.
Done(w) == output \cup {Claimed(w)}

\* Mutant: some in place of every.
SatisfiedBySome(n, done) == Deps(n) \cap done # {}

Satisfied(n, done) == Deps(n) \subseteq done

\* It lists the outputs and updates the blocked nodes whose dependencies are all
\* there.
Promote(w) ==
    /\ pc[w] = "promoting"
    /\ draft' = [draft EXCEPT ![w].ready = {n \in draft[w].blocked : Satisfied(n, Done(w))}]
    /\ Goto(w, "promoted")
    /\ UNCHANGED <<rows, locks, claim, lost>>

\* maybeCompleteRun lists them once more.
CheckOutputs(w) ==
    /\ pc[w] = "promoted"
    /\ draft' = [draft EXCEPT ![w].finished = Outputs \subseteq Done(w)]
    /\ Goto(w, "checked")
    /\ UNCHANGED <<rows, locks, claim, lost>>

CommitNode(w) ==
    LET n == Claimed(w) IN
    /\ pc[w] = "checked"
    /\ status' = [e \in Execs |->
                    CASE e = claim[w] -> "done"
                      [] e[1] \in draft[w].ready /\ e[2] = 0 -> "queued"
                      [] OTHER -> status[e]]
    /\ output' = output \cup {n}
    /\ result' = [result EXCEPT ![n] = draft[w].joined]
    /\ run' = IF draft[w].finished THEN "done" ELSE run
    /\ EndTransaction(w, "idle")
    /\ UNCHANGED <<size, fan, arrived, lost>>

Work(w) ==
    \/ Claim(w) \/ FanOut(w)
    \/ CountChild(w) \/ CommitChild(w)
    \/ Record(w) \/ LockBlocked(w) \/ Promote(w) \/ CheckOutputs(w) \/ CommitNode(w)

Next == \E w \in Workers : Work(w) \/ Leave(w) \/ Lose(w)

Spec == Init /\ [][Next]_vars

\* A worker that polls goes on polling, and its transaction goes on.
FairSpec == Spec /\ \A w \in Workers : WF_vars(Work(w))

\* -------------------------------------------------------------- properties

\* Whoever reads a dependency's output finds it: resolveBinding's "has not
\* produced output yet" is never thrown, for a node or for the step of a case,
\* although promotion and claims of several workers interleave (bindings.js:32).
InputsReady ==
    \A w \in Workers : claim[w] # Nothing => Deps(Claimed(w)) \subseteq output

\* The same rows, seen as maps: one that is blocked has not been claimed, no more
\* than the spike's queued ones; an attempt of a child fails only with its worker.
Map == INSTANCE MapForEach WITH
    Maps <- FanNodes,
    size <- [n \in FanNodes |-> size[n]],
    status <- [e \in FanNodes \X (0 .. MaxSize) |->
                 IF status[e] = "blocked" THEN "queued" ELSE status[e]],
    fan <- [n \in FanNodes |-> fan[n]],
    owed <- [e \in FanNodes \X (1 .. MaxSize) |-> 0],
    result <- [n \in FanNodes |-> result[n]]

\* The last child, and only it, re-queues its branch or map, and the join has
\* the outputs of all of the children in the order of the source, whatever the
\* order they finish in (interpreter.js:214-228, 357; spike 1.8's promise).
ImplementsMapForEach == Map!Spec

\* A run whose outputs come from one last node completes while a worker is left,
\* unless it maps an empty source: such a map parks itself with no child to wake
\* it (interpreter.js:224, 345-352).  With two last nodes even that is not so:
\* nothing is blocked any more, and neither transaction sees the other's output.
RunCompletesUnlessSourceEmpty ==
    (\A n \in FanNodes : size[n] > 0) =>
        <>(run = "done" \/ \A w \in Workers : pc[w] = "gone")

\* ------------------------------------------------------ inductive invariant

TypeOK ==
    /\ size \in [Nodes -> 0 .. MaxSize]
    /\ status \in [Execs -> {"absent", "blocked", "queued", "awaiting_children", "done"}]
    /\ fan \in [Nodes -> FanRows \cup {Nothing}]
    /\ arrived \in [Nodes -> Seq(1 .. MaxSize)]
    /\ result = [n \in Nodes |-> result[n]]
    /\ output \subseteq Nodes
    /\ lock \in [Execs -> Workers \cup {Nothing}]
    /\ counter \in [Nodes -> Workers \cup {Nothing}]
    /\ pc \in [Workers -> {"idle", "claimed", "counted", "recorded", "promoting", "promoted",
                            "checked", "gone"}]
    /\ claim \in [Workers -> Execs \cup {Nothing}]
    /\ draft = [w \in Workers |-> draft[w]]
    /\ \A w \in Workers : draft[w] =
         [joined |-> draft[w].joined, completed |-> draft[w].completed,
          blocked |-> draft[w].blocked, ready |-> draft[w].ready, finished |-> draft[w].finished]

\* A row that has left "blocked" has the outputs its node reads.
RowsHaveInputs ==
    \A e \in Execs : status[e] \notin {"absent", "blocked"} => Deps(e[1]) \subseteq output

DoneChildren(n) == {i \in 1 .. size[n] : status[<<n, i>>] = "done"}

\* Before a node fans out it has no children; afterwards its counter is the number
\* of those that are done, and it is claimed again when all of them are.
Counted(n) ==
    IF fan[n] = Nothing
    THEN /\ \A i \in 1 .. MaxSize : status[<<n, i>>] = "absent"
         /\ status[<<n, 0>>] \in {"blocked", "queued", "done"}
         /\ n \in FanNodes => status[<<n, 0>>] # "done"
         /\ arrived[n] = <<>>
    ELSE /\ n \in FanNodes /\ fan[n].total = size[n]
         /\ \A i \in 1 .. MaxSize :
              status[<<n, i>>] \in IF i <= size[n] THEN {"queued", "done"} ELSE {"absent"}
         /\ status[<<n, 0>>] \in {"awaiting_children", "queued", "done"}
         /\ fan[n].completed = Cardinality(DoneChildren(n))
         /\ DoneChildren(n) = {arrived[n][i] : i \in DOMAIN arrived[n]}
         /\ status[<<n, 0>>] # "awaiting_children" => DoneChildren(n) = 1 .. size[n]

ReadsBlocked(w) == pc[w] \in {"promoting", "promoted", "checked"}

\* What a worker has claimed it has to itself, and what it has read is still so.
Current(w) ==
    /\ pc[w] \in {"idle", "gone"} <=> claim[w] = Nothing
    /\ claim[w] # Nothing => lock[claim[w]] = w /\ status[claim[w]] = "queued"
    /\ pc[w] = "counted" =>
         /\ IsChild(w) /\ counter[Claimed(w)] = w
         /\ draft[w].completed = fan[Claimed(w)].completed + 1
    /\ pc[w] = "recorded" \/ ReadsBlocked(w) =>
         /\ ~ IsChild(w)
         /\ Claimed(w) \in FanNodes =>
              /\ fan[Claimed(w)] # Nothing
              /\ draft[w].joined = [i \in 1 .. size[Claimed(w)] |-> i]
    /\ ReadsBlocked(w) =>
         \A n \in draft[w].blocked :
            n \in Nodes /\ status[<<n, 0>>] = "blocked" /\ lock[<<n, 0>>] = w
    /\ pc[w] \in {"promoted", "checked"} =>
         /\ draft[w].ready \subseteq draft[w].blocked
         /\ \A n \in draft[w].ready : Deps(n) \subseteq output \cup {Claimed(w)}

InductiveInvariant ==
    /\ TypeOK /\ RowsHaveInputs
    /\ \A n \in Nodes : Counted(n)
    /\ \A w \in Workers : Current(w)
===============================================================================
