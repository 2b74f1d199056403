--------------------------- MODULE WorkflowDocument ---------------------------
(***************************************************************************)
(* Workflow documents and the passes of compile() that read nothing else: *)
(* the walk over nodes and scopes (node-walk.ts), the references a binding *)
(* holds (binding-refs.ts), validateStepReferences, and the dependencies   *)
(* the engine derives from the same references (dependency-graph.ts).      *)
(*                                                                         *)
(* document.nodes lists the nodes in the order walkNodes visits them.  A   *)
(* node is at home in a list: <<0, "root">>, or <<i, part>>, a case or the *)
(* body of the i-th node.  A binding is <<kind, id>>: a step's output,     *)
(* read as it is ("step"), below a compute binding's `using', or as the    *)
(* itemId of an itemResource; or anything else ("other").                  *)
(***************************************************************************)
EXTENDS Naturals, Sequences, FiniteSets

Root == <<0, "root">>

Nodes(document) == DOMAIN document.nodes

BindingKinds == {"step", "compute", "itemResource", "other"}

\* A branch node has a list for each of its cases, a map node one for its body.
HasList(node, part) == node.kind = "branch" \/ (node.kind = "map" /\ part = "body")

\* A document as the walk comes upon it: a list's node before the list's nodes.
IsWalk(document) ==
    /\ Len(document.nodes) \in Nat /\ Nodes(document) = 1 .. Len(document.nodes)
    /\ \A i \in Nodes(document) :
         LET node == document.nodes[i] IN
         /\ \/ node.home = Root
            \/ \E j \in 1 .. i - 1 :
                 node.home = <<j, node.home[2]>> /\ HasList(document.nodes[j], node.home[2])
         /\ \A b \in node.reads : b[1] \in BindingKinds
         /\ \A y \in node.yields : HasList(node, y[1]) /\ y[2][1] \in BindingKinds
    /\ \A b \in document.outputs : b[1] \in BindingKinds

\* collectStepBindingIds of every binding in a set.
StepIds(bindings) ==
    {b[2] : b \in {c \in bindings : c[1] \in {"step", "compute", "itemResource"}}}

\* collectStepReferenceIds of a step; a branch's selector and a map's source are
\* its node's reads, and its dependsOn is empty.
ReferencedIds(node) == node.dependsOn \cup StepIds(node.reads)

\* Mutant: the name of the case is left out.
SegmentsOfNode(node, part) == <<<<node.kind, node.id>>>>

\* What walkNodes appends to the scope of what is in a case or in a body.
Segments(node, part) ==
    IF node.kind = "branch" THEN <<<<"branch", node.id>>, <<"case", part>>>>
    ELSE <<<<"map", node.id>>>>

\* The scope path of the list that each node is in.
Scopes(document) ==
    LET scope[i \in 0 .. Len(document.nodes)] ==
          IF i = 0 THEN <<>>
          ELSE LET home == document.nodes[i].home IN
               scope[home[1]]
                 \o (IF home[1] = 0 THEN <<>> ELSE Segments(document.nodes[home[1]], home[2]))
    IN  scope

\* The scope path of a list.
ScopeOf(document, list) ==
    IF list[1] = 0 THEN <<>>
    ELSE Scopes(document)[list[1]] \o Segments(document.nodes[list[1]], list[2])

\* isVisible: the target's scope is the site's, or encloses it.
IsVisible(targetScope, siteScope) ==
    /\ Len(targetScope) <= Len(siteScope)
    /\ SubSeq(siteScope, 1, Len(targetScope)) = targetScope

\* Every reference, with the list it is made from: a step's, a selector or a
\* source, a case's or a body's yields, and the document's outputs and the
\* fallbacks of its session state.
References(document) ==
    (UNION {{<<document.nodes[i].home, id>> : id \in ReferencedIds(document.nodes[i])} :
              i \in Nodes(document)})
      \cup (UNION {UNION {{<<<<i, y[1]>>, id>> : id \in StepIds({y[2]})} :
                       y \in document.nodes[i].yields} : i \in Nodes(document)})
      \cup {<<Root, id>> : id \in StepIds(document.outputs)}

\* recordId keeps the list an id is first seen in.
FirstHome(document, id) ==
    LET first == CHOOSE i \in Nodes(document) :
          /\ document.nodes[i].id = id
          /\ \A j \in Nodes(document) : document.nodes[j].id = id => i <= j
    IN  document.nodes[first].home

Ids(document) == {document.nodes[i].id : i \in Nodes(document)}

\* validateStepReferences finds no duplicate, no unresolved and no internal id.
ReferencesValid(document) ==
    /\ Cardinality(Ids(document)) = Len(document.nodes)
    /\ \A ref \in References(document) :
         /\ ref[2] \in Ids(document)
         /\ IsVisible(ScopeOf(document, FirstHome(document, ref[2])), ScopeOf(document, ref[1]))

\* parseRestrictedYaml of a string: no syntax error, and no anchor, alias, tag or
\* merge key.  A document that is no string skips it.
Parsed(document) == document.form \notin {"broken yaml", "banned construct"}

\* validate(): the schema finds no error, and does not exhaust the stack.
SchemaValid(document) == document.form \notin {"invalid", "too deep"}

WellFormed(document) == Parsed(document) /\ SchemaValid(document)

\* Mutant: dependsOn alone.
ExplicitDependencies(node) == node.dependsOn

\* computeStepDependencies
Dependencies(node) == ReferencedIds(node)

\* ---------------------------------------------------- reference definitions

\* The lists that each node is inside of.
ListsAround(document) ==
    LET up[i \in 0 .. Len(document.nodes)] ==
          IF i = 0 THEN {Root}
          ELSE {document.nodes[i].home} \cup up[document.nodes[i].home[1]]
    IN  up

\* The lists a list is inside of, itself included.
EnclosingLists(document, list) == {list} \cup ListsAround(document)[list[1]]

AllRead(bindings) == {b[2] : b \in {c \in bindings : c[1] # "other"}}

Reaches(document, list, id) ==
    \E j \in Nodes(document) :
        document.nodes[j].id = id /\ document.nodes[j].home \in EnclosingLists(document, list)

UniqueIds(document) ==
    \A i, j \in Nodes(document) : document.nodes[i].id = document.nodes[j].id => i = j

\* Every id names one node, and whatever is read from a list is a node of that
\* list or of one that encloses it.
Resolvable(document) ==
    /\ UniqueIds(document)
    /\ \A i \in Nodes(document) :
         /\ \A id \in document.nodes[i].dependsOn \cup AllRead(document.nodes[i].reads) :
              Reaches(document, document.nodes[i].home, id)
         /\ \A y \in document.nodes[i].yields :
              \A id \in AllRead({y[2]}) : Reaches(document, <<i, y[1]>>, id)
    /\ \A id \in AllRead(document.outputs) : Reaches(document, Root, id)

Plain(document) == \A i \in Nodes(document) : document.nodes[i].kind = "step"

\* The ids that are complete after so many rounds, when a node is promoted once its
\* dependencies are.
Rounds(document) ==
    LET done[n \in 0 .. Len(document.nodes)] ==
          IF n = 0 THEN {}
          ELSE {document.nodes[i].id : i \in
                  {i \in Nodes(document) : Dependencies(document.nodes[i]) \subseteq done[n - 1]}}
    IN  done

\* As many rounds as there are nodes suffice.
Completed(document) == Rounds(document)[Len(document.nodes)]

\* Some steps each wait for one of them.
Cyclic(document) ==
    \E some \in (SUBSET Nodes(document)) \ {{}} : \A i \in some : \E j \in some :
        document.nodes[j].id \in
            document.nodes[i].dependsOn \cup AllRead(document.nodes[i].reads)
===============================================================================
