------------------------------- MODULE Catalog -------------------------------
(***************************************************************************)
(* The registry with the two that read it while images are registered and *)
(* judged: compile() (dsl-compiler), which validates a document and looks  *)
(* up the services its steps name, and the dispatch of a step by what      *)
(* getPlacementFacts says of its function (apps/worker, agent).            *)
(*                                                                         *)
(* runOnce does not read the facts yet and leaves buildInvokeRequest its   *)
(* default, a capability with no heavy bindings; Dispatch may do either.   *)
(***************************************************************************)
EXTENDS Registry, WorkflowDocument

CONSTANTS
    Unread,   \* what has not been read or made yet
    Workloads
    \* What is asked of the system, each a record of four sets: submissions (by
    \* registration), numbers of probes, documents to compile, calls to
    \* dispatch.  Nothing is what is not asked for

VARIABLES
    document,
    stage,      \* how far compile() has come
    judged,     \* the steps it has looked at
    entries,    \* entriesByDigest: the functions of each digest read so far
    faulty,     \* whether registryErrors is not empty
    call,       \* the call to dispatch: a function and its resolved input
    facts,      \* what getPlacementFacts returned
    request,    \* the InvokeRequest built
    command     \* the command line the agent ran

compiler == <<document, stage, judged, entries, faulty>>
worker == <<call, facts, request, command>>
vars == <<registry, compiler, worker>>

NoEntry == Nothing
NotYet == Unread

IsList(descriptor) == Len(descriptor) \in Nat /\ DOMAIN descriptor = 1 .. Len(descriptor)

\* Every digest a registration, a call or a step of a document names is one of
\* Digests, descriptors are lists, and documents are listed as they are walked.
ASSUME WorkloadsAssumption ==
    /\ Unread # Rejected
    /\ \A w \in Workloads :
        /\ \A s \in w.submissions, r \in Registrations : s[r] # Nothing =>
             /\ s[r].digest \in Digests
             /\ \A f \in DOMAIN s[r].functions : IsList(s[r].functions[f].descriptor)
        /\ \A c \in w.calls \ {Nothing} : c.digest \in Digests
        /\ \A d \in w.documents \ {Nothing} :
             /\ IsWalk(d)
             /\ \A i \in Nodes(d) :
                  d.nodes[i].kind = "step" => d.nodes[i].service \in Digests

\* ---------------------------------------------------------------- compile()

\* collectAllSteps: the nodes that are steps, to be looked at in the walk's order.
Steps == {i \in Nodes(document) : document.nodes[i].kind = "step"}
Left == Steps \ judged
Current == CHOOSE i \in Left : \A j \in Left : i <= j
Service == document.nodes[Current].service
Function == document.nodes[Current].function

\* The stages that read nothing, in one synchronous stretch.
Validate ==
    /\ stage = "start"
    /\ stage' = IF WellFormed(document) /\ ReferencesValid(document) THEN "services" ELSE "refused"
    /\ UNCHANGED <<registry, worker, document, judged, entries, faulty>>

\* getEntry's first statement, for a digest that is not in the cache.
ReadImage ==
    /\ stage = "services" /\ Left # {}
    /\ entries[Service] = Unread
    /\ IF image[Service] = NoImage
       THEN entries' = [entries EXCEPT ![Service] = NoEntry] /\ UNCHANGED stage
       ELSE stage' = "listing" /\ UNCHANGED entries
    /\ UNCHANGED <<registry, worker, document, judged, faulty>>

\* Its second: the function rows, which may be another registration's by now.
ListFunctions ==
    /\ stage = "listing"
    /\ entries' = [entries EXCEPT ![Service] = DOMAIN functions[Service]]
    /\ stage' = "services"
    /\ UNCHANGED <<registry, worker, document, judged, faulty>>

UnknownService ==
    entries[Service] = NoEntry \/ Function \notin entries[Service]

\* Mutant: without the cache, each step reads its entry again.
JudgeStepAndForget ==
    /\ stage = "services" /\ Left # {}
    /\ entries[Service] # Unread
    /\ faulty' = (faulty \/ UnknownService)
    /\ judged' = judged \cup {Current}
    /\ entries' = [entries EXCEPT ![Service] = Unread]
    /\ UNCHANGED <<registry, worker, document, stage>>

JudgeStep ==
    /\ stage = "services" /\ Left # {}
    /\ entries[Service] # Unread
    /\ faulty' = (faulty \/ UnknownService)
    /\ judged' = judged \cup {Current}
    /\ UNCHANGED <<registry, worker, document, stage, entries>>

Answer ==
    /\ stage = "services" /\ Left = {}
    /\ stage' = IF faulty THEN "unknown services" ELSE "accepted"
    /\ UNCHANGED <<registry, worker, document, judged, entries, faulty>>

\* ------------------------------------------------------------- the dispatch

ReadFacts ==
    /\ call # Nothing /\ facts = Unread /\ request = NotYet
    /\ facts' = PlacementFacts(call.digest, call.function)
    /\ UNCHANGED <<registry, compiler, call, request, command>>

Capability == IF facts \in {Unread, Nothing} THEN NoHeavyBindings ELSE facts.capability

Dispatch ==
    /\ call # Nothing /\ request = NotYet
    /\ request' = InvokeRequest(call.input, Capability, call.hash)
    /\ UNCHANGED <<registry, compiler, call, facts, command>>

\* execrunner.Run; a request it does not accept is answered with an error.
Execute ==
    /\ request \notin {NotYet, Rejected} /\ command = NotYet
    /\ command' = IF AgentAccepts(request) THEN Command(request) ELSE Rejected
    /\ UNCHANGED <<registry, compiler, call, facts, request>>

Init ==
    /\ \E w \in Workloads :
         /\ submission \in w.submissions
         /\ probes \in w.probes
         /\ document \in w.documents
         /\ call \in w.calls
    /\ RegistryInit
    /\ stage = IF document = Nothing THEN "unused" ELSE "start"
    /\ judged = {} /\ entries = [d \in Digests |-> Unread] /\ faulty = FALSE
    /\ facts = Unread /\ request = NotYet /\ command = NotYet

Compile == Validate \/ ReadImage \/ ListFunctions \/ JudgeStep \/ Answer
Work == ReadFacts \/ Dispatch \/ Execute

Next ==
    \/ RegistryNext /\ UNCHANGED <<compiler, worker>>
    \/ Compile
    \/ Work

Spec == Init /\ [][Next]_vars

\* -------------------------------------------------------------- properties

\* compile() passes a document on to the registry exactly when every id names one
\* node and every reference reaches a node of its own list or of an enclosing
\* one.  The code compares scope paths of names, the definition follows the tree
\* (semantic-validation.ts:33-36, node-walk.ts:49).
AcceptsExactlyResolvable ==
    stage \notin {"unused", "start"} =>
        (stage # "refused" <=> WellFormed(document) /\ Resolvable(document))

\* What compile() accepted was true of the registry at one instant: the functions
\* a document calls on one image are all of one registration, although images
\* are registered again between its queries (registry-validation.ts:63-70).
AcceptedByOneRegistration ==
    stage = "accepted" =>
        \A d \in {document.nodes[i].service : i \in Steps} :
            \E r \in Registrations :
                /\ pc[r] = "committed" /\ Digest(r) = d
                /\ {document.nodes[i].function : i \in {i \in Steps : document.nodes[i].service = d}}
                     \subseteq DOMAIN Submitted(r)

\* A cycle is all that can strand an accepted document of plain steps: the engine
\* waits for what the compiler has resolved and for nothing else, so promotion
\* reaches every step unless some wait for each other; compile() refuses no
\* cycle (semantic-validation.ts:91-169, dependency-graph.ts:16).
AcceptedSettlesUnlessCyclic ==
    stage = "accepted" /\ Plain(document) =>
        (Completed(document) = Ids(document) <=> ~ Cyclic(document))

\* Every value has the form its place in the command takes, every heavy one that of
\* an absolute path the agent can open.
ProperInput(descriptor) ==
    /\ \A p \in HeavyParams(descriptor) : call.input[p] = "path"
    /\ \A p \in LightParams(call.input, descriptor) :
         p \in FlagNames /\ SafeArg(call.input[p])

\* An entry's value is given to the command once, at its place: after its flag,
\* behind the positional values of lower index, or as its stdin.
Delivered(entry, descriptor) ==
    LET value == Value(call.input, entry.param) IN
    CASE entry.style = "flag" ->
           Cardinality({i \in DOMAIN command.files :
                          command.files[i] = <<entry.flag[2], value>>}) = 1
      [] entry.style = "positional" ->
           \E i \in DOMAIN command.positional :
             /\ command.positional[i] = value
             /\ \A k \in DOMAIN descriptor :
                  descriptor[k].style = "positional" /\ descriptor[k].position < entry.position =>
                    \E j \in 1 .. i - 1 :
                        command.positional[j] = Value(call.input, descriptor[k].param)
      [] OTHER -> command.stdin = value

\* A function that could be registered can be called: if all of its heavy
\* parameters are bound to absolute paths of files the agent can open, the worker
\* builds a request, the agent takes it, and every binding reaches its declared
\* place (validate.ts:90-99 and dispatch.ts:85-91 say which ones used to get lost).
HeavyBindingsDelivered ==
    facts \notin {Unread, Nothing} /\ request # NotYet /\ ProperInput(Capability.descriptor) =>
        /\ request # Rejected
        /\ command # NotYet =>
             /\ command # Rejected
             /\ \A i \in DOMAIN Capability.descriptor :
                  Delivered(Capability.descriptor[i], Capability.descriptor)

\* Whatever the input, the agent turns down only a file it would have to stream and
\* that has no absolute path or cannot be opened, which only the agent can tell: all
\* else it refuses the worker or the registry has refused before (execrunner.go
\* assertSafeArgvValue, constants.ts:11-15).
AgentSecondsTheWorker ==
    command = Rejected =>
        StdinFile(request) # Nothing /\ StdinFile(request)[2] \in {"relative", "missing"}

\* With a content hash at hand, every heavy binding of a function that reuses
\* state by it reaches the agent with that hash (validate.ts:238-256).
StateIdAccompaniesBindings ==
    /\ request \notin {NotYet, Rejected}
    /\ Capability.stateReuse = "stateIdKeyed"
    => \A p \in HeavyParams(Capability.descriptor) :
         Bound(call.input, p) =>
            \E i \in DOMAIN request.dataFiles :
                /\ request.dataFiles[i].path = Value(call.input, p)
                /\ request.dataFiles[i].stateId = call.hash

\* ------------------------------------------------------ inductive invariant

Read(d) == entries[d] \notin {Unread, NoEntry}

\* What was read of an image is what one registration has committed.
EntriesOfOneRegistration ==
    \A d \in Digests : Read(d) =>
        \E r \in Registrations :
            pc[r] = "committed" /\ Digest(r) = d /\ entries[d] = DOMAIN Submitted(r)

\* Without an error so far, each step looked at is in the entry that was read.
JudgedKnown ==
    ~ faulty => \A i \in judged :
        LET node == document.nodes[i]
        IN  Read(node.service) /\ node.function \in entries[node.service]

\* Between getEntry's two reads the image stays registered.
CompilerInvariant ==
    /\ faulty \in BOOLEAN /\ entries = [d \in Digests |-> entries[d]]
    /\ EntriesOfOneRegistration
    /\ stage # "unused" =>
         /\ judged \subseteq Steps /\ Steps \subseteq Nat
         /\ \A i \in Steps : document.nodes[i].service \in Digests
         /\ JudgedKnown
    /\ stage = "listing" =>
         Left # {} /\ entries[Service] = Unread /\ image[Service] # NoImage
    /\ stage = "accepted" => Left = {} /\ ~ faulty

InductiveInvariant == RegistryInvariant /\ CompilerInvariant

\* compile() goes on as long as the document has been found valid.
VerdictInvariant ==
    stage # "unused" =>
        /\ IsWalk(document)
        /\ stage # "start" =>
             (stage # "refused" <=> WellFormed(document) /\ ReferencesValid(document))

Registrable(cap) == ValidCapability(cap) /\ IsList(cap.descriptor)

\* Whatever is written was valid, and so are the facts read of it; the request and
\* the command are those of the facts at hand, which are not read again.
DispatchInvariant ==
    /\ \A r \in Registrations : pc[r] # "unused" =>
         \A f \in DOMAIN Submitted(r) : IsList(Submitted(r)[f].descriptor)
    /\ \A r \in Registrations : Writing(r) \/ pc[r] = "committed" =>
         ValidRegistration(submission[r])
    /\ call # Nothing => call.digest \in Digests
    /\ facts \notin {Unread, Nothing} => Registrable(facts.capability)
    /\ request # NotYet => request = InvokeRequest(call.input, Capability, call.hash)
    /\ command # NotYet =>
         /\ request \notin {NotYet, Rejected}
         /\ command = IF AgentAccepts(request) THEN Command(request) ELSE Rejected
===============================================================================
