------------------------------ MODULE Invocation ------------------------------
(***************************************************************************)
(* What a function's registration promises about its command line, and    *)
(* what becomes of it: registry/validate.ts decides which capability is    *)
(* registered, apps/worker/dispatch.ts renders a step's resolved input by  *)
(* it, and the agent's execrunner turns the request into argv and stdin.   *)
(* Operators only; Catalog uses them in its actions.                       *)
(*                                                                         *)
(* A value is <<param, kind>>: kind is what the checks tell apart, and the *)
(* parameter keeps two values distinct.  A flag is <<prefix, name>>.       *)
(***************************************************************************)
EXTENDS Integers, Sequences, FiniteSets

CONSTANTS
    Params,       \* names a resolved input may have
    FlagNames,    \* the names among them, and others, that a flag may have
    Nothing       \* what is absent

\* "negative" is a number below zero, "object" anything that is neither a string
\* nor a number nor a boolean; "path", "missing" and "relative" are strings without
\* "..": an absolute path the agent can open, one it cannot, and no absolute path.
Kinds == {"absent", "path", "missing", "relative", "dashed", "parent", "empty", "negative",
          "object"}

Value(input, p) == <<p, input[p]>>
Bound(input, p) == input[p] # "absent"

NoHash == "no hash"

\* What a request that was refused is answered with.
Rejected == [error |-> "refused"]

\* ------------------------------------------------------- registry/validate.ts

Styles == {"flag", "positional", "stdin"}

WellFormedFlag(flag) == flag[1] = "--" /\ flag[2] \in FlagNames

ValidEntry(entry) ==
    /\ entry.param \in Params
    /\ entry.style \in Styles
    /\ entry.style = "flag" => WellFormedFlag(entry.flag)
    /\ entry.style = "positional" => entry.position \in Nat

\* Mutant: the count of "stdin" entries is not looked at.
DescriptorWithManyStdins(descriptor) ==
    /\ \A i \in DOMAIN descriptor : ValidEntry(descriptor[i])
    /\ \A i, j \in DOMAIN descriptor : i # j =>
         /\ descriptor[i].param # descriptor[j].param
         /\ descriptor[i].style = "positional" /\ descriptor[j].style = "positional" =>
              descriptor[i].position # descriptor[j].position

ValidDescriptor(descriptor) ==
    /\ \A i \in DOMAIN descriptor : ValidEntry(descriptor[i])
    /\ \A i, j \in DOMAIN descriptor : i # j =>
         LET e == descriptor[i]  f == descriptor[j] IN
         /\ e.param # f.param
         /\ e.style = "positional" /\ f.style = "positional" => e.position # f.position
         /\ ~ (e.style = "stdin" /\ f.style = "stdin")

\* No nesting, or a known transport and targets that are "open" or a list of names.
ValidNesting(nesting) == nesting \in {"none", "declared"}

\* Mutant: a function that reuses state may have positional entries.
CapabilityOfAnyStyle(cap) ==
    /\ cap.typed
    /\ ValidNesting(cap.nesting)
    /\ ValidDescriptor(cap.descriptor)
    /\ cap.stateReuse = "stateIdKeyed" => Len(cap.descriptor) > 0

\* cap.typed: every field that no rule relates to another one has its type.
ValidCapability(cap) ==
    /\ cap.typed
    /\ ValidNesting(cap.nesting)
    /\ ValidDescriptor(cap.descriptor)
    /\ cap.stateReuse \in {"none", "stateIdKeyed"}
    /\ cap.additiveWarmUpdate => cap.stateReuse = "stateIdKeyed"
    /\ cap.stateReuse = "stateIdKeyed" =>
         /\ Len(cap.descriptor) > 0
         /\ \A i \in DOMAIN cap.descriptor : cap.descriptor[i].style # "positional"

\* submission.operations are the operationIds of its openapiSpec.
ValidRegistration(submission) ==
    /\ submission.wellFormed
    /\ \A f \in DOMAIN submission.functions : ValidCapability(submission.functions[f])
    /\ DOMAIN submission.functions \subseteq submission.operations

\* -------------------------------------------------- apps/worker/dispatch.ts

NoHeavyBindings == [descriptor |-> <<>>, stateReuse |-> "none"]

HeavyParams(descriptor) == {descriptor[i].param : i \in DOMAIN descriptor}

LightParams(input, descriptor) ==
    {p \in Params : Bound(input, p)} \ HeavyParams(descriptor)

\* stringifyArgValue and assertSafeArgValue: the text may not begin with "-".
SafeArg(kind) == kind \notin {"dashed", "negative"}

\* Mutant: without the check for a ".." segment.
HeavyPathWithParents(kind) == kind \in {"path", "missing", "relative", "parent"}

\* assertHeavyBindingIsPath: a string, not empty, SafeArg, and no "..".
HeavyPath(kind) == kind \in {"path", "missing", "relative"}

\* The places of the entries whose parameter the input binds.
Present(input, descriptor) == {i \in DOMAIN descriptor : Bound(input, descriptor[i].param)}

Positional(input, descriptor) ==
    {i \in Present(input, descriptor) : descriptor[i].style = "positional"}

\* renderHeavyBindings: data files in the descriptor's order, each at the place of
\* its entry.
DataFiles(input, cap, hash) ==
    LET entry(i) == cap.descriptor[i]
    IN  [i \in Present(input, cap.descriptor) \ Positional(input, cap.descriptor) |->
           [flag |-> IF entry(i).style = "flag" THEN entry(i).flag ELSE <<"", "">>,
            path |-> Value(input, entry(i).param),
            stateId |-> IF cap.stateReuse = "stateIdKeyed" THEN hash ELSE NoHash,
            stdin |-> entry(i).style = "stdin"]]

Before(input, descriptor, i) ==
    {k \in Positional(input, descriptor) : descriptor[k].position < descriptor[i].position}

\* Sorted by positionIndex: an argument's place is the number of those before it.
PositionalArgs(input, descriptor) ==
    [n \in 1 .. Cardinality(Positional(input, descriptor)) |->
        LET i == CHOOSE i \in Positional(input, descriptor) :
                    Cardinality(Before(input, descriptor, i)) = n - 1
        IN  Value(input, descriptor[i].param)]

PositionTwice(input, descriptor) ==
    \E i, j \in Positional(input, descriptor) :
        i # j /\ descriptor[i].position = descriptor[j].position

\* buildInvokeRequest; Rejected stands for the FatalErrors it throws.
InvokeRequest(input, cap, hash) ==
    LET light == LightParams(input, cap.descriptor) IN
    IF /\ \A i \in Present(input, cap.descriptor) : HeavyPath(input[cap.descriptor[i].param])
       /\ ~ PositionTwice(input, cap.descriptor)
       /\ \A p \in light : p \in FlagNames /\ SafeArg(input[p])
    THEN [args |-> {<<p, Value(input, p)>> : p \in light},
          dataFiles |-> DataFiles(input, cap, hash),
          positionalArgs |-> PositionalArgs(input, cap.descriptor)]
    ELSE Rejected

\* --------------------------------------------------------- agent: execrunner

\* assertSafeArgvValue
SafeArgv(value) == value[2] \notin {"dashed", "negative", "parent"}

Streamed(request) == {i \in DOMAIN request.dataFiles : request.dataFiles[i].stdin}
Flagged(request) == DOMAIN request.dataFiles \ Streamed(request)

\* The file the command's stdin is read from: the first data file to be streamed.
StdinFile(request) ==
    IF Streamed(request) = {} THEN Nothing
    ELSE LET first == CHOOSE i \in Streamed(request) : \A j \in Streamed(request) : i <= j
         IN  request.dataFiles[first].path

\* stdinSource: an absolute path, without "..", of a file os.Open can open.
StdinOpens(request) ==
    StdinFile(request) # Nothing => StdinFile(request)[2] = "path"

\* buildArgs: what it refuses in no flag, no data file and no positional argument.
ArgsBuilt(request) ==
    /\ \A arg \in request.args : arg[1] \in FlagNames
    /\ \A i \in Flagged(request) :
         WellFormedFlag(request.dataFiles[i].flag) /\ SafeArgv(request.dataFiles[i].path)
    /\ \A i \in DOMAIN request.positionalArgs : SafeArgv(request.positionalArgs[i])

\* Run answers with status "error" as soon as one of the two refuses.
AgentAccepts(request) == ArgsBuilt(request) /\ StdinOpens(request)

\* The command's flags, each with its value, its positional arguments and its
\* stdin.  args is a Go map: its flags come in any order.
Command(request) ==
    [args |-> request.args,
     files |-> [i \in Flagged(request) |->
                  <<request.dataFiles[i].flag[2], request.dataFiles[i].path>>],
     positional |-> request.positionalArgs,
     stdin |-> StdinFile(request)]
===============================================================================
