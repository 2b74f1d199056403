------------------------------ MODULE MCCatalog ------------------------------
(* Small workloads for TLC: capabilities and calls, documents, and races. *)
EXTENDS Catalog, TLC

CONSTANTS r1, r2, r3

SubmissionOf(digest_, functions_) ==
    [digest |-> digest_, wellFormed |-> TRUE, operations |-> {"f", "g"}, functions |-> functions_]

Submission(functions_) == SubmissionOf("d1", functions_)

None == [r \in Registrations |-> Nothing]
Only(s) == [None EXCEPT ![r1] = s]

Cap(descriptor, stateReuse, additive) ==
    [typed |-> TRUE, nesting |-> "none", descriptor |-> descriptor,
     stateReuse |-> stateReuse, additiveWarmUpdate |-> additive]

Light == Cap(<<>>, "none", FALSE)

\* ----------------------------------------------------- capabilities and calls

Entry(p, s, fl, pos) == [param |-> p, style |-> s, flag |-> fl, position |-> pos]
Unflagged == <<"", "">>

Entries ==
    {Entry(p, "flag", <<"--", "file">>, -1) : p \in {"a", "b"}}
      \cup {Entry(p, "positional", Unflagged, i) : p \in {"a", "b"}, i \in {0, 1}}
      \cup {Entry(p, "stdin", Unflagged, -1) : p \in {"a", "b"}}
      \cup {Entry("a", "flag", <<"-", "file">>, -1), Entry("a", "positional", Unflagged, -1),
            Entry("", "stdin", Unflagged, -1), Entry("a", "socket", Unflagged, -1)}

Three(i, j, k) ==
    <<Entry("a", "positional", Unflagged, i), Entry("b", "positional", Unflagged, j),
      Entry("c", "positional", Unflagged, k)>>

Descriptors ==
    {<<>>} \cup {<<e>> : e \in Entries} \cup {<<e, f>> : e, f \in Entries}
      \cup {Three(0, 1, 3), Three(3, 1, 0), Three(1, 3, 0)}

Inputs ==
    {[a |-> k, b |-> l, c |-> "path", odd |-> "absent"] : k, l \in Kinds}
      \cup {[a |-> "path", b |-> "path", c |-> k, odd |-> l] :
              k \in {"absent", "negative"}, l \in {"absent", "path"}}

CallOf(input_, hash_) == [digest |-> "d1", function |-> "f", input |-> input_, hash |-> hash_]

Workload(submissions_, probes_, documents_, calls_) ==
    [submissions |-> submissions_, probes |-> probes_, documents |-> documents_, calls |-> calls_]

Calls ==
    Workload({Only(Submission("f" :> Cap(d, s, FALSE))) :
                d \in Descriptors, s \in {"none", "stateIdKeyed"}},
             {0}, {Nothing}, {CallOf(i, "hash") : i \in Inputs})

\* Capabilities and submissions that are refused for other reasons.
Refused ==
    Workload({Only(Submission("f" :> Cap(<<>>, "none", TRUE))),
              Only(Submission("f" :> [Light EXCEPT !.nesting = "malformed"])),
              Only(Submission("f" :> [Light EXCEPT !.typed = FALSE])),
              Only([Submission("f" :> Light) EXCEPT !.wellFormed = FALSE]),
              Only([Submission("f" :> Light) EXCEPT !.operations = {"g"}])},
             {0}, {Nothing}, {Nothing})

\* ------------------------------------------------------------------ documents

Node(id_, kind_, home_, deps, reads_, yields_) ==
    [id |-> id_, kind |-> kind_, home |-> home_, service |-> "d1", function |-> "f",
     dependsOn |-> deps, reads |-> reads_, yields |-> yields_]

Document(nodes_, outputs_) == [form |-> "json", nodes |-> nodes_, outputs |-> outputs_]

Parts(kind) == CASE kind = "branch" -> {"x", "y"} [] kind = "map" -> {"body"} [] OTHER -> {}

\* Three nodes of any kinds, the second and third anywhere the walk may come next.
Shapes ==
    {<<k, h>> \in [1 .. 3 -> {"step", "branch", "map"}]
                    \X [1 .. 3 -> {Root} \cup ({1, 2} \X {"x", "y", "body"})] :
        /\ h[1] = Root
        /\ h[2] = Root \/ (h[2][1] = 1 /\ h[2][2] \in Parts(k[1]))
        /\ \/ h[3] = Root
           \/ h[3][1] = 2 /\ h[3][2] \in Parts(k[2])
           \/ h[3][1] = 1 /\ h[3][2] \in Parts(k[1]) /\ h[2] # Root}

Names == {<<"s", "t", "u">>, <<"s", "s", "u">>, <<"s", "t", "s">>, <<"s", "t", "t">>}

\* One reference in each: from a node, a case or body, or the outputs.
OneReference(k, h, ids) ==
    LET Of(reads_, yields_, outputs_) ==
          Document([i \in 1 .. 3 |-> Node(ids[i], k[i], h[i], {}, reads_[i], yields_[i])], outputs_)
        none == [i \in 1 .. 3 |-> {}]
        targets == {"s", "t", "u", "v"}
        inside == {<<i, p>> \in (1 .. 3) \X {"x", "y", "body"} : p \in Parts(k[i])}
    IN  {Of([none EXCEPT ![i] = {<<"itemResource", id>>}], none, {}) : i \in 1 .. 3, id \in targets}
          \cup {Of(none, [none EXCEPT ![l[1]] = {<<l[2], <<"compute", id>>>>}], {}) :
                   l \in inside, id \in targets}
          \cup {Of(none, none, {<<"step", id>>}) : id \in targets}

References_ ==
    {Workload({None}, {0}, OneReference(shape[1], shape[2], ids), {Nothing}) :
        shape \in Shapes, ids \in Names}

Forms ==
    Workload({None}, {0}, {[Document(<<>>, {}) EXCEPT !.form = form] :
                form \in {"yaml", "broken yaml", "banned construct", "invalid", "too deep"}},
             {Nothing})

\* Three steps that wait for any of one another, in one way or another.
Plans ==
    Workload({Only(Submission("f" :> Light))}, {0},
             {Document([i \in 1 .. 3 |->
                          Node(<<"s", "t", "u">>[i], "step", Root,
                               IF i = 2 THEN waits[i] ELSE {},
                               IF i = 2 THEN {} ELSE {"compute"} \X waits[i], {})], {}) :
                waits \in [1 .. 3 -> SUBSET {"s", "t", "u"}]},
             {Nothing})

\* ---------------------------------------------------------------------- races

\* Three registrations of one image, while a document that calls both of its
\* functions is compiled, verdicts are recorded and f is called.
Races ==
    Workload({[r \in Registrations |->
                 CASE r = r1 -> Submission("f" :> Light @@ "g" :> Light)
                   [] r = r2 -> Submission("f" :> Light)
                   [] OTHER  -> Submission("g" :> Light)]},
             {2},
             {Document(<<Node("s", "step", Root, {}, {}, {}),
                         [Node("t", "step", Root, {"s"}, {}, {}) EXCEPT !.function = "g"]>>, {})},
             {CallOf([a |-> "path", b |-> "absent", c |-> "absent", odd |-> "absent"], NoHash)})

\* The same of two images: the first is registered twice, with other functions each
\* time, while a document that calls both of its own and the other image's is compiled.
RacesOfTwoImages ==
    Workload({[r \in Registrations |->
                 CASE r = r1 -> SubmissionOf("d1", "f" :> Light @@ "g" :> Light)
                   [] r = r2 -> SubmissionOf("d2", "f" :> Light)
                   [] OTHER  -> SubmissionOf("d1", "g" :> Light)]},
             {1},
             {Document(<<Node("s", "step", Root, {}, {}, {}),
                         [Node("t", "step", Root, {"s"}, {}, {}) EXCEPT !.service = "d2"],
                         [Node("u", "step", Root, {"t"}, {}, {}) EXCEPT !.function = "g"]>>, {})},
             {[CallOf([a |-> "path", b |-> "absent", c |-> "absent", odd |-> "absent"], NoHash)
                 EXCEPT !.digest = "d2"]})

AllWorkloads == {Calls, Refused, Forms, Plans, Races, RacesOfTwoImages} \cup References_
==============================================================================
