----------------------------- MODULE CatalogProofs -----------------------------
(***************************************************************************)
(* The registry under any number of registrations, verdicts and images: an *)
(* entry is of one registration and an image has its last verdict, however *)
(* transactions interleave or roll back; and compile(), which reads while  *)
(* they do, accepts only what was true of the registry at one instant.     *)
(* What is registered can be called: the bindings of a call reach their    *)
(* places in its command.  And of documents of any size, compile() accepts *)
(* exactly those whose references resolve, and the steps of an accepted    *)
(* one are all promoted unless some wait for each other.                   *)
(***************************************************************************)
EXTENDS Catalog, FiniteSetTheorems, SequenceTheorems, TLAPS

\* -------------------------------------------------------------- the registry

\* What the registry's steps leave for a reader to rely on.
RegistryFrame ==
    /\ submission' = submission
    /\ \A r \in Registrations : pc[r] = "committed" => pc'[r] = "committed"
    /\ \A d \in Digests : image[d] # NoImage => image'[d] # NoImage

\* Who holds a lock is writing.
LEMMA Holders ==
    ASSUME RegistryInvariant, NEW d \in Digests, lock[d] # Nobody
    PROVE  /\ lock[d] \in Registrations /\ Digest(lock[d]) = d
           /\ pc[lock[d]] \in {"upserted", "replaced"}
<1>1. lock[d] \in Registrations
  BY DEF RegistryInvariant, RegistryTypeOK
<1>2. Writing(lock[d]) /\ Digest(lock[d]) = d
  BY DEF RegistryInvariant, WritersHoldTheLock
<1>3. QED
  BY <1>1, <1>2 DEF Writing

\* Until it commits, a transaction leaves what is committed as it is.
LEMMA UncommittedKeeps ==
    ASSUME RegistryInvariant, NEW r \in Registrations, pc[r] \notin {"unused", "committed"},
           NEW stage_ \in {"refused", "upserted", "replaced", "rolled back"},
           pc' = [pc EXCEPT ![r] = stage_],
           UNCHANGED <<submission, image, functions, verdicts>>
    PROVE  /\ RowsCommitted' /\ EntryFromOneRegistration' /\ TierIsLastVerdict' /\ RegistryFrame
           /\ \A d \in Digests : LastVerdict(d)' = LastVerdict(d)
           /\ pc'[r] = stage_ /\ Digest(r) \in Digests
           /\ \A q \in Registrations : q # r => pc'[q] = pc[q]
           /\ pc' \in [Registrations -> {"unused", "idle", "refused", "upserted", "replaced",
                                         "committed", "rolled back"}]
<1> USE DEF RegistryInvariant
<1>1. /\ \A q \in Registrations : q # r => pc'[q] = pc[q]
      /\ pc'[r] = stage_ /\ Digest(r) \in Digests
      /\ pc' \in [Registrations -> {"unused", "idle", "refused", "upserted", "replaced",
                                    "committed", "rolled back"}]
  BY DEF RegistryTypeOK, WritersHoldTheLock
<1>2. RowsCommitted'
  <2>1. \A d \in Digests : image[d] # NoImage => image[d].by \in Registrations
    BY DEF RegistryTypeOK, Images
  <2>2. QED
    BY ZenonT(60), <1>1, <2>1 DEF RowsCommitted, Digest
<1>3. EntryFromOneRegistration' /\ TierIsLastVerdict'
  BY DEF EntryFromOneRegistration, TierIsLastVerdict, Submitted, LastVerdict
<1>4. RegistryFrame
  BY <1>1 DEF RegistryFrame
<1>5. QED
  BY <1>1, <1>2, <1>3, <1>4 DEF LastVerdict

\* An invalid submission is refused before anything is read.
LEMMA RefuseKeeps ==
    ASSUME RegistryInvariant, NEW r \in Registrations, Refuse(r)
    PROVE  RegistryInvariant' /\ RegistryFrame
<1> USE DEF RegistryInvariant
<1>1. /\ pc[r] = "idle" /\ pc' = [pc EXCEPT ![r] = "refused"]
      /\ UNCHANGED <<submission, image, functions, lock, draft, verdicts>>
  BY DEF Refuse
<1>2. /\ RowsCommitted' /\ EntryFromOneRegistration' /\ TierIsLastVerdict' /\ RegistryFrame
      /\ \A d \in Digests : LastVerdict(d)' = LastVerdict(d)
      /\ pc'[r] = "refused" /\ Digest(r) \in Digests
      /\ \A q \in Registrations : q # r => pc'[q] = pc[q]
      /\ pc' \in [Registrations -> {"unused", "idle", "refused", "upserted", "replaced",
                                    "committed", "rolled back"}]
  BY <1>1, UncommittedKeeps
<1>3. RegistryTypeOK'
  BY <1>1, <1>2 DEF RegistryTypeOK, Writing
<1>4. WritersHoldTheLock'
  <2>1. \A d \in Digests : lock[d] # Nobody => lock[d] \in Registrations /\ lock[d] # r
    BY <1>1, Holders
  <2>2. QED
    BY ZenonT(60), <1>1, <1>2, <2>1 DEF WritersHoldTheLock, Digest, Writing
<1>5. DraftsCurrent'
  BY <1>1, <1>2 DEF DraftsCurrent, Digest, LastVerdict, Writing
<1>6. QED
  BY <1>2, <1>3, <1>4, <1>5

\* The upsert waits for the row's lock, and sees the tier of whoever held it last.
LEMMA UpsertKeeps ==
    ASSUME RegistryInvariant, NEW r \in Registrations, Upsert(r)
    PROVE  RegistryInvariant' /\ RegistryFrame
<1> USE RegistryAssumption DEF RegistryInvariant
<1> DEFINE d == Digest(r)
           row == [by |-> r, tier |-> TierKept(d)]
<1>1. /\ pc[r] = "idle" /\ pc' = [pc EXCEPT ![r] = "upserted"]
      /\ lock[d] = Nobody /\ lock' = [lock EXCEPT ![d] = r]
      /\ draft' = [draft EXCEPT ![r] = [image |-> row, deleted |-> {}]]
      /\ UNCHANGED <<submission, image, functions, verdicts>>
  BY DEF Upsert
<1>2. /\ RowsCommitted' /\ EntryFromOneRegistration' /\ TierIsLastVerdict' /\ RegistryFrame
      /\ \A e \in Digests : LastVerdict(e)' = LastVerdict(e)
      /\ pc'[r] = "upserted" /\ d \in Digests
      /\ \A q \in Registrations : q # r => pc'[q] = pc[q]
      /\ pc' \in [Registrations -> {"unused", "idle", "refused", "upserted", "replaced",
                                    "committed", "rolled back"}]
  BY <1>1, UncommittedKeeps
<1>3. TierKept(d) = LastVerdict(d) /\ TierKept(d) \in TrustTiers
  <2>1. CASE image[d] = NoImage
    BY <1>2, <2>1 DEF TierKept, DraftsCurrent, LastVerdict
  <2>2. CASE image[d] # NoImage
    BY <1>2, <2>2 DEF TierKept, TierIsLastVerdict, RegistryTypeOK, Images
  <2>3. QED
    BY <2>1, <2>2
<1>4. /\ draft'[r] = [image |-> row, deleted |-> {}] /\ row \in Images
      /\ draft' = [q \in Registrations |-> draft'[q]]
      /\ \A q \in Registrations : q # r => draft'[q] = draft[q]
  BY <1>1, <1>3 DEF RegistryTypeOK, Images
<1>5. RegistryTypeOK'
  <2>1. ASSUME NEW q \in Registrations, Writing(q)'
        PROVE  /\ draft'[q] = [image |-> draft'[q].image, deleted |-> draft'[q].deleted]
               /\ draft'[q].image \in Images
    <3>1. CASE q = r
      <4> HIDE DEF row
      <4>1. draft'[q].image = row /\ draft'[q].deleted = {}
        BY <1>4, <3>1
      <4>2. QED
        BY <1>4, <3>1, <4>1
    <3>2. CASE q # r
      BY <1>2, <1>4, <2>1, <3>2 DEF RegistryTypeOK, Writing
    <3>3. QED
      BY <3>1, <3>2
  <2>2. lock' \in [Digests -> Registrations \cup {Nobody}]
    BY <1>1, <1>2 DEF RegistryTypeOK
  <2>3. QED
    BY <1>1, <1>2, <1>4, <2>1, <2>2 DEF RegistryTypeOK
<1>6. WritersHoldTheLock'
  <2>1. \A e \in Digests : lock'[e] = IF e = d THEN r ELSE lock[e]
    BY <1>1, <1>2 DEF RegistryTypeOK
  <2>2. \A e \in Digests : lock[e] # Nobody => lock[e] \in Registrations /\ lock[e] # r
    BY <1>1, Holders
  <2>3. \A q \in Registrations : Writing(q) => Digest(q) # d
    BY <1>1 DEF WritersHoldTheLock
  <2>4. r # Nobody
    OBVIOUS
  <2>5. \A q \in Registrations : pc'[q] # "unused" => Digest(q)' \in Digests
    BY <1>1, <1>2 DEF WritersHoldTheLock, Digest
  <2>6. ASSUME NEW q \in Registrations, Writing(q)' PROVE lock'[Digest(q)'] = q
    <3>1. CASE q = r
      BY <1>1, <1>2, <2>1, <3>1 DEF Digest
    <3>2. CASE q # r
      <4>1. Writing(q) /\ Digest(q)' = Digest(q) /\ Digest(q)' \in Digests
        BY <1>1, <1>2, <2>5, <2>6, <3>2 DEF Writing, Digest
      <4>2. lock[Digest(q)] = q /\ Digest(q) # d
        BY <2>3, <4>1 DEF WritersHoldTheLock
      <4>3. QED
        BY <2>1, <4>1, <4>2
    <3>3. QED
      BY <3>1, <3>2
  <2>7. ASSUME NEW e \in Digests, lock'[e] # Nobody
        PROVE  Writing(lock[e])' /\ Digest(lock[e])' = e
    <3>1. CASE e = d
      BY <1>1, <1>2, <2>1, <3>1 DEF Digest, Writing
    <3>2. CASE e # d
      <4>1. lock'[e] = lock[e] /\ lock[e] # Nobody
        BY <2>1, <2>7, <3>2
      <4>2. pc'[lock[e]] = pc[lock[e]] /\ Digest(lock[e]) = e
            /\ pc[lock[e]] \in {"upserted", "replaced"}
        BY <1>2, <2>2, <4>1, Holders
      <4>3. QED
        BY <1>1, <4>1, <4>2 DEF Digest, Writing
    <3>3. QED
      BY <3>1, <3>2
  <2>8. QED
    BY <2>5, <2>6, <2>7 DEF WritersHoldTheLock
<1>7. DraftsCurrent'
  <2>1. draft'[r].image = [by |-> r, tier |-> LastVerdict(d)]
    BY <1>3, <1>4
  <2>2. ASSUME NEW q \in Registrations, Writing(q)'
        PROVE  draft'[q].image = [by |-> q, tier |-> LastVerdict(Digest(q))']
    BY <1>1, <1>2, <1>4, <2>1, <2>2 DEF DraftsCurrent, Writing, Digest, LastVerdict
  <2>3. QED
    BY <1>1, <1>2, <1>4, <2>2 DEF DraftsCurrent, Digest
<1>8. QED
  BY <1>2, <1>5, <1>6, <1>7

\* A transaction that ends gives up its lock, and no other loses one.
LEMMA ReleaseKeeps ==
    ASSUME RegistryInvariant, NEW r \in Registrations, Writing(r),
           NEW end \in {"committed", "rolled back"},
           pc' = [pc EXCEPT ![r] = end], lock' = Release(r), submission' = submission
    PROVE  WritersHoldTheLock' /\ lock' \in [Digests -> Registrations \cup {Nobody}]
<1> USE DEF RegistryInvariant
<1>1. /\ \A q \in Registrations : q # r => pc'[q] = pc[q]
      /\ pc'[r] = end /\ ~ Writing(r)' /\ pc[r] # "unused"
  BY DEF RegistryTypeOK, Writing
<1>2. /\ Digest(r) \in Digests /\ lock[Digest(r)] = r
      /\ \A q \in Registrations : Digest(q)' = Digest(q)
  BY <1>1 DEF WritersHoldTheLock, Digest
<1>3. \A e \in Digests : lock'[e] = IF e = Digest(r) THEN Nobody ELSE lock[e]
  BY <1>2 DEF RegistryTypeOK, Release
<1>4. lock' \in [Digests -> Registrations \cup {Nobody}]
  BY <1>2 DEF RegistryTypeOK, Release
<1>5. \A q \in Registrations : pc'[q] # "unused" => Digest(q)' \in Digests
  BY <1>1, <1>2 DEF WritersHoldTheLock
<1>6. ASSUME NEW q \in Registrations, Writing(q)' PROVE lock'[Digest(q)'] = q
  <2>1. q # r /\ Writing(q) /\ Digest(q)' = Digest(q) /\ Digest(q) \in Digests
    BY <1>1, <1>2, <1>5, <1>6 DEF Writing
  <2>2. lock[Digest(q)] = q
    BY <2>1 DEF WritersHoldTheLock
  <2>3. QED
    BY <1>2, <1>3, <2>1, <2>2
<1>7. ASSUME NEW e \in Digests, lock'[e] # Nobody
      PROVE  Writing(lock[e])' /\ Digest(lock[e])' = e
  <2>1. lock'[e] = lock[e] /\ lock[e] # Nobody /\ e # Digest(r)
    BY <1>3, <1>7
  <2>2. /\ lock[e] \in Registrations /\ Digest(lock[e]) = e
        /\ pc[lock[e]] \in {"upserted", "replaced"}
    BY <2>1, Holders
  <2>3. lock[e] # r
    BY <2>1, <2>2
  <2>4. QED
    BY <1>1, <2>1, <2>2, <2>3 DEF Writing, Digest
<1>8. QED
  BY <1>4, <1>5, <1>6, <1>7 DEF WritersHoldTheLock

\* What it deletes is what every other transaction has to leave alone.
LEMMA ReplaceKeeps ==
    ASSUME RegistryInvariant, NEW r \in Registrations, Replace(r)
    PROVE  RegistryInvariant' /\ RegistryFrame
<1> USE DEF RegistryInvariant
<1>1. /\ pc[r] = "upserted" /\ pc' = [pc EXCEPT ![r] = "replaced"]
      /\ draft' = [draft EXCEPT ![r].deleted = DOMAIN functions[Digest(r)]]
      /\ UNCHANGED <<submission, image, functions, lock, verdicts>>
  BY DEF Replace
<1>2. /\ RowsCommitted' /\ EntryFromOneRegistration' /\ TierIsLastVerdict' /\ RegistryFrame
      /\ \A e \in Digests : LastVerdict(e)' = LastVerdict(e)
      /\ pc'[r] = "replaced" /\ Digest(r) \in Digests
      /\ \A q \in Registrations : q # r => pc'[q] = pc[q]
      /\ pc' \in [Registrations -> {"unused", "idle", "refused", "upserted", "replaced",
                                    "committed", "rolled back"}]
  BY <1>1, UncommittedKeeps
<1>3. draft[r] = [image |-> draft[r].image, deleted |-> draft[r].deleted] /\ draft[r].image \in Images
  BY <1>1 DEF RegistryTypeOK, Writing
<1>4. draft = [q \in Registrations |-> draft[q]]
  BY DEF RegistryTypeOK
<1>5. draft'[r] = [draft[r] EXCEPT !.deleted = DOMAIN functions[Digest(r)]]
  BY <1>1, <1>4
<1>6. /\ draft'[r] = [image |-> draft[r].image, deleted |-> DOMAIN functions[Digest(r)]]
      /\ draft'[r].image = draft[r].image
      /\ draft'[r].deleted = DOMAIN functions[Digest(r)]
  <2> DEFINE row == draft[r].image
             old == draft[r].deleted
             new == DOMAIN functions[Digest(r)]
  <2>1. draft[r] = [image |-> row, deleted |-> old] /\ draft'[r] = [draft[r] EXCEPT !.deleted = new]
    BY <1>3, <1>5
  <2> HIDE DEF row, old, new
  <2>2. draft'[r] = [image |-> row, deleted |-> new]
    BY <2>1
  <2>3. draft'[r].image = row /\ draft'[r].deleted = new
    BY <2>2
  <2>4. QED
    BY <2>2, <2>3 DEF row, new
<1>7. /\ draft' = [q \in Registrations |-> draft'[q]]
      /\ \A q \in Registrations : q # r => draft'[q] = draft[q]
  BY <1>1, <1>4
<1>8. RegistryTypeOK'
  <2>1. ASSUME NEW q \in Registrations, Writing(q)'
        PROVE  /\ draft'[q] = [image |-> draft'[q].image, deleted |-> draft'[q].deleted]
               /\ draft'[q].image \in Images
    <3>1. CASE q = r
      BY <1>3, <1>6, <3>1
    <3>2. CASE q # r
      BY <1>2, <1>7, <2>1, <3>2 DEF RegistryTypeOK, Writing
    <3>3. QED
      BY <3>1, <3>2
  <2>2. QED
    BY <1>1, <1>2, <1>7, <2>1 DEF RegistryTypeOK
<1>9. WritersHoldTheLock'
  <2>1. \A q \in Registrations : Writing(q)' <=> Writing(q)
    BY <1>1, <1>2 DEF Writing
  <2>2. \A d \in Digests : lock[d] # Nobody => lock[d] \in Registrations
    BY DEF RegistryTypeOK
  <2>3. \A q \in Registrations : /\ Digest(q)' = Digest(q)
                                 /\ pc'[q] # "unused" => pc[q] # "unused"
    BY <1>1, <1>2 DEF Digest
  <2>4. ASSUME NEW d \in Digests, lock'[d] # Nobody
        PROVE  Writing(lock[d])' /\ Digest(lock[d])' = d
    BY <1>1, <2>1, <2>2, <2>3, <2>4 DEF WritersHoldTheLock
  <2>5. QED
    BY <1>1, <2>1, <2>3, <2>4 DEF WritersHoldTheLock
<1>10. DraftsCurrent'
  <2>1. ASSUME NEW q \in Registrations
        PROVE  /\ Writing(q)' => draft'[q].image = [by |-> q, tier |-> LastVerdict(Digest(q))']
               /\ pc'[q] = "replaced" => draft'[q].deleted = DOMAIN functions'[Digest(q)']
    <3>1. Digest(q)' = Digest(q) /\ LastVerdict(Digest(q))' = LastVerdict(Digest(q))
      BY <1>1 DEF Digest, LastVerdict
    <3>2. CASE q = r
      BY <1>1, <1>6, <3>1, <3>2 DEF DraftsCurrent, Writing
    <3>3. CASE q # r
      BY ZenonT(60), <1>1, <1>2, <1>7, <3>1, <3>3 DEF DraftsCurrent, Writing
    <3>4. QED
      BY <3>2, <3>3
  <2>2. QED
    BY <1>1, <2>1 DEF DraftsCurrent
<1>11. QED
  BY <1>2, <1>8, <1>9, <1>10

\* A rollback leaves nothing but a lock given up.
LEMMA RollBackKeeps ==
    ASSUME RegistryInvariant, NEW r \in Registrations, RollBack(r)
    PROVE  RegistryInvariant' /\ RegistryFrame
<1> USE DEF RegistryInvariant
<1>1. /\ Writing(r) /\ pc[r] \notin {"unused", "committed"}
      /\ pc' = [pc EXCEPT ![r] = "rolled back"]
      /\ lock' = Release(r) /\ draft' = [draft EXCEPT ![r] = Nothing]
      /\ UNCHANGED <<submission, image, functions, verdicts>>
  BY DEF RollBack, Writing
<1>2. /\ RowsCommitted' /\ EntryFromOneRegistration' /\ TierIsLastVerdict' /\ RegistryFrame
      /\ \A e \in Digests : LastVerdict(e)' = LastVerdict(e)
      /\ pc'[r] = "rolled back" /\ Digest(r) \in Digests
      /\ \A q \in Registrations : q # r => pc'[q] = pc[q]
      /\ pc' \in [Registrations -> {"unused", "idle", "refused", "upserted", "replaced",
                                    "committed", "rolled back"}]
  BY <1>1, UncommittedKeeps
<1>3. WritersHoldTheLock' /\ lock' \in [Digests -> Registrations \cup {Nobody}]
  BY <1>1, ReleaseKeeps
<1>4. /\ draft' = [q \in Registrations |-> draft'[q]]
      /\ \A q \in Registrations : q # r => draft'[q] = draft[q]
  BY <1>1 DEF RegistryTypeOK
<1>5. \A q \in Registrations : /\ Writing(q)' => q # r /\ Writing(q)
                               /\ pc'[q] = "replaced" => q # r /\ pc[q] = "replaced"
  BY <1>2 DEF Writing
<1>6. RegistryTypeOK'
  BY <1>1, <1>2, <1>3, <1>4, <1>5 DEF RegistryTypeOK
<1>7. DraftsCurrent'
  BY <1>1, <1>2, <1>4, <1>5 DEF DraftsCurrent, Digest, LastVerdict
<1>8. QED
  BY <1>2, <1>3, <1>6, <1>7

\* What becomes visible at a commit is one registration's row, with the tier its
\* image had, and that registration's functions and no others.
LEMMA CommitKeeps ==
    ASSUME RegistryInvariant, NEW r \in Registrations, Commit(r)
    PROVE  RegistryInvariant' /\ RegistryFrame
<1> USE RegistryAssumption DEF RegistryInvariant
<1> DEFINE d == Digest(r)
<1>1. /\ pc[r] = "replaced" /\ Writing(r) /\ pc' = [pc EXCEPT ![r] = "committed"]
      /\ image' = [image EXCEPT ![d] = draft[r].image]
      /\ functions' = [functions EXCEPT ![d] = Replaced(r)]
      /\ lock' = Release(r) /\ draft' = [draft EXCEPT ![r] = Nothing]
      /\ UNCHANGED <<submission, verdicts>>
  BY DEF Commit, Writing
<1>2. WritersHoldTheLock' /\ lock' \in [Digests -> Registrations \cup {Nobody}]
  BY <1>1, ReleaseKeeps
<1>3. /\ d \in Digests /\ lock[d] = r
      /\ \A q \in Registrations : Digest(q)' = Digest(q) /\ Submitted(q)' = Submitted(q)
      /\ \A q \in Registrations : pc'[q] = IF q = r THEN "committed" ELSE pc[q]
      /\ pc' \in [Registrations -> {"unused", "idle", "refused", "upserted", "replaced",
                                    "committed", "rolled back"}]
  <2>1. pc' \in [Registrations -> {"unused", "idle", "refused", "upserted", "replaced",
                                    "committed", "rolled back"}]
        /\ \A q \in Registrations : pc'[q] = IF q = r THEN "committed" ELSE pc[q]
    BY <1>1 DEF RegistryTypeOK
  <2>2. \A q \in Registrations : Digest(q)' = Digest(q) /\ Submitted(q)' = Submitted(q)
    BY <1>1 DEF Digest, Submitted
  <2>3. d \in Digests /\ lock[d] = r
    BY <1>1 DEF WritersHoldTheLock
  <2>4. QED
    BY <2>1, <2>2, <2>3
<1>4. draft[r].image \in Images /\ draft[r].image # NoImage
  BY <1>1 DEF RegistryTypeOK
<1>5. /\ draft[r].image = [by |-> r, tier |-> LastVerdict(d)]
      /\ draft[r].deleted = DOMAIN functions[d]
  BY <1>1 DEF DraftsCurrent
<1>6. draft[r].image.by = r /\ draft[r].image.tier = LastVerdict(d)
  BY <1>5
<1>7. Replaced(r) = [f \in DOMAIN Submitted(r) |-> r]
  BY <1>5 DEF Replaced
<1>8. /\ \A e \in Digests : image'[e] = IF e = d THEN draft[r].image ELSE image[e]
      /\ image' \in [Digests -> Images \cup {NoImage}]
  BY <1>1, <1>3, <1>4 DEF RegistryTypeOK
<1>9. /\ \A e \in Digests : functions'[e] = IF e = d THEN Replaced(r) ELSE functions[e]
      /\ functions' = [e \in Digests |-> functions'[e]]
  BY <1>1, <1>3 DEF RegistryTypeOK
<1>10. /\ draft' = [q \in Registrations |-> draft'[q]]
       /\ \A q \in Registrations : q # r => draft'[q] = draft[q]
  BY <1>1 DEF RegistryTypeOK
<1>11. ASSUME NEW q \in Registrations, Writing(q)'
       PROVE  q # r /\ Writing(q) /\ Digest(q) # d /\ Digest(q) \in Digests /\ pc'[q] = pc[q]
  <2>1. q # r /\ Writing(q) /\ pc'[q] = pc[q]
    BY <1>3, <1>11 DEF Writing
  <2>2. lock[Digest(q)] = q /\ Digest(q) \in Digests
    BY <2>1 DEF WritersHoldTheLock, Writing
  <2>3. QED
    BY <1>3, <2>1, <2>2
<1>12. RegistryTypeOK'
  BY <1>1, <1>2, <1>3, <1>8, <1>9, <1>10, <1>11 DEF RegistryTypeOK
<1>13. RowsCommitted'
  <2>1. \A e \in Digests : image[e] # NoImage => image[e].by \in Registrations
    BY DEF RegistryTypeOK, Images
  <2>2. ASSUME NEW e \in Digests, image'[e] # NoImage
        PROVE  pc'[image'[e].by] = "committed" /\ Digest(image[e].by)' = e
    <3>1. CASE e = d
      BY <1>3, <1>6, <1>8, <3>1 DEF Digest
    <3>2. CASE e # d
      <4>1. image'[e] = image[e] /\ image[e] # NoImage
        BY <1>8, <2>2, <3>2
      <4>2. pc[image[e].by] = "committed" /\ Digest(image[e].by) = e
        BY <4>1 DEF RowsCommitted
      <4>3. QED
        BY <1>1, <1>3, <2>1, <4>1, <4>2 DEF Digest
    <3>3. QED
      BY <3>1, <3>2
  <2>3. QED
    BY <2>2 DEF RowsCommitted
<1>14. DraftsCurrent'
  <2>1. ASSUME NEW q \in Registrations, Writing(q)'
        PROVE  /\ draft'[q].image = [by |-> q, tier |-> LastVerdict(Digest(q))']
               /\ pc'[q] = "replaced" => draft'[q].deleted = DOMAIN functions'[Digest(q)']
    <3>1. q # r /\ Writing(q) /\ Digest(q) # d /\ Digest(q) \in Digests /\ pc'[q] = pc[q]
      BY <1>11, <2>1
    <3>2. LastVerdict(Digest(q))' = LastVerdict(Digest(q)) /\ Digest(q)' = Digest(q)
      BY <1>1 DEF LastVerdict, Digest
    <3>3. QED
      BY <1>9, <1>10, <3>1, <3>2 DEF DraftsCurrent
  <2>2. \A e \in Digests : image'[e] = NoImage => verdicts'[e] = <<>>
    BY <1>1, <1>4, <1>8 DEF DraftsCurrent
  <2>3. QED
    BY <2>1, <2>2 DEF DraftsCurrent, Writing
<1>15. EntryFromOneRegistration'
  <2>1. ASSUME NEW e \in Digests, image'[e] # NoImage
        PROVE  /\ DOMAIN functions'[e] = DOMAIN Submitted(image[e].by)'
               /\ \A f \in DOMAIN functions'[e] : functions'[e][f] = image'[e].by
    <3>1. CASE e = d
      BY <1>1, <1>3, <1>6, <1>7, <1>8, <1>9, <3>1 DEF Submitted
    <3>2. CASE e # d
      BY <1>1, <1>8, <1>9, <2>1, <3>2 DEF EntryFromOneRegistration, Submitted
    <3>3. QED
      BY <3>1, <3>2
  <2>2. QED
    BY <2>1 DEF EntryFromOneRegistration
<1>16. TierIsLastVerdict'
  BY <1>1, <1>6, <1>8 DEF TierIsLastVerdict, LastVerdict
<1>17. RegistryFrame
  BY <1>1, <1>3, <1>4, <1>8 DEF RegistryFrame
<1>18. QED
  BY <1>2, <1>12, <1>13, <1>14, <1>15, <1>16, <1>17

\* A verdict waits for the row's lock, so no transaction carries the older tier.
LEMMA RecordTrustTierKeeps ==
    ASSUME RegistryInvariant, NEW d \in Digests, NEW tier \in TrustTiers,
           RecordTrustTier(d, tier)
    PROVE  RegistryInvariant' /\ RegistryFrame
<1> USE RegistryAssumption DEF RegistryInvariant
<1>1. /\ image[d] # NoImage /\ lock[d] = Nobody
      /\ image' = [image EXCEPT ![d].tier = tier]
      /\ verdicts' = [verdicts EXCEPT ![d] = Append(@, tier)]
      /\ UNCHANGED <<submission, functions, lock, pc, draft>>
  BY DEF RecordTrustTier
<1>2. /\ verdicts' \in [Digests -> Seq(TrustTiers)]
      /\ verdicts'[d] = Append(verdicts[d], tier)
      /\ \A e \in Digests : e # d => verdicts'[e] = verdicts[e]
  <2> DEFINE longer == Append(verdicts[d], tier)
  <2>1. verdicts \in [Digests -> Seq(TrustTiers)]
    BY DEF RegistryTypeOK
  <2>2. longer \in Seq(TrustTiers) /\ verdicts' = [verdicts EXCEPT ![d] = longer]
    BY <1>1, <2>1
  <2> HIDE DEF longer
  <2>3. /\ verdicts' \in [Digests -> Seq(TrustTiers)] /\ verdicts'[d] = longer
        /\ \A e \in Digests : e # d => verdicts'[e] = verdicts[e]
    BY <2>1, <2>2
  <2>4. QED
    BY <2>3 DEF longer
<1>3. LastVerdict(d)' = tier
  <2>1. verdicts[d] \in Seq(TrustTiers)
    BY DEF RegistryTypeOK
  <2>2. Append(verdicts[d], tier) # <<>>
        /\ Append(verdicts[d], tier)[Len(Append(verdicts[d], tier))] = tier
    BY <2>1
  <2>3. QED
    BY <1>2, <2>2 DEF LastVerdict
<1>4. \A e \in Digests : e # d => LastVerdict(e)' = LastVerdict(e)
  BY <1>2 DEF LastVerdict
<1>5. image[d] \in Images /\ image \in [Digests -> Images \cup {NoImage}]
  BY <1>1 DEF RegistryTypeOK
<1>6. image'[d] = [image[d] EXCEPT !.tier = tier]
      /\ \A e \in Digests : e # d => image'[e] = image[e]
  BY <1>1, <1>5
<1>7. image'[d] \in Images /\ image'[d].by = image[d].by /\ image'[d].tier = tier
  BY <1>5, <1>6 DEF Images
<1>8. image' \in [Digests -> Images \cup {NoImage}]
  <2> HIDE DEF Images
  <2>1. image' = [e \in Digests |-> image'[e]]
    BY <1>1, <1>5
  <2>2. \A e \in Digests : image'[e] \in Images \cup {NoImage}
    BY <1>5, <1>6, <1>7
  <2>3. QED
    BY <2>1, <2>2
<1>9. \A q \in Registrations : Writing(q) => Digest(q) # d /\ Digest(q) \in Digests
  BY <1>1 DEF WritersHoldTheLock, Writing
<1>10. RegistryTypeOK'
  BY <1>1, <1>2, <1>8 DEF RegistryTypeOK, Writing
<1>11. WritersHoldTheLock'
  BY <1>1 DEF WritersHoldTheLock, Writing, Digest
<1>12. \A e \in Digests : image'[e] # NoImage => image[e] # NoImage /\ image'[e].by = image[e].by
  BY <1>1, <1>6, <1>7
<1>13. RowsCommitted'
  BY <1>1, <1>12 DEF RowsCommitted, Digest
<1>14. DraftsCurrent'
  <2>1. ASSUME NEW q \in Registrations, Writing(q)'
        PROVE  /\ draft'[q].image = [by |-> q, tier |-> LastVerdict(Digest(q))']
               /\ pc'[q] = "replaced" => draft'[q].deleted = DOMAIN functions'[Digest(q)']
    <3>1. Writing(q) /\ Digest(q) # d /\ Digest(q) \in Digests /\ Digest(q)' = Digest(q)
      BY <1>1, <1>9, <2>1 DEF Writing, Digest
    <3>2. LastVerdict(Digest(q))' = LastVerdict(Digest(q))
      BY <1>1, <1>2, <3>1 DEF LastVerdict, Digest
    <3>3. QED
      BY <1>1, <3>1, <3>2 DEF DraftsCurrent
  <2>2. \A e \in Digests : image'[e] = NoImage => verdicts'[e] = <<>>
    BY <1>2, <1>6, <1>7 DEF DraftsCurrent
  <2>3. QED
    BY <2>1, <2>2 DEF DraftsCurrent, Writing
<1>15. EntryFromOneRegistration'
  BY <1>1, <1>12 DEF EntryFromOneRegistration, Submitted
<1>16. TierIsLastVerdict'
  BY <1>3, <1>4, <1>6, <1>7 DEF TierIsLastVerdict
<1>17. RegistryFrame
  BY <1>1, <1>6, <1>7 DEF RegistryFrame
<1>18. QED
  BY <1>10, <1>11, <1>13, <1>14, <1>15, <1>16, <1>17

\* Whatever the registry does.
LEMMA RegistryKeeps ==
    ASSUME RegistryInvariant, RegistryNext
    PROVE  RegistryInvariant' /\ RegistryFrame
<1>1. ASSUME NEW r \in Registrations, Register(r)
      PROVE  RegistryInvariant' /\ RegistryFrame
  BY <1>1, RefuseKeeps, UpsertKeeps, ReplaceKeeps, CommitKeeps, RollBackKeeps DEF Register
<1>2. QED
  BY <1>1, RecordTrustTierKeeps DEF RegistryNext

\* Whatever the others do.
LEMMA RegistryUnchanged ==
    ASSUME RegistryInvariant, UNCHANGED registry
    PROVE  RegistryInvariant' /\ RegistryFrame
<1>1. UNCHANGED <<submission, image, functions, lock, pc, draft, verdicts>>
  BY DEF registry
<1>2. RegistryTypeOK' /\ WritersHoldTheLock'
  BY <1>1 DEF RegistryInvariant, RegistryTypeOK, WritersHoldTheLock, Writing, Digest
<1>3. RowsCommitted' /\ DraftsCurrent'
  BY <1>1 DEF RegistryInvariant, RowsCommitted, DraftsCurrent, Writing, Digest, LastVerdict
<1>4. EntryFromOneRegistration' /\ TierIsLastVerdict'
  BY <1>1 DEF RegistryInvariant, EntryFromOneRegistration, TierIsLastVerdict, Submitted, LastVerdict
<1>5. RegistryFrame
  BY <1>1 DEF RegistryFrame
<1>6. QED
  BY <1>2, <1>3, <1>4, <1>5 DEF RegistryInvariant

\* --------------------------------------------------------------- the compiler

\* A set of naturals has a least element: the intervals below its members are
\* finite, and inclusion of finite sets is well-founded.
LEMMA Least ==
    ASSUME NEW S \in SUBSET Nat, S # {}
    PROVE  \E i \in S : \A j \in S : i <= j
<1> DEFINE R == {ss \in (SUBSET Nat) \X (SUBSET Nat) : ss[1] \subseteq ss[2] /\ ss[1] # ss[2]}
           T == {1 .. i : i \in S}
<1>1. IsWellFoundedOn(R, FiniteSubsetsOf(Nat))
  BY FS_StrictSubsetOrderingWellFounded DEF StrictSubsetOrdering
<1>2. T \subseteq FiniteSubsetsOf(Nat) /\ T # {}
  <2>1. \A i \in S : 1 .. i \subseteq Nat /\ IsFiniteSet(1 .. i)
    BY FS_Interval
  <2>2. QED
    BY <2>1 DEF FiniteSubsetsOf
<1> HIDE DEF R, T
<1>3. PICK x \in T : \A y \in T : ~ (<<y, x>> \in R)
  BY <1>1, <1>2, WFMin
<1>4. PICK i \in S : x = 1 .. i
  BY DEF T
<1>5. ASSUME NEW j \in S PROVE i <= j
  <2> SUFFICES ASSUME j < i PROVE FALSE
    OBVIOUS
  <2>1. 1 .. j \in T /\ i \in 1 .. i /\ i \notin 1 .. j
    BY DEF T
  <2>2. 1 .. j \subseteq 1 .. i
    OBVIOUS
  <2>3. <<1 .. j, 1 .. i>> \in R
    BY <2>1, <2>2 DEF R
  <2>4. QED
    BY <1>3, <1>4, <2>1, <2>3
<1>6. QED
  BY <1>5

\* The step compile() is looking at is one it has not looked at.
LEMMA CurrentLeft ==
    ASSUME CompilerInvariant, stage # "unused", Left # {}
    PROVE  Current \in Left /\ Current \in Steps /\ Service \in Digests
<1>1. Left \in SUBSET Nat /\ Left \subseteq Steps
  BY DEF CompilerInvariant, Left
<1>2. \E i \in Left : \A j \in Left : i <= j
  BY <1>1, Least
<1>3. Current \in Left
  BY <1>2 DEF Current
<1>4. QED
  BY <1>1, <1>3 DEF CompilerInvariant, Service

\* What compile() has read stays true whatever the registry does, for nothing
\* committed is taken back.
LEMMA CompilerUndisturbed ==
    ASSUME CompilerInvariant, RegistryFrame, UNCHANGED compiler
    PROVE  CompilerInvariant'
<1>1. UNCHANGED <<document, stage, judged, entries, faulty>>
  BY DEF compiler
<1>2. /\ Steps' = Steps /\ Left' = Left /\ Current' = Current /\ Service' = Service
      /\ \A d : Read(d)' = Read(d)
      /\ \A r : Digest(r)' = Digest(r) /\ Submitted(r)' = Submitted(r)
  BY <1>1 DEF Steps, Left, Current, Service, Read, RegistryFrame, Digest, Submitted
<1>3. EntriesOfOneRegistration'
  BY <1>1, <1>2 DEF CompilerInvariant, EntriesOfOneRegistration, RegistryFrame
<1>4. JudgedKnown' <=> JudgedKnown
  BY <1>1, <1>2 DEF JudgedKnown
<1>5. stage' = "listing" => image'[Service'] # NoImage
  <2> SUFFICES ASSUME stage = "listing" PROVE image'[Service] # NoImage
    BY <1>1, <1>2
  <2>1. Service \in Digests
    BY CurrentLeft DEF CompilerInvariant
  <2>2. QED
    BY <2>1 DEF CompilerInvariant, RegistryFrame
<1>6. QED
  BY <1>1, <1>2, <1>3, <1>4, <1>5 DEF CompilerInvariant

\* The stages before the registry is asked.
LEMMA ValidateKeeps ==
    ASSUME CompilerInvariant, Validate
    PROVE  CompilerInvariant'
<1>1. /\ stage = "start" /\ stage' \in {"services", "refused"}
      /\ UNCHANGED <<registry, document, judged, entries, faulty>>
  BY DEF Validate
<1>2. /\ Steps' = Steps /\ \A d : Read(d)' = Read(d)
      /\ \A r : Digest(r)' = Digest(r) /\ Submitted(r)' = Submitted(r)
  BY <1>1 DEF Steps, Read, registry, Digest, Submitted
<1>3. EntriesOfOneRegistration' /\ (JudgedKnown' <=> JudgedKnown)
  BY <1>1, <1>2 DEF CompilerInvariant, EntriesOfOneRegistration, JudgedKnown, registry
<1>4. QED
  BY <1>1, <1>2, <1>3 DEF CompilerInvariant

\* getEntry's first read: an image that is there has been committed.
LEMMA ReadImageKeeps ==
    ASSUME CompilerInvariant, ReadImage
    PROVE  CompilerInvariant'
<1>1. /\ stage = "services" /\ Left # {} /\ entries[Service] = Unread
      /\ UNCHANGED <<registry, document, judged, faulty>>
  BY DEF ReadImage
<1>2. Current \in Left /\ Service \in Digests
  BY <1>1, CurrentLeft
<1>3. /\ Steps' = Steps /\ Left' = Left /\ Current' = Current /\ Service' = Service
      /\ \A r : Digest(r)' = Digest(r) /\ Submitted(r)' = Submitted(r)
  BY <1>1 DEF Steps, Left, Current, Service, registry, Digest, Submitted
<1>4. CASE image[Service] = NoImage
  <2>1. entries' = [entries EXCEPT ![Service] = NoEntry] /\ stage' = stage
    BY <1>4 DEF ReadImage
  <2>2. /\ entries = [d \in Digests |-> entries[d]] /\ entries' = [d \in Digests |-> entries'[d]]
        /\ entries'[Service] = NoEntry
        /\ \A d \in Digests : d # Service => entries'[d] = entries[d]
    BY <1>2, <2>1 DEF CompilerInvariant
  <2>3. \A d \in Digests : /\ Read(d)' <=> Read(d)
                           /\ Read(d) => entries'[d] = entries[d]
    BY <1>1, <2>2 DEF Read
  <2>4. EntriesOfOneRegistration'
    BY <1>1, <1>3, <2>3 DEF CompilerInvariant, EntriesOfOneRegistration, registry
  <2>5. JudgedKnown'
    <3> SUFFICES ASSUME ~ faulty', NEW i \in judged'
                 PROVE  /\ Read(document.nodes[i].service)'
                        /\ document'.nodes[i].function \in entries'[document'.nodes[i].service]
      BY DEF JudgedKnown
    <3>1. document.nodes[i].service \in Digests
      BY <1>1 DEF CompilerInvariant
    <3>2. Read(document.nodes[i].service)
          /\ document.nodes[i].function \in entries[document.nodes[i].service]
      BY <1>1 DEF CompilerInvariant, JudgedKnown
    <3>3. QED
      BY <1>1, <2>3, <3>1, <3>2 DEF Read
  <2>6. QED
    BY <1>1, <1>3, <2>1, <2>2, <2>4, <2>5 DEF CompilerInvariant
<1>5. CASE image[Service] # NoImage
  <2>1. stage' = "listing" /\ entries' = entries
    BY <1>5 DEF ReadImage
  <2>2. EntriesOfOneRegistration' /\ (JudgedKnown' <=> JudgedKnown)
    BY <1>1, <1>3, <2>1
       DEF CompilerInvariant, EntriesOfOneRegistration, JudgedKnown, registry, Read
  <2>3. image'[Service'] # NoImage
    BY <1>1, <1>3, <1>5 DEF registry
  <2>4. QED
    BY <1>1, <1>3, <2>1, <2>2, <2>3 DEF CompilerInvariant
<1>6. QED
  BY <1>4, <1>5

\* Its second: all of the rows are of the registration the image is from now.
LEMMA ListFunctionsKeeps ==
    ASSUME InductiveInvariant, ListFunctions
    PROVE  CompilerInvariant'
<1>1. /\ stage = "listing" /\ stage' = "services"
      /\ entries' = [entries EXCEPT ![Service] = DOMAIN functions[Service]]
      /\ UNCHANGED <<registry, document, judged, faulty>> /\ CompilerInvariant
  BY DEF ListFunctions, InductiveInvariant
<1>2. Left # {} /\ entries[Service] = Unread /\ image[Service] # NoImage
  BY <1>1 DEF CompilerInvariant
<1>3. Service \in Digests
  BY <1>1, <1>2, CurrentLeft
<1>4. /\ Steps' = Steps
      /\ \A r : Digest(r)' = Digest(r) /\ Submitted(r)' = Submitted(r)
  BY <1>1 DEF Steps, registry, Digest, Submitted
<1>5. /\ entries = [d \in Digests |-> entries[d]] /\ entries' = [d \in Digests |-> entries'[d]]
      /\ entries'[Service] = DOMAIN functions[Service]
      /\ \A d \in Digests : d # Service => entries'[d] = entries[d]
  BY <1>1, <1>3 DEF CompilerInvariant
<1>6. PICK r \in Registrations : pc[r] = "committed" /\ Digest(r) = Service
                                 /\ DOMAIN functions[Service] = DOMAIN Submitted(r)
  <2>1. image[Service].by \in Registrations
    BY <1>2, <1>3 DEF InductiveInvariant, RegistryInvariant, RegistryTypeOK, Images
  <2>2. pc[image[Service].by] = "committed" /\ Digest(image[Service].by) = Service
    BY <1>2, <1>3 DEF InductiveInvariant, RegistryInvariant, RowsCommitted
  <2>3. DOMAIN functions[Service] = DOMAIN Submitted(image[Service].by)
    BY <1>2, <1>3 DEF InductiveInvariant, RegistryInvariant, EntryFromOneRegistration
  <2>4. QED
    BY <2>1, <2>2, <2>3
<1>7. EntriesOfOneRegistration'
  <2> SUFFICES ASSUME NEW d \in Digests, Read(d)'
               PROVE  \E q \in Registrations :
                         pc'[q] = "committed" /\ Digest(q)' = d
                         /\ entries'[d] = DOMAIN Submitted(q)'
    BY DEF EntriesOfOneRegistration
  <2>1. CASE d = Service
    <3>1. pc'[r] = "committed" /\ Digest(r)' = d /\ entries'[d] = DOMAIN Submitted(r)'
      BY <1>1, <1>4, <1>5, <1>6, <2>1 DEF registry
    <3>2. QED
      BY <3>1
  <2>2. CASE d # Service
    <3>1. Read(d) /\ entries'[d] = entries[d]
      BY <1>5, <2>2 DEF Read
    <3>2. PICK q \in Registrations : pc[q] = "committed" /\ Digest(q) = d
                                     /\ entries[d] = DOMAIN Submitted(q)
      BY <1>1, <3>1 DEF CompilerInvariant, EntriesOfOneRegistration
    <3>3. pc'[q] = "committed" /\ Digest(q)' = d /\ entries'[d] = DOMAIN Submitted(q)'
      BY <1>1, <1>4, <3>1, <3>2 DEF registry
    <3>4. QED
      BY <3>3
  <2>3. QED
    BY <2>1, <2>2
<1>8. JudgedKnown'
  <2> SUFFICES ASSUME ~ faulty', NEW i \in judged'
               PROVE  /\ Read(document.nodes[i].service)'
                      /\ document'.nodes[i].function \in entries'[document'.nodes[i].service]
    BY DEF JudgedKnown
  <2>1. document.nodes[i].service \in Digests
    BY <1>1 DEF CompilerInvariant
  <2>2. Read(document.nodes[i].service)
        /\ document.nodes[i].function \in entries[document.nodes[i].service]
    BY <1>1 DEF CompilerInvariant, JudgedKnown
  <2>3. document.nodes[i].service # Service
    BY <1>2, <2>2 DEF Read
  <2>4. QED
    BY <1>1, <1>5, <2>1, <2>2, <2>3 DEF Read
<1>9. QED
  BY <1>1, <1>4, <1>5, <1>7, <1>8 DEF CompilerInvariant

\* A step is judged by the entry that was read, and the entry is kept.
LEMMA JudgeStepKeeps ==
    ASSUME CompilerInvariant, JudgeStep
    PROVE  CompilerInvariant'
<1>1. /\ stage = "services" /\ stage' = stage /\ Left # {} /\ entries[Service] # Unread
      /\ faulty' = (faulty \/ UnknownService)
      /\ judged' = judged \cup {Current}
      /\ UNCHANGED <<registry, document, entries>>
  BY DEF JudgeStep
<1>2. Current \in Steps
  BY <1>1, CurrentLeft
<1>3. /\ Steps' = Steps /\ \A d : Read(d)' = Read(d)
      /\ \A r : Digest(r)' = Digest(r) /\ Submitted(r)' = Submitted(r)
  BY <1>1 DEF Steps, Read, registry, Digest, Submitted
<1>4. EntriesOfOneRegistration'
  BY <1>1, <1>3 DEF CompilerInvariant, EntriesOfOneRegistration, registry
<1>5. JudgedKnown'
  <2> SUFFICES ASSUME ~ faulty', NEW i \in judged'
               PROVE  /\ Read(document.nodes[i].service)'
                      /\ document'.nodes[i].function \in entries'[document'.nodes[i].service]
    BY DEF JudgedKnown
  <2>1. ~ faulty /\ ~ UnknownService
    BY <1>1
  <2>2. CASE i \in judged
    BY <1>1, <1>3, <2>1, <2>2 DEF CompilerInvariant, JudgedKnown
  <2>3. CASE i = Current
    BY <1>1, <1>3, <2>1, <2>3 DEF UnknownService, Read, Service, Function
  <2>4. QED
    BY <1>1, <2>2, <2>3
<1>6. faulty' \in BOOLEAN
  BY <1>1 DEF CompilerInvariant, UnknownService
<1>7. QED
  BY <1>1, <1>2, <1>3, <1>4, <1>5, <1>6 DEF CompilerInvariant

\* The document is accepted when there is no step left and no error.
LEMMA AnswerKeeps ==
    ASSUME CompilerInvariant, Answer
    PROVE  CompilerInvariant'
<1>1. /\ stage = "services" /\ Left = {}
      /\ stage' = IF faulty THEN "unknown services" ELSE "accepted"
      /\ UNCHANGED <<registry, document, judged, entries, faulty>>
  BY DEF Answer
<1>2. /\ Steps' = Steps /\ Left' = Left /\ \A d : Read(d)' = Read(d)
      /\ \A r : Digest(r)' = Digest(r) /\ Submitted(r)' = Submitted(r)
  BY <1>1 DEF Steps, Left, Read, registry, Digest, Submitted
<1>3. EntriesOfOneRegistration' /\ (JudgedKnown' <=> JudgedKnown)
  BY <1>1, <1>2 DEF CompilerInvariant, EntriesOfOneRegistration, JudgedKnown, registry
<1>4. QED
  BY <1>1, <1>2, <1>3 DEF CompilerInvariant

\* --------------------------------------------------------------- the dispatch

\* Bindings at different positions are ranked from 0 up, without gaps.
LEMMA Ranks ==
    ASSUME NEW input, NEW descriptor, IsList(descriptor), ~ PositionTwice(input, descriptor),
           \A i \in Positional(input, descriptor) : descriptor[i].position \in Nat
    PROVE  LET P == Positional(input, descriptor)
               rank(i) == Cardinality(Before(input, descriptor, i)) IN
           /\ Cardinality(P) \in Nat
           /\ \A i \in P : rank(i) + 1 \in 1 .. Cardinality(P)
           /\ \A i, k \in P : descriptor[k].position < descriptor[i].position => rank(k) < rank(i)
           /\ \A i, k \in P : rank(k) = rank(i) => i = k
           /\ \A n \in 1 .. Cardinality(P) : \E i \in P : rank(i) = n - 1
<1> DEFINE P == Positional(input, descriptor)
           B(i) == Before(input, descriptor, i)
           rank(i) == Cardinality(B(i))
           n == Cardinality(P)
<1>1. IsFiniteSet(P) /\ n \in Nat
  <2>1. P \subseteq 1 .. Len(descriptor)
    BY DEF Positional, Present, IsList
  <2>2. IsFiniteSet(1 .. Len(descriptor))
    BY FS_Interval DEF IsList
  <2>3. QED
    BY <2>1, <2>2, FS_Subset, FS_CardinalityType
<1>2. ASSUME NEW i \in P PROVE B(i) \subseteq P /\ i \notin B(i)
  BY <1>2 DEF Before
<1>3. ASSUME NEW i \in P PROVE IsFiniteSet(B(i)) /\ rank(i) \in Nat /\ rank(i) < n
  <2>1. B(i) \in SUBSET P /\ B(i) # P
    BY <1>2
  <2> HIDE DEF P, B
  <2>2. /\ IsFiniteSet(B(i)) /\ Cardinality(B(i)) <= Cardinality(P)
        /\ Cardinality(P) # Cardinality(B(i))
    BY <1>1, <2>1, FS_Subset
  <2>3. Cardinality(B(i)) \in Nat
    BY <2>2, FS_CardinalityType
  <2>4. QED
    BY <1>1, <2>2, <2>3
<1>4. ASSUME NEW i \in P, NEW k \in P, descriptor[k].position < descriptor[i].position
      PROVE  rank(k) < rank(i)
  <2>1. B(k) \subseteq B(i) /\ k \in B(i) /\ k \notin B(k)
    BY <1>4 DEF Before
  <2>2. IsFiniteSet(B(i)) /\ rank(i) \in Nat /\ rank(k) \in Nat
    BY <1>3
  <2> HIDE DEF P, B
  <2>3. B(k) \in SUBSET B(i) /\ B(k) # B(i)
    BY <2>1
  <2>4. Cardinality(B(k)) <= Cardinality(B(i)) /\ Cardinality(B(i)) # Cardinality(B(k))
    BY <2>2, <2>3, FS_Subset
  <2>5. QED
    BY <2>2, <2>4
<1>5. ASSUME NEW i \in P, NEW k \in P, rank(k) = rank(i) PROVE i = k
  <2> SUFFICES ASSUME i # k PROVE FALSE
    OBVIOUS
  <2>1. descriptor[i].position # descriptor[k].position
    BY DEF PositionTwice
  <2>2. descriptor[i].position < descriptor[k].position \/ descriptor[k].position < descriptor[i].position
    BY <2>1
  <2>3. rank(i) < rank(k) \/ rank(k) < rank(i)
    BY <1>4, <2>2
  <2>4. QED
    BY <1>3, <1>5, <2>3
<1>6. \A m \in 1 .. n : \E i \in P : rank(i) = m - 1
  <2> DEFINE f == [i \in P |-> rank(i) + 1]
  <2>1. f \in Injection(P, 1 .. n)
    <3> HIDE DEF P, B
    <3>1. \A i \in P : f[i] \in 1 .. n
      BY <1>1, <1>3
    <3>2. \A i, k \in P : f[i] = f[k] => i = k
      BY <1>3, <1>5
    <3>3. QED
      BY <3>1, <3>2 DEF Injection, IsInjective
  <2>2. IsFiniteSet(1 .. n) /\ Cardinality(1 .. n) = n
    BY <1>1, FS_Interval
  <2> HIDE DEF P, B
  <2>3. f \in Surjection(P, 1 .. n)
    BY <2>1, <2>2, FS_Injection
  <2>4. \A m \in 1 .. n : \E i \in P : f[i] = m
    BY <2>3 DEF Surjection
  <2>5. QED
    BY <1>1, <1>3, <2>4
<1>7. \A i \in P : rank(i) + 1 \in 1 .. n
  <2> HIDE DEF P, B
  <2>1. QED
    BY <1>1, <1>3
<1>8. QED
  BY <1>1, <1>4, <1>5, <1>6, <1>7

\* The positional arguments are the bound positional entries', in their order.
LEMMA ArgumentsRanked ==
    ASSUME NEW input, NEW descriptor, IsList(descriptor), ~ PositionTwice(input, descriptor),
           \A i \in Positional(input, descriptor) : descriptor[i].position \in Nat
    PROVE  LET P == Positional(input, descriptor)
               place(i) == Cardinality(Before(input, descriptor, i)) + 1
               args == PositionalArgs(input, descriptor) IN
           /\ DOMAIN args \subseteq Nat
           /\ \A n \in DOMAIN args : \E i \in P : args[n] = Value(input, descriptor[i].param)
           /\ \A i \in P : /\ place(i) \in DOMAIN args
                           /\ args[place(i)] = Value(input, descriptor[i].param)
           /\ \A i, k \in P : descriptor[k].position < descriptor[i].position =>
                place(k) \in 1 .. place(i) - 1
<1> DEFINE P == Positional(input, descriptor)
           rank(i) == Cardinality(Before(input, descriptor, i))
           args == PositionalArgs(input, descriptor)
           at(n) == CHOOSE i \in P : rank(i) = n - 1
<1>1. /\ Cardinality(P) \in Nat
      /\ \A i \in P : rank(i) + 1 \in 1 .. Cardinality(P)
      /\ \A i, k \in P : descriptor[k].position < descriptor[i].position => rank(k) < rank(i)
      /\ \A i, k \in P : rank(k) = rank(i) => i = k
      /\ \A n \in 1 .. Cardinality(P) : \E i \in P : rank(i) = n - 1
  BY Ranks
<1>2. args = [n \in 1 .. Cardinality(P) |-> Value(input, descriptor[at(n)].param)]
  BY DEF PositionalArgs
<1>3. \A i \in P : rank(i) \in Nat
  <2>1. \A i \in P : IsFiniteSet(Before(input, descriptor, i))
    <3>1. P \subseteq 1 .. Len(descriptor) /\ IsFiniteSet(1 .. Len(descriptor))
      BY FS_Interval DEF Positional, Present, IsList
    <3>2. \A i \in P : Before(input, descriptor, i) \subseteq 1 .. Len(descriptor)
      BY <3>1 DEF Before
    <3>3. QED
      BY <3>1, <3>2, FS_Subset
  <2>2. QED
    BY <2>1, FS_CardinalityType
<1> HIDE DEF P, rank, args
<1>4. ASSUME NEW n \in 1 .. Cardinality(P)
      PROVE  at(n) \in P /\ rank(at(n)) = n - 1
  BY <1>1
<1>5. ASSUME NEW i \in P
      PROVE  rank(i) + 1 \in DOMAIN args /\ args[rank(i) + 1] = Value(input, descriptor[i].param)
  <2>1. rank(i) + 1 \in 1 .. Cardinality(P)
    BY <1>1
  <2>2. at(rank(i) + 1) \in P /\ rank(at(rank(i) + 1)) = rank(i)
    <3>1. (rank(i) + 1) - 1 = rank(i)
      BY <1>3
    <3>2. QED
      BY <1>4, <2>1, <3>1
  <2>3. at(rank(i) + 1) = i
    BY <1>1, <2>2
  <2>4. QED
    BY <1>2, <2>1, <2>3
<1>6. ASSUME NEW n \in DOMAIN args
      PROVE  \E i \in P : args[n] = Value(input, descriptor[i].param)
  BY <1>2, <1>4
<1>7. ASSUME NEW i \in P, NEW k \in P, descriptor[k].position < descriptor[i].position
      PROVE  rank(k) + 1 \in 1 .. (rank(i) + 1) - 1
  BY <1>1, <1>3, <1>7
<1>8. DOMAIN args \subseteq Nat
  BY <1>1, <1>2
<1>9. QED
  BY <1>5, <1>6, <1>7, <1>8 DEF P, rank, args

\* The lists of a capability that dispatch relies on: a registered one has them, and
\* so has the default.
Renderable(cap) == IsList(cap.descriptor) /\ ValidDescriptor(cap.descriptor)

\* What the worker builds of a valid descriptor the agent takes, unless the file it
\* would have to stream has no absolute path or cannot be opened.
LEMMA RequestRendered ==
    ASSUME NEW input, NEW cap, NEW hash, Renderable(cap),
           InvokeRequest(input, cap, hash) # Rejected
    PROVE  LET req == InvokeRequest(input, cap, hash)
               d == cap.descriptor IN
           /\ \A i \in Present(input, d) : HeavyPath(input[d[i].param])
           /\ ~ PositionTwice(input, d)
           /\ \A i \in Positional(input, d) : d[i].position \in Nat
           /\ req.dataFiles = DataFiles(input, cap, hash)
           /\ req.positionalArgs = PositionalArgs(input, d)
           /\ Streamed(req) = {i \in Present(input, d) : d[i].style = "stdin"}
           /\ Flagged(req) = {i \in Present(input, d) : d[i].style = "flag"}
           /\ Streamed(req) # {} =>
                \E i \in Streamed(req) : StdinFile(req) = Value(input, d[i].param)
           /\ AgentAccepts(req) <=> StdinOpens(req)
<1> DEFINE req == InvokeRequest(input, cap, hash)
           d == cap.descriptor
           light == LightParams(input, d)
           args == {<<p, Value(input, p)>> : p \in light}
           files == DataFiles(input, cap, hash)
           positional == PositionalArgs(input, d)
<1>1. /\ \A i \in Present(input, d) : HeavyPath(input[d[i].param])
      /\ ~ PositionTwice(input, d)
      /\ \A p \in light : p \in FlagNames /\ SafeArg(input[p])
      /\ req = [args |-> args, dataFiles |-> files, positionalArgs |-> positional]
  BY DEF InvokeRequest
<1>2. req.args = args /\ req.dataFiles = files /\ req.positionalArgs = positional
  <2> HIDE DEF req, args, files, positional
  <2>1. QED
    BY <1>1
<1>3. IsList(d) /\ ValidDescriptor(d) /\ Present(input, d) \subseteq Nat
  BY DEF Renderable, IsList, Present
<1>4. \A i \in Present(input, d) : ValidEntry(d[i]) /\ d[i].style \in Styles
  BY <1>3 DEF Present, ValidDescriptor, ValidEntry
<1>5. \A i \in Positional(input, d) :
        d[i].position \in Nat /\ i \in Present(input, d) /\ d[i].style = "positional"
  BY <1>4 DEF Positional, ValidEntry
<1>6. /\ DOMAIN files = Present(input, d) \ Positional(input, d)
      /\ \A i \in DOMAIN files :
           /\ files[i].flag = (IF d[i].style = "flag" THEN d[i].flag ELSE <<"", "">>)
           /\ files[i].path = Value(input, d[i].param)
           /\ files[i].stdin = (d[i].style = "stdin")
  BY DEF DataFiles
<1>7. /\ Streamed(req) = {i \in Present(input, d) : d[i].style = "stdin"}
      /\ Flagged(req) = {i \in Present(input, d) : d[i].style = "flag"}
  <2> HIDE DEF req, files, d
  <2>1. \A i : i \in DOMAIN files <=> i \in Present(input, d) /\ d[i].style # "positional"
    BY <1>6 DEF Positional
  <2>2. Streamed(req) = {i \in Present(input, d) : d[i].style = "stdin"}
    BY <1>2, <1>6, <2>1 DEF Streamed
  <2>3. \A i \in Present(input, d) : d[i].style \in {"flag", "positional", "stdin"}
    BY <1>4 DEF Styles
  <2>4. QED
    BY <1>2, <2>1, <2>2, <2>3 DEF Flagged
<1> HIDE DEF req, args, files, positional, d
<1>8. ASSUME Streamed(req) # {}
      PROVE  \E i \in Streamed(req) : StdinFile(req) = Value(input, d[i].param)
  <2> DEFINE first == CHOOSE i \in Streamed(req) : \A j \in Streamed(req) : i <= j
  <2>1. Streamed(req) \in SUBSET Nat
    BY <1>3, <1>7
  <2>2. \E i \in Streamed(req) : \A j \in Streamed(req) : i <= j
    BY <1>8, <2>1, Least
  <2>3. first \in Streamed(req)
    BY <2>2
  <2>4. StdinFile(req) = req.dataFiles[first].path
    BY <1>8 DEF StdinFile
  <2>5. first \in DOMAIN files
    BY <1>2, <2>3 DEF Streamed
  <2> HIDE DEF first
  <2>6. QED
    BY <1>2, <1>6, <2>3, <2>4, <2>5
<1>9. \A i \in Present(input, d) : input[d[i].param] \in {"path", "missing", "relative"}
  BY <1>1 DEF HeavyPath, d
<1>10. \A i \in Present(input, d) : SafeArgv(Value(input, d[i].param))
  BY <1>9 DEF SafeArgv, Value
<1>11. \A arg \in req.args : arg[1] \in FlagNames
  BY <1>1, <1>2 DEF args, light, d
<1>12. ASSUME NEW i \in Flagged(req)
       PROVE  WellFormedFlag(req.dataFiles[i].flag) /\ SafeArgv(req.dataFiles[i].path)
  <2>1. i \in Present(input, d) /\ d[i].style = "flag" /\ i \in DOMAIN files
    BY <1>2, <1>7, <1>12 DEF Flagged
  <2>2. WellFormedFlag(d[i].flag)
    BY <1>4, <2>1 DEF ValidEntry
  <2>3. req.dataFiles[i].flag = d[i].flag /\ req.dataFiles[i].path = Value(input, d[i].param)
    BY <1>2, <1>6, <2>1
  <2>4. QED
    BY <1>10, <2>1, <2>2, <2>3
<1>13. ASSUME NEW n \in DOMAIN req.positionalArgs
       PROVE  SafeArgv(req.positionalArgs[n])
  <2>1. \A m \in DOMAIN PositionalArgs(input, d) : \E i \in Positional(input, d) :
          PositionalArgs(input, d)[m] = Value(input, d[i].param)
    BY <1>1, <1>3, <1>5, ArgumentsRanked DEF d
  <2>2. PICK i \in Positional(input, d) : req.positionalArgs[n] = Value(input, d[i].param)
    BY <1>2, <2>1 DEF positional
  <2>3. QED
    BY <1>5, <1>10, <2>2
<1>14. AgentAccepts(req) <=> StdinOpens(req)
  BY <1>11, <1>12, <1>13 DEF AgentAccepts, ArgsBuilt
<1>15. /\ \A i \in Present(input, d) : HeavyPath(input[d[i].param])
       /\ ~ PositionTwice(input, d)
  BY <1>1 DEF d
<1>16. req.dataFiles = DataFiles(input, cap, hash) /\ req.positionalArgs = PositionalArgs(input, d)
  BY <1>2 DEF files, positional
<1>17. QED
  BY <1>5, <1>7, <1>8, <1>14, <1>15, <1>16 DEF req, d

\* What dispatch works with is always a capability that can be rendered.
LEMMA CapabilityRenderable ==
    ASSUME DispatchInvariant
    PROVE  /\ Renderable(Capability)
           /\ Capability.stateReuse = "stateIdKeyed" =>
                \A i \in DOMAIN Capability.descriptor :
                   Capability.descriptor[i].style # "positional"
<1>1. CASE facts \in {Unread, Nothing}
  <2>1. Capability = NoHeavyBindings
    BY <1>1 DEF Capability
  <2>2. Capability.descriptor = <<>> /\ Capability.stateReuse = "none"
    BY <2>1 DEF NoHeavyBindings
  <2>3. IsList(<<>>) /\ ValidDescriptor(<<>>)
    BY DEF IsList, ValidDescriptor
  <2>4. QED
    BY <2>2, <2>3 DEF Renderable
<1>2. CASE facts \notin {Unread, Nothing}
  <2>1. Registrable(facts.capability) /\ Capability = facts.capability
    BY <1>2 DEF DispatchInvariant, Capability
  <2>2. QED
    BY <2>1 DEF Registrable, ValidCapability, Renderable
<1>3. QED
  BY <1>1, <1>2

\* getPlacementFacts finds only what a valid submission has registered.
LEMMA FactsRegistrable ==
    ASSUME InductiveInvariant, DispatchInvariant, NEW d \in Digests, NEW f,
           PlacementFacts(d, f) # Nothing
    PROVE  Registrable(PlacementFacts(d, f).capability)
<1> USE DEF InductiveInvariant, RegistryInvariant
<1> DEFINE r == functions[d][f]
<1>1. image[d] # NoImage /\ f \in DOMAIN functions[d]
      /\ PlacementFacts(d, f).capability = Submitted(r)[f]
  BY DEF PlacementFacts
<1>2. r = image[d].by /\ r \in Registrations /\ f \in DOMAIN Submitted(r)
  <2>1. image[d].by \in Registrations
    BY <1>1 DEF RegistryTypeOK, Images
  <2>2. QED
    BY <1>1, <2>1 DEF EntryFromOneRegistration
<1>3. pc[r] = "committed"
  BY <1>1, <1>2 DEF RowsCommitted
<1>4. ValidRegistration(submission[r]) /\ IsList(Submitted(r)[f].descriptor)
  BY <1>2, <1>3 DEF DispatchInvariant
<1>5. ValidCapability(Submitted(r)[f])
  BY <1>2, <1>4 DEF ValidRegistration, Submitted
<1>6. QED
  BY <1>1, <1>4, <1>5 DEF Registrable

\* No transaction writes an invalid submission.
LEMMA OnlyValidWritten ==
    ASSUME InductiveInvariant, RegistryNext,
           \A r \in Registrations : Writing(r) \/ pc[r] = "committed" =>
             ValidRegistration(submission[r])
    PROVE  /\ \A r \in Registrations : (Writing(r) \/ pc[r] = "committed")' =>
                ValidRegistration(submission'[r])
           /\ \A r \in Registrations : pc'[r] # "unused" => pc[r] # "unused"
           /\ submission' = submission
<1> USE DEF InductiveInvariant, RegistryInvariant, RegistryTypeOK
<1>1. submission' = submission
  BY RegistryKeeps DEF RegistryFrame
<1>2. ASSUME NEW q \in Registrations, Register(q), NEW r \in Registrations
      PROVE  /\ (Writing(r) \/ pc[r] = "committed")' => ValidRegistration(submission[r])
             /\ pc'[r] # "unused" => pc[r] # "unused"
  <2>1. CASE r = q
    BY <1>2, <2>1 DEF Register, Refuse, Upsert, Replace, Commit, RollBack, Writing
  <2>2. CASE r # q
    <3>1. pc'[r] = pc[r]
      BY <1>2, <2>2 DEF Register, Refuse, Upsert, Replace, Commit, RollBack
    <3>2. QED
      BY <3>1 DEF Writing
  <2>3. QED
    BY <2>1, <2>2
<1>3. ASSUME NEW d \in Digests, NEW tier \in TrustTiers, RecordTrustTier(d, tier)
      PROVE  UNCHANGED pc
  BY <1>3 DEF RecordTrustTier
<1>4. QED
  BY <1>1, <1>2, <1>3 DEF RegistryNext, Writing

\* The dispatch keeps what it has read and built.
LEMMA DispatchKeeps ==
    ASSUME InductiveInvariant, DispatchInvariant, [Next]_vars
    PROVE  DispatchInvariant'
<1> DEFINE Submissions == \A r \in Registrations : pc[r] # "unused" =>
                            \A f \in DOMAIN Submitted(r) : IsList(Submitted(r)[f].descriptor)
           Admitted == \A r \in Registrations : Writing(r) \/ pc[r] = "committed" =>
                         ValidRegistration(submission[r])
<1>1. CASE RegistryNext /\ UNCHANGED <<compiler, worker>>
  <2>1. /\ \A r \in Registrations : (Writing(r) \/ pc[r] = "committed")' =>
             ValidRegistration(submission'[r])
        /\ \A r \in Registrations : pc'[r] # "unused" => pc[r] # "unused"
        /\ submission' = submission
    BY <1>1, OnlyValidWritten DEF DispatchInvariant
  <2>2. \A r \in Registrations : pc'[r] # "unused" =>
          \A f \in DOMAIN Submitted(r)' : IsList(Submitted(r)'[f].descriptor)
    BY <2>1 DEF DispatchInvariant, Submitted
  <2>3. UNCHANGED <<call, facts, request, command>> /\ Capability' = Capability
    BY <1>1 DEF worker, Capability
  <2>4. QED
    BY <2>1, <2>2, <2>3 DEF DispatchInvariant
<1>2. ASSUME UNCHANGED <<registry, call>> PROVE Submissions' /\ Admitted'
             /\ (call' # Nothing => call'.digest \in Digests)
  BY <1>2 DEF registry, DispatchInvariant, Submitted, Writing
<1>3. CASE Compile \/ UNCHANGED vars
  <2>1. UNCHANGED <<registry, call, facts, request, command>>
    BY <1>3 DEF Compile, Validate, ReadImage, ListFunctions, JudgeStep, Answer, vars, worker
  <2>2. Capability' = Capability
    BY <2>1 DEF Capability
  <2>3. Submissions' /\ Admitted'
    BY <1>2, <2>1
  <2>4. QED
    BY <2>1, <2>2, <2>3 DEF DispatchInvariant
<1>4. CASE ReadFacts
  <2>1. /\ call # Nothing /\ request = NotYet
        /\ facts' = PlacementFacts(call.digest, call.function)
        /\ UNCHANGED <<registry, call, request, command>>
    BY <1>4 DEF ReadFacts
  <2>2. Submissions' /\ Admitted' /\ (call' # Nothing => call'.digest \in Digests)
    BY <1>2, <2>1
  <2>3. facts' \notin {Unread, Nothing} => Registrable(facts'.capability)
    BY <2>1, FactsRegistrable DEF DispatchInvariant
  <2>4. command' = NotYet /\ request' = NotYet
    BY <2>1 DEF DispatchInvariant
  <2>5. QED
    BY <2>2, <2>3, <2>4 DEF DispatchInvariant
<1>5. CASE Dispatch
  <2>1. /\ request = NotYet /\ request' = InvokeRequest(call.input, Capability, call.hash)
        /\ UNCHANGED <<registry, call, facts, command>> /\ Capability' = Capability
    BY <1>5 DEF Dispatch, Capability
  <2>2. Submissions' /\ Admitted' /\ (call' # Nothing => call'.digest \in Digests)
    BY <1>2, <2>1
  <2>3. command' = NotYet
    BY <2>1 DEF DispatchInvariant
  <2>4. QED
    BY <2>1, <2>2, <2>3 DEF DispatchInvariant
<1>6. CASE Execute
  <2>1. /\ request \notin {NotYet, Rejected}
        /\ command' = (IF AgentAccepts(request) THEN Command(request) ELSE Rejected)
        /\ UNCHANGED <<registry, call, facts, request>> /\ Capability' = Capability
    BY <1>6 DEF Execute, Capability
  <2>2. Submissions' /\ Admitted' /\ (call' # Nothing => call'.digest \in Digests)
    BY <1>2, <2>1
  <2>3. QED
    BY <2>1, <2>2 DEF DispatchInvariant
<1>7. QED
  BY <1>1, <1>3, <1>4, <1>5, <1>6 DEF Next, Work

\* --------------------------------------------------------------- the document

\* A definition by recursion: below[i] is the index that i's value is made from, and
\* it comes before i.
Descends(below, N) == \A i \in 1 .. N : below[i] \in 0 .. i - 1

Closed(G, V, N) == \A i \in 1 .. N : \A v \in V : G[<<i, v>>] \in V

Satisfies(f, base, below, G, N) ==
    f[0] = base /\ \A i \in 1 .. N : f[i] = G[<<i, f[below[i]]>>]

\* There is a function so defined, by induction along its indices.
LEMMA Recursion ==
    ASSUME NEW V, NEW base \in V, NEW N \in Nat, NEW below, NEW G,
           Descends(below, N), Closed(G, V, N)
    PROVE  \E f \in [0 .. N -> V] : Satisfies(f, base, below, G, N)
<1> USE DEF Descends, Closed
<1> DEFINE Good(M) == \E f \in [0 .. M -> V] :
                        f[0] = base /\ \A i \in 1 .. M : f[i] = G[<<i, f[below[i]]>>]
           Bad == {M \in 0 .. N : ~ Good(M)}
<1>1. Good(0)
  <2> DEFINE f == [i \in 0 .. 0 |-> base]
  <2>1. f \in [0 .. 0 -> V] /\ f[0] = base /\ 1 .. 0 = {}
    OBVIOUS
  <2> HIDE DEF f
  <2>2. \A i \in 1 .. 0 : f[i] = G[<<i, f[below[i]]>>]
    BY <2>1
  <2>3. QED
    BY <2>1, <2>2
<1>2. ASSUME NEW M \in 1 .. N, Good(M - 1) PROVE Good(M)
  <2>1. PICK f \in [0 .. M - 1 -> V] :
          f[0] = base /\ \A i \in 1 .. M - 1 : f[i] = G[<<i, f[below[i]]>>]
    BY <1>2
  <2> DEFINE v == G[<<M, f[below[M]]>>]
             g == [i \in 0 .. M |-> IF i = M THEN v ELSE f[i]]
  <2>2. below[M] \in 0 .. M - 1 /\ v \in V
    BY <2>1
  <2>3. \A i \in 0 .. M - 1 : g[i] = f[i]
    BY <1>2
  <2>4. g \in [0 .. M -> V] /\ g[0] = base
    BY <2>1, <2>2
  <2>a. g[M] = v
    OBVIOUS
  <2>5. ASSUME NEW i \in 1 .. M PROVE g[i] = G[<<i, g[below[i]]>>]
    <3>1. below[i] \in 0 .. i - 1 /\ below[i] \in 0 .. M - 1
      BY <1>2
    <3>2. g[below[i]] = f[below[i]]
      BY <2>3, <3>1
    <3>3. CASE i = M
      BY <2>a, <3>2, <3>3
    <3>4. CASE i # M
      <4>1. i \in 1 .. M - 1 /\ i \in 0 .. M - 1
        BY <3>4
      <4>2. g[i] = f[i] /\ f[i] = G[<<i, f[below[i]]>>]
        BY <2>1, <2>3, <4>1
      <4> HIDE DEF g
      <4>3. QED
        BY <3>2, <4>2
    <3>5. QED
      BY <3>3, <3>4
  <2> HIDE DEF g
  <2>6. QED
    BY <2>4, <2>5
<1> HIDE DEF Good
<1>3. Bad = {}
  <2> SUFFICES ASSUME Bad # {} PROVE FALSE
    OBVIOUS
  <2>1. PICK M \in Bad : \A K \in Bad : M <= K
    <3>1. Bad \in SUBSET Nat
      OBVIOUS
    <3>2. QED
      BY <3>1, Least
  <2>2. M # 0
    BY <1>1
  <2>3. Good(M - 1)
    BY <2>1, <2>2
  <2>4. QED
    BY <1>2, <2>1, <2>2, <2>3
<1>4. Good(N)
  BY <1>3
<1>5. QED
  BY <1>4 DEF Good, Satisfies

\* Names of nodes, of cases and of bodies, and the lists of a document.
Names(d) ==
    Ids(d) \cup {d.nodes[i].home[2] : i \in Nodes(d)}
      \cup UNION {{y[1] : y \in d.nodes[i].yields} : i \in Nodes(d)}

Paths(d) == Seq({"branch", "map", "case"} \X Names(d))

Lists(d) == {Root} \cup {l \in Nodes(d) \X Names(d) : HasList(d.nodes[l[1]], l[2])}

\* A node is at home in a list whose own node comes before it.
LEMMA Homes ==
    ASSUME NEW d, IsWalk(d), NEW i \in Nodes(d)
    PROVE  LET home == d.nodes[i].home IN
           /\ Len(d.nodes) \in Nat /\ i \in 1 .. Len(d.nodes)
           /\ home \in Lists(d) /\ home[1] \in 0 .. i - 1
           /\ home[1] = 0 => home = Root
           /\ home[1] # 0 => home[1] \in Nodes(d) /\ home[2] \in Names(d)
<1> DEFINE home == d.nodes[i].home
<1>1. Len(d.nodes) \in Nat /\ i \in 1 .. Len(d.nodes) /\ Nodes(d) = 1 .. Len(d.nodes)
  BY DEF IsWalk
<1>2. home[2] \in Names(d)
  BY DEF Names
<1>3. CASE home = Root
  BY <1>1, <1>3 DEF Lists, Root
<1>4. CASE home # Root
  <2>1. PICK j \in 1 .. i - 1 : home = <<j, home[2]>> /\ HasList(d.nodes[j], home[2])
    BY <1>4 DEF IsWalk
  <2> DEFINE part == home[2]
  <2>2. part \in Names(d) /\ home = <<j, part>> /\ HasList(d.nodes[j], part) /\ j \in Nodes(d)
    BY <1>1, <1>2, <2>1
  <2> HIDE DEF part
  <2>3. home[1] = j /\ home[2] = part /\ home \in Lists(d)
    BY <2>2 DEF Lists
  <2>4. QED
    BY <1>1, <2>1, <2>2, <2>3
<1>5. QED
  BY <1>3, <1>4

LEMMA SegmentsType ==
    ASSUME NEW d, NEW i \in Nodes(d), NEW part \in Names(d)
    PROVE  Segments(d.nodes[i], part) \in Paths(d)
<1> DEFINE S == {"branch", "map", "case"} \X Names(d)
           id == d.nodes[i].id
<1>1. id \in Names(d)
  BY DEF Names, Ids
<1> HIDE DEF id
<1>2. <<"branch", id>> \in S /\ <<"case", part>> \in S /\ <<"map", id>> \in S
  BY <1>1
<1> HIDE DEF S
<1>3. <<<<"branch", id>>, <<"case", part>>>> \in Seq(S) /\ <<<<"map", id>>>> \in Seq(S)
  BY <1>2
<1>4. QED
  BY <1>3 DEF Segments, Paths, S, id

\* The scope paths that walkNodes builds.
LEMMA ScopesBuilt ==
    ASSUME NEW d, IsWalk(d)
    PROVE  \A i \in Nodes(d) : /\ Scopes(d)[i] = ScopeOf(d, d.nodes[i].home)
                               /\ Scopes(d)[i] \in Paths(d)
<1> DEFINE N == Len(d.nodes)
           home(i) == d.nodes[i].home
           more(i) == IF home(i)[1] = 0 THEN <<>> ELSE Segments(d.nodes[home(i)[1]], home(i)[2])
           below == [i \in 1 .. N |-> home(i)[1]]
           G == [x \in (1 .. N) \X Paths(d) |-> x[2] \o more(x[1])]
<1>1. N \in Nat /\ Nodes(d) = 1 .. N
  BY DEF IsWalk
<1>2. <<>> \in Paths(d)
  BY DEF Paths
<1>3. ASSUME NEW i \in 1 .. N
      PROVE  /\ below[i] \in 0 .. i - 1 /\ more(i) \in Paths(d)
             /\ below[i] = home(i)[1] /\ home(i)[1] \in 0 .. N
  <2>1. home(i)[1] \in 0 .. i - 1 /\ home(i)[1] \in 0 .. N /\ below[i] = home(i)[1]
    BY <1>1, Homes
  <2>2. CASE home(i)[1] = 0
    BY <1>2, <2>1, <2>2
  <2>3. CASE home(i)[1] # 0
    <3>1. home(i)[1] \in Nodes(d) /\ home(i)[2] \in Names(d)
      BY <1>1, <2>3, Homes
    <3>2. Segments(d.nodes[home(i)[1]], home(i)[2]) \in Paths(d)
      BY <3>1, SegmentsType
    <3>3. QED
      BY <2>1, <2>3, <3>2
  <2>4. QED
    BY <2>2, <2>3
<1>4. ASSUME NEW i \in 1 .. N, NEW v \in Paths(d) PROVE G[<<i, v>>] = v \o more(i)
  BY <1>4
<1>5. ASSUME NEW i \in 1 .. N, NEW v \in Paths(d) PROVE G[<<i, v>>] \in Paths(d)
  <2>1. v \o more(i) \in Paths(d)
    <3> HIDE DEF more
    <3>1. more(i) \in Paths(d)
      BY <1>3
    <3>2. QED
      BY <1>5, <3>1, ConcatProperties DEF Paths
  <2>2. QED
    BY <1>4, <2>1
<1> HIDE DEF G, below, more
<1>6. PICK f \in [0 .. N -> Paths(d)] :
        f[0] = <<>> /\ \A i \in 1 .. N : f[i] = G[<<i, f[below[i]]>>]
  <2>1. Descends(below, N) /\ Closed(G, Paths(d), N)
    BY <1>3, <1>5 DEF Descends, Closed
  <2>2. \E f \in [0 .. N -> Paths(d)] : Satisfies(f, <<>>, below, G, N)
    <3> HIDE DEF N
    <3>1. QED
      BY <1>1, <1>2, <2>1, Recursion
  <2>3. QED
    BY <2>2 DEF Satisfies
<1>7. ASSUME NEW i \in 1 .. N
      PROVE  f[i] = f[home(i)[1]] \o more(i) /\ home(i)[1] \in 0 .. N
  <2>1. below[i] = home(i)[1] /\ below[i] \in 0 .. N
    BY <1>3
  <2>2. QED
    BY <1>4, <1>6, <2>1
<1>8. f = [i \in 0 .. N |->
             IF i = 0 THEN <<>>
             ELSE LET h == d.nodes[i].home IN
                  f[h[1]] \o (IF h[1] = 0 THEN <<>> ELSE Segments(d.nodes[h[1]], h[2]))]
  <2>1. \A i \in 0 .. N :
          f[i] = IF i = 0 THEN <<>>
                 ELSE LET h == d.nodes[i].home IN
                      f[h[1]] \o (IF h[1] = 0 THEN <<>> ELSE Segments(d.nodes[h[1]], h[2]))
    <3> DEFINE tail(i) == more(i)
    <3>1. \A i \in 1 .. N : f[i] = f[home(i)[1]] \o tail(i)
      BY <1>7
    <3>2. f[0] = <<>>
      BY <1>6
    <3>3. \A i \in 0 .. N : i = 0 \/ i \in 1 .. N
      BY <1>1
    <3> HIDE DEF tail, N
    <3>4. \A i \in 0 .. N : f[i] = IF i = 0 THEN <<>> ELSE f[home(i)[1]] \o tail(i)
      BY <3>1, <3>2, <3>3
    <3>5. QED
      BY <3>4 DEF tail, more
  <2>2. f = [i \in 0 .. N |-> f[i]]
    BY <1>6
  <2> HIDE DEF N
  <2>3. QED
    BY <2>1, <2>2, ZenonT(60)
<1> DEFINE s == Scopes(d)
<1>9. s = [i \in 0 .. N |->
             IF i = 0 THEN <<>>
             ELSE LET h == d.nodes[i].home IN
                  s[h[1]] \o (IF h[1] = 0 THEN <<>> ELSE Segments(d.nodes[h[1]], h[2]))]
  BY <1>8 DEF Scopes
<1>10. s[0] = <<>> /\ \A i \in 1 .. N : s[i] = s[home(i)[1]] \o more(i)
  <2> HIDE DEF s
  <2>1. \A i \in 0 .. N :
          s[i] = IF i = 0 THEN <<>>
                 ELSE LET h == d.nodes[i].home IN
                      s[h[1]] \o (IF h[1] = 0 THEN <<>> ELSE Segments(d.nodes[h[1]], h[2]))
    BY <1>9
  <2>2. s[0] = <<>>
    <3>1. 0 \in 0 .. N
      BY <1>1
    <3> HIDE DEF N
    <3>2. QED
      BY <2>1, <3>1
  <2>3. ASSUME NEW i \in 1 .. N PROVE s[i] = s[home(i)[1]] \o more(i)
    <3>1. i \in 0 .. N /\ i # 0
      BY <1>1
    <3> HIDE DEF N
    <3>2. QED
      BY <2>1, <3>1 DEF more
  <2>4. QED
    BY <2>2, <2>3
<1> HIDE DEF s
<1>11. \A i \in 0 .. N : s[i] = f[i]
  <2> DEFINE Bad == {i \in 0 .. N : s[i] # f[i]}
  <2> SUFFICES ASSUME Bad # {} PROVE FALSE
    OBVIOUS
  <2>1. PICK i \in Bad : \A j \in Bad : i <= j
    <3>1. Bad \in SUBSET Nat
      OBVIOUS
    <3> HIDE DEF Bad
    <3>2. QED
      BY <3>1, Least
  <2>2. i # 0 /\ i \in 1 .. N
    <3>1. i # 0
      BY <1>6, <1>10
    <3>2. i \in 0 .. N
      OBVIOUS
    <3>3. QED
      BY <1>1, <3>1, <3>2
  <2>3. home(i)[1] \in 0 .. i - 1 /\ home(i)[1] \in 0 .. N
    BY <1>3, <2>2
  <2>4. s[home(i)[1]] = f[home(i)[1]]
    BY <2>1, <2>3
  <2>5. QED
    BY <1>7, <1>10, <2>2, <2>4
<1>12. ASSUME NEW i \in Nodes(d) PROVE s[i] = ScopeOf(d, home(i)) /\ s[i] \in Paths(d)
  <2>1. i \in 1 .. N /\ s[i] \in Paths(d) /\ s[i] = s[home(i)[1]] \o more(i)
    <3>1. i \in 1 .. N /\ i \in 0 .. N
      BY <1>1
    <3>2. QED
      BY <1>6, <1>10, <1>11, <3>1
  <2>2. CASE home(i)[1] = 0
    BY <1>2, <1>10, <2>1, <2>2, ConcatEmptySeq DEF more, ScopeOf, Paths
  <2>3. CASE home(i)[1] # 0
    BY <2>1, <2>3 DEF more, ScopeOf, s
  <2>4. QED
    BY <2>2, <2>3
<1>13. QED
  BY <1>12 DEF s

\* What a list's scope path ends in: the names of its node and of its case.
Ending(S, H, node, part) ==
    /\ IF node.kind = "branch"
       THEN /\ Len(S) = Len(H) + 2
            /\ S[Len(H) + 1] = <<"branch", node.id>> /\ S[Len(H) + 2] = <<"case", part>>
       ELSE Len(S) = Len(H) + 1 /\ S[Len(H) + 1] = <<"map", node.id>>
    /\ \A j \in 1 .. Len(H) : S[j] = H[j]

LEMMA SegmentsEnd ==
    ASSUME NEW U, NEW H \in Seq(U), NEW node, NEW part, Segments(node, part) \in Seq(U)
    PROVE  H \o Segments(node, part) \in Seq(U)
           /\ Ending(H \o Segments(node, part), H, node, part)
<1> DEFINE more == Segments(node, part)
           S == H \o more
<1>1. /\ node.kind = "branch" =>
           Len(more) = 2 /\ more[1] = <<"branch", node.id>> /\ more[2] = <<"case", part>>
      /\ node.kind # "branch" => Len(more) = 1 /\ more[1] = <<"map", node.id>>
  BY DEF Segments
<1>2. more \in Seq(U)
  OBVIOUS
<1> HIDE DEF more
<1>3. /\ S \in Seq(U) /\ Len(S) = Len(H) + Len(more)
      /\ \A i \in 1 .. Len(H) + Len(more) : S[i] = IF i <= Len(H) THEN H[i] ELSE more[i - Len(H)]
  BY <1>2, ConcatProperties
<1>4. Len(H) \in Nat
  BY LenProperties
<1> HIDE DEF S
<1>5. \A j \in 1 .. Len(H) : S[j] = H[j]
  BY <1>1, <1>3, <1>4
<1>a. ASSUME NEW k \in 1 .. Len(more) PROVE S[Len(H) + k] = more[k]
  <2> DEFINE n == Len(H)
             i == n + k
  <2>1. n \in Nat /\ Len(more) \in Nat
    BY <1>1, <1>4
  <2>2. i \in 1 .. n + Len(more) /\ ~ (i <= n) /\ i - n = k
    BY <2>1
  <2>3. S[i] = more[i - n]
    <3> HIDE DEF i
    <3>1. QED
      BY <1>3, <2>2
  <2>4. QED
    BY <2>2, <2>3
<1>6. CASE node.kind = "branch"
  <2>1. S[Len(H) + 1] = more[1] /\ S[Len(H) + 2] = more[2]
    <3>1. Len(more) = 2
      BY <1>1, <1>6
    <3>2. 1 \in 1 .. 2 /\ 2 \in 1 .. 2
      OBVIOUS
    <3>3. QED
      BY <1>a, <3>1, <3>2
  <2>2. QED
    BY <1>1, <1>3, <1>5, <1>6, <2>1 DEF Ending, S, more
<1>7. CASE node.kind # "branch"
  <2>1. S[Len(H) + 1] = more[1]
    <3>1. 1 \in 1 .. Len(more)
      BY <1>1, <1>7
    <3>2. QED
      BY <1>a, <3>1
  <2>2. QED
    BY <1>1, <1>3, <1>5, <1>7, <2>1 DEF Ending, S, more
<1>8. QED
  BY <1>6, <1>7

\* A list other than the root is in a node's list, and its path ends as the walk says.
LEMMA ListShape ==
    ASSUME NEW d, IsWalk(d), NEW l \in Lists(d)
    PROVE  LET home == d.nodes[l[1]].home IN
           /\ ScopeOf(d, l) \in Paths(d)
           /\ l[1] = 0 => l = Root /\ ScopeOf(d, l) = <<>>
           /\ l[1] # 0 =>
                /\ l = <<l[1], l[2]>> /\ l[1] \in Nodes(d) /\ HasList(d.nodes[l[1]], l[2])
                /\ home \in Lists(d) /\ home[1] \in 0 .. l[1] - 1
                /\ Ending(ScopeOf(d, l), ScopeOf(d, home), d.nodes[l[1]], l[2])
<1>1. Len(d.nodes) \in Nat /\ Nodes(d) = 1 .. Len(d.nodes)
  BY DEF IsWalk
<1>2. CASE l = Root
  BY <1>2 DEF Root, ScopeOf, Paths
<1>3. CASE l # Root
  <2>1. PICK k \in Nodes(d), part \in Names(d) : l = <<k, part>> /\ HasList(d.nodes[k], part)
    BY <1>3 DEF Lists
  <2>2. l[1] = k /\ l[2] = part /\ k # 0
    BY <1>1, <2>1
  <2> DEFINE home == d.nodes[k].home
             H == ScopeOf(d, home)
  <2>3. home \in Lists(d) /\ home[1] \in 0 .. k - 1
    BY Homes
  <2>4. Scopes(d)[k] = H /\ H \in Paths(d)
    BY ScopesBuilt
  <2>5. ScopeOf(d, l) = H \o Segments(d.nodes[k], part)
    BY <2>2, <2>4 DEF ScopeOf
  <2>6. Segments(d.nodes[k], part) \in Paths(d)
    BY SegmentsType
  <2> HIDE DEF H
  <2>7. ScopeOf(d, l) \in Paths(d) /\ Ending(ScopeOf(d, l), H, d.nodes[k], part)
    BY <2>4, <2>5, <2>6, SegmentsEnd DEF Paths
  <2>8. QED
    BY <2>1, <2>2, <2>3, <2>7 DEF H
<1>4. QED
  BY <1>2, <1>3

LEMMA Visibility ==
    ASSUME NEW U, NEW t \in Seq(U), NEW s \in Seq(U)
    PROVE  IsVisible(t, s) <=> Len(t) <= Len(s) /\ \A j \in 1 .. Len(t) : s[j] = t[j]
<1>1. Len(t) \in Nat /\ Len(s) \in Nat
  BY LenProperties
<1>2. ASSUME Len(t) <= Len(s)
      PROVE  SubSeq(s, 1, Len(t)) = t <=> \A j \in 1 .. Len(t) : s[j] = t[j]
  <2> DEFINE n == Len(t)
             u == SubSeq(s, 1, n)
  <2>1. \A i \in 1 .. n : s[i] \in U
    BY <1>1, <1>2, ElementOfSeq
  <2>2. u \in Seq(U) /\ Len(u) = (IF 1 <= n THEN n - 1 + 1 ELSE 0)
        /\ \A i \in 1 .. n - 1 + 1 : u[i] = s[1 + i - 1]
    BY <1>1, <2>1, SubSeqProperties
  <2> HIDE DEF u
  <2>3. Len(u) = n /\ \A i \in 1 .. n : u[i] = s[i]
    BY <1>1, <2>2
  <2>4. ASSUME \A j \in 1 .. n : s[j] = t[j] PROVE u = t
    <3>1. \A i \in 1 .. Len(u) : u[i] = t[i]
      BY <2>3, <2>4
    <3>2. QED
      BY <2>2, <2>3, <3>1, SeqEqual
  <2>5. QED
    BY <2>3, <2>4 DEF u
<1>3. QED
  BY <1>2 DEF IsVisible

\* A list's path ends in its own node's name and nothing but it has that path.
LEMMA PathsDiffer ==
    ASSUME NEW d, IsWalk(d), UniqueIds(d), NEW l \in Lists(d), NEW m \in Lists(d),
           ScopeOf(d, l) = ScopeOf(d, m)
    PROVE  l = m
<1> DEFINE S == ScopeOf(d, l)
           F(x) == ScopeOf(d, d.nodes[x[1]].home)
<1>1. S \in Paths(d) /\ Len(<<>>) = 0
  BY ListShape
<1>2. \A x \in {l, m} : x[1] # 0 => F(x) \in Paths(d) /\ Len(F(x)) \in Nat
  BY ListShape, LenProperties DEF Paths
<1>3. \A x \in {l, m} : x[1] # 0 =>
        /\ x[1] \in Nodes(d) /\ x = <<x[1], x[2]>> /\ HasList(d.nodes[x[1]], x[2])
        /\ Ending(S, F(x), d.nodes[x[1]], x[2])
  BY ListShape
<1>4. \A x \in {l, m} : x[1] = 0 => x = Root /\ S = <<>>
  BY ListShape
<1> HIDE DEF F, S
<1>5. CASE l[1] = 0 \/ m[1] = 0
  <2>1. \A x \in {l, m} : x[1] # 0 => Len(S) # 0
    BY <1>2, <1>3 DEF Ending
  <2>2. QED
    BY <1>1, <1>4, <1>5, <2>1
<1>6. CASE l[1] # 0 /\ m[1] # 0
  <2> DEFINE i == l[1]
             j == m[1]
  <2>1. /\ i \in Nodes(d) /\ j \in Nodes(d)
        /\ HasList(d.nodes[i], l[2]) /\ HasList(d.nodes[j], m[2])
        /\ Ending(S, F(l), d.nodes[i], l[2]) /\ Ending(S, F(m), d.nodes[j], m[2])
        /\ Len(F(l)) \in Nat /\ Len(F(m)) \in Nat
    BY <1>2, <1>3, <1>6
  <2>2. i = j /\ l[2] = m[2] => l = m
    BY <1>3, <1>6
  <2> HIDE DEF i, j
  <2>3. CASE d.nodes[i].kind = "branch" /\ d.nodes[j].kind = "branch"
    <3>1. Len(F(l)) = Len(F(m))
      BY <2>1, <2>3 DEF Ending
    <3>2. <<"case", l[2]>> = <<"case", m[2]>> /\ <<"branch", d.nodes[i].id>> = <<"branch", d.nodes[j].id>>
      BY <2>1, <2>3, <3>1 DEF Ending
    <3>3. QED
      BY <2>1, <2>2, <3>2 DEF UniqueIds
  <2>4. CASE d.nodes[i].kind # "branch" /\ d.nodes[j].kind # "branch"
    <3>1. Len(F(l)) = Len(F(m))
      BY <2>1, <2>4 DEF Ending
    <3>2. <<"map", d.nodes[i].id>> = <<"map", d.nodes[j].id>>
      BY <2>1, <2>4, <3>1 DEF Ending
    <3>3. l[2] = "body" /\ m[2] = "body"
      BY <2>1, <2>4 DEF HasList
    <3>4. QED
      BY <2>1, <2>2, <3>2, <3>3 DEF UniqueIds
  <2>5. CASE d.nodes[i].kind = "branch" /\ d.nodes[j].kind # "branch"
    <3>1. Len(F(l)) + 2 = Len(F(m)) + 1
      BY <2>1, <2>5 DEF Ending
    <3>2. <<"case", l[2]>> = <<"map", d.nodes[j].id>>
      BY <2>1, <2>5, <3>1 DEF Ending
    <3>3. QED
      BY <3>2
  <2>6. CASE d.nodes[i].kind # "branch" /\ d.nodes[j].kind = "branch"
    <3>1. Len(F(l)) + 1 = Len(F(m)) + 2
      BY <2>1, <2>6 DEF Ending
    <3>2. <<"case", m[2]>> = <<"map", d.nodes[i].id>>
      BY <2>1, <2>6, <3>1 DEF Ending
    <3>3. QED
      BY <3>2
  <2>7. QED
    BY <2>3, <2>4, <2>5, <2>6
<1>7. QED
  BY <1>5, <1>6

\* What is visible from a list is what is visible from the list its node is in,
\* and the list itself: no list's path ends between a branch and its case.
LEMMA VisibleStep ==
    ASSUME NEW d, IsWalk(d), UniqueIds(d), NEW l \in Lists(d), NEW m \in Lists(d), m[1] # 0
    PROVE  IsVisible(ScopeOf(d, l), ScopeOf(d, m)) <=>
             IsVisible(ScopeOf(d, l), ScopeOf(d, d.nodes[m[1]].home)) \/ l = m
<1> DEFINE T == ScopeOf(d, l)
           S == ScopeOf(d, m)
           H == ScopeOf(d, d.nodes[m[1]].home)
           node == d.nodes[m[1]]
           U == {"branch", "map", "case"} \X Names(d)
           G == ScopeOf(d, d.nodes[l[1]].home)
<1>1. T \in Seq(U) /\ S \in Seq(U) /\ H \in Seq(U) /\ Ending(S, H, node, m[2])
  BY ListShape DEF Paths
<1>2. Len(T) \in Nat /\ Len(S) \in Nat /\ Len(H) \in Nat
  BY <1>1, LenProperties
<1>3. l[1] # 0 => Ending(T, G, d.nodes[l[1]], l[2]) /\ Len(G) \in Nat
  BY ListShape, LenProperties DEF Paths
<1>4. l[1] = 0 => T = <<>>
  BY ListShape
<1>5. l # m => T # S
  BY PathsDiffer
<1>6. (IsVisible(T, S) <=> Len(T) <= Len(S) /\ \A j \in 1 .. Len(T) : S[j] = T[j])
      /\ (IsVisible(T, H) <=> Len(T) <= Len(H) /\ \A j \in 1 .. Len(T) : H[j] = T[j])
  <2> HIDE DEF T, S, H, U
  <2>1. QED
    BY <1>1, Visibility
<1> HIDE DEF T, S, H, U, G, node
<1>7. ASSUME IsVisible(T, H) PROVE IsVisible(T, S)
  <2>1. Len(H) <= Len(S)
    BY <1>1, <1>2 DEF Ending
  <2>2. QED
    BY <1>1, <1>2, <1>6, <1>7, <2>1 DEF Ending
<1>8. ASSUME l = m PROVE IsVisible(T, S)
  <2>1. T = S
    BY <1>8 DEF T, S
  <2>2. QED
    BY <1>2, <1>6, <2>1
<1>9. ASSUME IsVisible(T, S), l # m PROVE IsVisible(T, H)
  <2>1. Len(T) # Len(S)
    <3>1. Len(T) = Len(S) => T = S
      BY <1>1, <1>6, <1>9, SeqEqual
    <3>2. QED
      BY <1>5, <1>9, <3>1
  <2>2. CASE Len(T) <= Len(H)
    BY <1>1, <1>2, <1>6, <1>9, <2>2 DEF Ending
  <2>3. CASE Len(T) > Len(H)
    <3>1. node.kind = "branch" /\ Len(T) = Len(H) + 1
      BY <1>1, <1>2, <1>6, <1>9, <2>1, <2>3 DEF Ending
    <3>2. T[Len(T)] = <<"branch", node.id>>
      BY <1>1, <1>2, <1>6, <1>9, <3>1 DEF Ending
    <3>3. l[1] # 0
      BY <1>2, <1>4, <3>1
    <3>4. T[Len(T)] = <<"case", l[2]>> \/ T[Len(T)] = <<"map", d.nodes[l[1]].id>>
      BY <1>3, <3>3 DEF Ending
    <3>5. QED
      BY <3>2, <3>4
  <2>4. QED
    BY <1>2, <2>2, <2>3
<1>10. QED
  BY <1>7, <1>8, <1>9 DEF T, S, H

\* Which lists a list is inside of.
LEMMA ListsAroundBuilt ==
    ASSUME NEW d, IsWalk(d)
    PROVE  /\ ListsAround(d)[0] = {Root}
           /\ \A i \in Nodes(d) :
                ListsAround(d)[i] = {d.nodes[i].home} \cup ListsAround(d)[d.nodes[i].home[1]]
<1> DEFINE N == Len(d.nodes)
           V == SUBSET Lists(d)
           below == [i \in 1 .. N |-> d.nodes[i].home[1]]
           G == [x \in (1 .. N) \X V |-> {d.nodes[x[1]].home} \cup x[2]]
           start == {Root}
<1>1. N \in Nat /\ Nodes(d) = 1 .. N /\ start \in V
  BY DEF IsWalk, Lists
<1>2. ASSUME NEW i \in 1 .. N
      PROVE  d.nodes[i].home[1] \in 0 .. i - 1 /\ d.nodes[i].home \in Lists(d)
  BY <1>1, Homes
<1>3. ASSUME NEW i \in 1 .. N, NEW v \in V PROVE G[<<i, v>>] = {d.nodes[i].home} \cup v
  BY <1>3
<1>4. Descends(below, N)
  BY <1>2 DEF Descends
<1>5. Closed(G, V, N)
  <2> HIDE DEF G
  <2>1. QED
    BY <1>2, <1>3 DEF Closed
<1>6. \A i \in 1 .. N : below[i] = d.nodes[i].home[1] /\ below[i] \in 0 .. N
  BY <1>1, <1>2
<1> HIDE DEF G, below, V, start
<1>7. PICK f \in [0 .. N -> V] : Satisfies(f, start, below, G, N)
  <2> HIDE DEF N
  <2>1. QED
    BY <1>1, <1>4, <1>5, Recursion
<1>8. f = [i \in 0 .. N |-> IF i = 0 THEN {Root}
                            ELSE {d.nodes[i].home} \cup f[d.nodes[i].home[1]]]
  <2>1. f[0] = {Root}
    BY <1>7 DEF Satisfies, start
  <2>2. ASSUME NEW i \in 1 .. N PROVE f[i] = {d.nodes[i].home} \cup f[d.nodes[i].home[1]]
    <3>1. f[i] = G[<<i, f[below[i]]>>]
      BY <1>7 DEF Satisfies
    <3>2. QED
      BY <1>3, <1>6, <1>7, <3>1
  <2>3. QED
    BY <1>1, <1>7, <2>1, <2>2
<1> DEFINE s == ListsAround(d)
<1>9. s = [i \in 0 .. N |-> IF i = 0 THEN {Root}
                            ELSE {d.nodes[i].home} \cup s[d.nodes[i].home[1]]]
  BY <1>8 DEF ListsAround
<1> HIDE DEF s
<1>10. \A i \in 0 .. N : s[i] = IF i = 0 THEN {Root}
                                ELSE {d.nodes[i].home} \cup s[d.nodes[i].home[1]]
  BY <1>9
<1>11. s[0] = {Root}
  <2>1. 0 \in 0 .. N
    BY <1>1
  <2> HIDE DEF N
  <2>2. QED
    BY <1>10, <2>1
<1>12. ASSUME NEW i \in Nodes(d) PROVE s[i] = {d.nodes[i].home} \cup s[d.nodes[i].home[1]]
  <2>1. i \in 0 .. N /\ i # 0
    BY <1>1
  <2> HIDE DEF N
  <2>2. QED
    BY <1>10, <2>1
<1>13. QED
  BY <1>11, <1>12 DEF s

\* isVisible compares paths of names; it agrees with the tree of lists.
LEMMA VisibleWhereEnclosing ==
    ASSUME NEW d, IsWalk(d), UniqueIds(d), NEW l \in Lists(d)
    PROVE  \A m \in Lists(d) :
             IsVisible(ScopeOf(d, l), ScopeOf(d, m)) <=> l \in EnclosingLists(d, m)
<1> DEFINE Sees(m) == IsVisible(ScopeOf(d, l), ScopeOf(d, m))
           Agrees(m) == Sees(m) <=> l \in EnclosingLists(d, m)
           Bad == {m \in Lists(d) : ~ Agrees(m)}
           Depths == {m[1] : m \in Bad}
<1>1. Root \in Lists(d) /\ Root[1] = 0
  BY DEF Lists, Root
<1>2. \A m \in Lists(d) : m[1] \in Nat
  BY <1>1 DEF Lists, IsWalk
<1>3. Agrees(Root)
  <2>1. EnclosingLists(d, Root) = {Root}
    BY <1>1, ListsAroundBuilt DEF EnclosingLists
  <2>2. Sees(Root) <=> l = Root
    <3>1. ScopeOf(d, Root) = <<>> /\ ScopeOf(d, l) \in Paths(d) /\ <<>> \in Paths(d)
      BY <1>1, ListShape DEF Paths
    <3>2. Sees(Root) <=> ScopeOf(d, l) = <<>>
      <4> DEFINE U == {"branch", "map", "case"} \X Names(d)
                 t == ScopeOf(d, l)
      <4>1. t \in Seq(U) /\ <<>> \in Seq(U) /\ Len(<<>>) = 0
        BY <3>1 DEF Paths
      <4>2. Sees(Root) <=> IsVisible(t, <<>>)
        BY <3>1
      <4> HIDE DEF t, U, Sees
      <4>3. Len(t) \in Nat /\ (t = <<>> <=> Len(t) = 0)
        BY <4>1, EmptySeq, LenProperties
      <4>4. IsVisible(t, <<>>) <=> Len(t) <= 0 /\ \A j \in 1 .. Len(t) : <<>>[j] = t[j]
        BY <4>1, Visibility
      <4>5. Len(t) = 0 => 1 .. Len(t) = {}
        BY <4>3
      <4>6. QED
        BY <4>2, <4>3, <4>4, <4>5 DEF t
    <3>3. ScopeOf(d, l) = <<>> => l = Root
      BY <1>1, <3>1, PathsDiffer
    <3>4. QED
      BY <3>1, <3>2, <3>3
  <2>3. QED
    BY <2>1, <2>2
<1>4. ASSUME NEW m \in Lists(d), m[1] # 0, Agrees(d.nodes[m[1]].home) PROVE Agrees(m)
  <2> DEFINE home == d.nodes[m[1]].home
  <2>1. Sees(m) <=> Sees(home) \/ l = m
    BY <1>4, VisibleStep
  <2>2. m[1] \in Nodes(d)
    BY <1>4, ListShape
  <2>3. EnclosingLists(d, m) = {m} \cup EnclosingLists(d, home)
    BY <2>2, ListsAroundBuilt DEF EnclosingLists
  <2> HIDE DEF home, Sees
  <2>4. QED
    BY <1>4, <2>1, <2>3 DEF home
<1>5. Bad = {}
  <2> SUFFICES ASSUME Bad # {} PROVE FALSE
    OBVIOUS
  <2> HIDE DEF Agrees
  <2>1. Depths \in SUBSET Nat /\ Depths # {}
    BY <1>2
  <2>2. PICK k \in Depths : \A j \in Depths : k <= j
    <3> HIDE DEF Depths
    <3>1. QED
      BY <2>1, Least
  <2>3. PICK m \in Bad : m[1] = k
    BY <2>2
  <2>4. m[1] # 0
    BY <1>3, <2>3, ListShape
  <2>5. d.nodes[m[1]].home \in Lists(d) /\ d.nodes[m[1]].home[1] \in 0 .. m[1] - 1
    BY <2>3, <2>4, ListShape
  <2>6. d.nodes[m[1]].home \notin Bad
    <3> DEFINE home == d.nodes[m[1]].home
    <3>1. home[1] \in 0 .. k - 1 /\ k \in Nat
      BY <1>2, <2>3, <2>5
    <3> HIDE DEF home
    <3>2. home \notin Bad
      BY <2>2, <3>1
    <3>3. QED
      BY <3>2 DEF home
  <2>7. QED
    BY <1>4, <2>3, <2>4, <2>5, <2>6
<1>6. QED
  BY <1>5

LEMMA UniqueByCount ==
    ASSUME NEW d, IsWalk(d)
    PROVE  IsFiniteSet(Ids(d)) /\ (UniqueIds(d) <=> Cardinality(Ids(d)) = Len(d.nodes))
<1> DEFINE n == Len(d.nodes)
           f == [i \in 1 .. n |-> d.nodes[i].id]
<1>1. n \in Nat /\ Nodes(d) = 1 .. n
  BY DEF IsWalk
<1>2. IsFiniteSet(1 .. n) /\ Cardinality(1 .. n) = n
  <2> HIDE DEF n
  <2>1. IsFiniteSet(1 .. n) /\ Cardinality(1 .. n) = IF 1 > n THEN 0 ELSE n - 1 + 1
    BY <1>1, FS_Interval
  <2>2. QED
    BY <1>1, <2>1
<1>3. f \in Surjection(1 .. n, Ids(d))
  BY <1>1 DEF Surjection, Ids
<1>4. f \in Injection(1 .. n, Ids(d)) <=> UniqueIds(d)
  <2>1. \A i \in Nodes(d) : f[i] = d.nodes[i].id
    BY <1>1
  <2>2. f \in [1 .. n -> Ids(d)]
    BY <1>3 DEF Surjection
  <2> HIDE DEF f, n
  <2>3. f \in Injection(1 .. n, Ids(d)) <=> \A i, j \in 1 .. n : f[i] = f[j] => i = j
    BY <2>2 DEF Injection, IsInjective
  <2>4. QED
    BY <1>1, <2>1, <2>3 DEF UniqueIds
<1> HIDE DEF f
<1>5. /\ IsFiniteSet(Ids(d))
      /\ Cardinality(Ids(d)) = n <=> f \in Injection(1 .. n, Ids(d))
  BY <1>2, <1>3, FS_Surjection
<1>6. QED
  BY <1>4, <1>5

\* collectStepBindingIds overlooks nothing that is read.
LEMMA ReadByKind ==
    ASSUME NEW bindings, \A b \in bindings : b[1] \in BindingKinds
    PROVE  StepIds(bindings) = AllRead(bindings)
BY DEF StepIds, AllRead, BindingKinds

\* An id resolves to a node of the list or of one around it.
LEMMA ResolvedWhereReached ==
    ASSUME NEW d, IsWalk(d), UniqueIds(d), NEW list \in Lists(d), NEW id
    PROVE  Reaches(d, list, id) <=>
             id \in Ids(d) /\ IsVisible(ScopeOf(d, FirstHome(d, id)), ScopeOf(d, list))
<1>1. CASE id \notin Ids(d)
  BY <1>1 DEF Reaches, Ids
<1>2. CASE id \in Ids(d)
  <2>1. PICK i \in Nodes(d) : d.nodes[i].id = id
    BY <1>2 DEF Ids
  <2>2. \A j \in Nodes(d) : d.nodes[j].id = id => j = i
    BY <2>1 DEF UniqueIds
  <2>3. i <= i
    BY DEF IsWalk
  <2>4. FirstHome(d, id) = d.nodes[i].home
    <3> DEFINE First(k) == /\ d.nodes[k].id = id
                           /\ \A j \in Nodes(d) : d.nodes[j].id = id => k <= j
    <3>1. First(i) /\ \A k \in Nodes(d) : First(k) => k = i
      BY <2>1, <2>2, <2>3
    <3>2. (CHOOSE k \in Nodes(d) : First(k)) = i
      <4> HIDE DEF First
      <4>1. QED
        BY <3>1
    <3>3. QED
      BY <3>2 DEF FirstHome
  <2>5. Reaches(d, list, id) <=> d.nodes[i].home \in EnclosingLists(d, list)
    BY <2>1, <2>2 DEF Reaches
  <2>6. d.nodes[i].home \in Lists(d)
    BY Homes
  <2>7. QED
    BY <1>2, <2>4, <2>5, <2>6, VisibleWhereEnclosing
<1>3. QED
  BY <1>1, <1>2

\* What is yielded is yielded from a list of the node.
LEMMA YieldingLists ==
    ASSUME NEW d, IsWalk(d), NEW i \in Nodes(d), NEW y \in d.nodes[i].yields
    PROVE  <<i, y[1]>> \in Lists(d)
<1> DEFINE part == y[1]
<1>1. part \in Names(d)
  BY DEF Names
<1>2. HasList(d.nodes[i], part)
  BY DEF IsWalk
<1> HIDE DEF part
<1>3. <<i, part>> \in Lists(d)
  BY <1>1, <1>2 DEF Lists
<1>4. QED
  BY <1>3 DEF part

\* Where a reference is made.
LEMMA WhatIsReferenced ==
    ASSUME NEW d, NEW ref
    PROVE  ref \in References(d) <=>
             \/ \E i \in Nodes(d) : \E id \in ReferencedIds(d.nodes[i]) :
                  ref = <<d.nodes[i].home, id>>
             \/ \E i \in Nodes(d) : \E y \in d.nodes[i].yields : \E id \in StepIds({y[2]}) :
                  ref = <<<<i, y[1]>>, id>>
             \/ \E id \in StepIds(d.outputs) : ref = <<Root, id>>
<1> DEFINE OfNode(i) == {<<d.nodes[i].home, id>> : id \in ReferencedIds(d.nodes[i])}
           OfYield(i, y) == {<<<<i, y[1]>>, id>> : id \in StepIds({y[2]})}
           OfYields(i) == UNION {OfYield(i, y) : y \in d.nodes[i].yields}
           OfOutputs == {<<Root, id>> : id \in StepIds(d.outputs)}
           Taken == UNION {OfNode(i) : i \in Nodes(d)}
           Yielded == UNION {OfYields(i) : i \in Nodes(d)}
<1>1. References(d) = Taken \cup Yielded \cup OfOutputs
  BY DEF References
<1>2. \A i \in Nodes(d) : ref \in OfNode(i) <=>
        \E id \in ReferencedIds(d.nodes[i]) : ref = <<d.nodes[i].home, id>>
  OBVIOUS
<1>3. \A i \in Nodes(d) : \A y \in d.nodes[i].yields :
        ref \in OfYield(i, y) <=> \E id \in StepIds({y[2]}) : ref = <<<<i, y[1]>>, id>>
  OBVIOUS
<1>4. ref \in OfOutputs <=> \E id \in StepIds(d.outputs) : ref = <<Root, id>>
  OBVIOUS
<1> HIDE DEF OfNode, OfYield, OfOutputs
<1>5. \A i \in Nodes(d) : ref \in OfYields(i) <=>
        \E y \in d.nodes[i].yields : ref \in OfYield(i, y)
  OBVIOUS
<1> HIDE DEF OfYields
<1> DEFINE Some == \E i \in Nodes(d) : ref \in OfNode(i)
           Other == \E i \in Nodes(d) : ref \in OfYields(i)
<1>6. (ref \in Taken <=> Some) /\ (ref \in Yielded <=> Other)
  OBVIOUS
<1> HIDE DEF Taken, Yielded
<1>7. ref \in References(d) <=> Some \/ Other \/ ref \in OfOutputs
  BY <1>1, <1>6
<1>8. Some <=> \E i \in Nodes(d) : \E id \in ReferencedIds(d.nodes[i]) :
                 ref = <<d.nodes[i].home, id>>
  BY <1>2
<1>9. Other <=> \E i \in Nodes(d) : \E y \in d.nodes[i].yields : \E id \in StepIds({y[2]}) :
                  ref = <<<<i, y[1]>>, id>>
  BY <1>3, <1>5
<1> HIDE DEF Some, Other
<1>10. QED
  BY <1>4, <1>7, <1>8, <1>9

\* validateStepReferences decides what it is meant to decide.
LEMMA VerdictRight ==
    ASSUME NEW d, IsWalk(d)
    PROVE  ReferencesValid(d) <=> Resolvable(d)
<1>1. CASE ~ UniqueIds(d)
  BY <1>1, UniqueByCount DEF ReferencesValid, Resolvable
<1>2. CASE UniqueIds(d)
  <2> DEFINE Resolves(list, id) ==
               /\ id \in Ids(d)
               /\ IsVisible(ScopeOf(d, FirstHome(d, id)), ScopeOf(d, list))
             FromNodes == \A i \in Nodes(d) : \A id \in ReferencedIds(d.nodes[i]) :
                            Resolves(d.nodes[i].home, id)
             FromYields == \A i \in Nodes(d) : \A y \in d.nodes[i].yields :
                             \A id \in StepIds({y[2]}) : Resolves(<<i, y[1]>>, id)
             FromOutputs == \A id \in StepIds(d.outputs) : Resolves(Root, id)
  <2>1. \A list \in Lists(d) : \A id : Resolves(list, id) <=> Reaches(d, list, id)
    BY <1>2, ResolvedWhereReached
  <2> HIDE DEF Resolves
  <2>2. FromNodes <=> \A i \in Nodes(d) :
                        \A id \in d.nodes[i].dependsOn \cup AllRead(d.nodes[i].reads) :
                          Reaches(d, d.nodes[i].home, id)
    <3>1. \A i \in Nodes(d) : d.nodes[i].home \in Lists(d)
      BY Homes
    <3>2. \A i \in Nodes(d) : ReferencedIds(d.nodes[i]) =
                                d.nodes[i].dependsOn \cup AllRead(d.nodes[i].reads)
      BY ReadByKind DEF IsWalk, ReferencedIds
    <3>3. QED
      BY <2>1, <3>1, <3>2
  <2>3. FromYields <=> \A i \in Nodes(d) : \A y \in d.nodes[i].yields :
                         \A id \in AllRead({y[2]}) : Reaches(d, <<i, y[1]>>, id)
    <3>1. \A i \in Nodes(d) : \A y \in d.nodes[i].yields : <<i, y[1]>> \in Lists(d)
      BY YieldingLists
    <3>2. \A i \in Nodes(d) : \A y \in d.nodes[i].yields : StepIds({y[2]}) = AllRead({y[2]})
      BY ReadByKind DEF IsWalk
    <3>3. QED
      BY <2>1, <3>1, <3>2
  <2>4. FromOutputs <=> \A id \in AllRead(d.outputs) : Reaches(d, Root, id)
    <3>1. Root \in Lists(d) /\ StepIds(d.outputs) = AllRead(d.outputs)
      BY ReadByKind DEF IsWalk, Lists
    <3>2. QED
      BY <2>1, <3>1
  <2>5. (\A ref \in References(d) : Resolves(ref[1], ref[2])) <=>
          FromNodes /\ FromYields /\ FromOutputs
    <3>1. ASSUME NEW ref \in References(d), FromNodes, FromYields, FromOutputs
          PROVE  Resolves(ref[1], ref[2])
      <4>1. CASE \E i \in Nodes(d) : \E id \in ReferencedIds(d.nodes[i]) :
                    ref = <<d.nodes[i].home, id>>
        BY <3>1, <4>1
      <4>2. CASE \E i \in Nodes(d) : \E y \in d.nodes[i].yields : \E id \in StepIds({y[2]}) :
                    ref = <<<<i, y[1]>>, id>>
        BY <3>1, <4>2
      <4>3. CASE \E id \in StepIds(d.outputs) : ref = <<Root, id>>
        BY <3>1, <4>3
      <4>4. QED
        BY <4>1, <4>2, <4>3, WhatIsReferenced
    <3>2. ASSUME \A ref \in References(d) : Resolves(ref[1], ref[2])
          PROVE  FromNodes /\ FromYields /\ FromOutputs
      <4>1. ASSUME NEW i \in Nodes(d), NEW id \in ReferencedIds(d.nodes[i])
            PROVE  Resolves(d.nodes[i].home, id)
        <5>1. <<d.nodes[i].home, id>> \in References(d)
          BY WhatIsReferenced
        <5>2. QED
          BY <3>2, <5>1
      <4>2. ASSUME NEW i \in Nodes(d), NEW y \in d.nodes[i].yields, NEW id \in StepIds({y[2]})
            PROVE  Resolves(<<i, y[1]>>, id)
        <5>1. <<<<i, y[1]>>, id>> \in References(d)
          BY WhatIsReferenced
        <5>2. QED
          BY <3>2, <5>1
      <4>3. ASSUME NEW id \in StepIds(d.outputs) PROVE Resolves(Root, id)
        <5>1. <<Root, id>> \in References(d)
          BY WhatIsReferenced
        <5>2. QED
          BY <3>2, <5>1
      <4>4. QED
        BY <4>1, <4>2, <4>3
    <3>3. QED
      BY <3>1, <3>2
  <2>6. ReferencesValid(d) <=> \A ref \in References(d) : Resolves(ref[1], ref[2])
    BY <1>2, UniqueByCount DEF ReferencesValid, Resolves
  <2> HIDE DEF FromNodes, FromYields, FromOutputs
  <2>7. QED
    BY <1>2, <2>2, <2>3, <2>4, <2>5, <2>6 DEF Resolvable
<1>3. QED
  BY <1>1, <1>2

\* The nodes that can be promoted once these ids are complete.
Promoted(d, done) ==
    {d.nodes[i].id : i \in {i \in Nodes(d) : Dependencies(d.nodes[i]) \subseteq done}}

\* How promotion goes on, round after round.
LEMMA RoundsBuilt ==
    ASSUME NEW d, IsWalk(d)
    PROVE  /\ Rounds(d)[0] = {}
           /\ \A n \in 1 .. Len(d.nodes) : Rounds(d)[n] = Promoted(d, Rounds(d)[n - 1])
<1> DEFINE N == Len(d.nodes)
           V == SUBSET Ids(d)
           below == [n \in 1 .. N |-> n - 1]
           G == [x \in (1 .. N) \X V |-> Promoted(d, x[2])]
           none == {}
<1>1. N \in Nat /\ none \in V
  BY DEF IsWalk
<1>2. ASSUME NEW n \in 1 .. N, NEW v \in V
      PROVE  G[<<n, v>>] = Promoted(d, v) /\ Promoted(d, v) \in V
  <2>1. G[<<n, v>>] = Promoted(d, v)
    BY <1>2
  <2>2. Promoted(d, v) \in V
    BY DEF Promoted, Ids
  <2>3. QED
    BY <2>1, <2>2
<1>3. Descends(below, N)
  BY <1>1 DEF Descends
<1>4. \A n \in 1 .. N : below[n] = n - 1 /\ n - 1 \in 0 .. N
  BY <1>1
<1> HIDE DEF G, below, V, none
<1>5. Closed(G, V, N)
  BY <1>2 DEF Closed
<1>6. PICK f \in [0 .. N -> V] : Satisfies(f, none, below, G, N)
  <2> HIDE DEF N
  <2>1. QED
    BY <1>1, <1>3, <1>5, Recursion
<1>7. f = [n \in 0 .. N |-> IF n = 0 THEN {} ELSE Promoted(d, f[n - 1])]
  <2>1. f[0] = {}
    BY <1>6 DEF Satisfies, none
  <2>2. ASSUME NEW n \in 1 .. N PROVE f[n] = Promoted(d, f[n - 1])
    <3>1. f[n] = G[<<n, f[below[n]]>>]
      BY <1>6 DEF Satisfies
    <3>2. below[n] = n - 1 /\ f[n - 1] \in V
      BY <1>4, <1>6
    <3>3. QED
      BY <1>2, <3>1, <3>2
  <2>3. QED
    BY <1>1, <1>6, <2>1, <2>2
<1> DEFINE s == Rounds(d)
<1>8. s = [n \in 0 .. N |-> IF n = 0 THEN {} ELSE Promoted(d, s[n - 1])]
  BY <1>7 DEF Rounds, Promoted
<1> HIDE DEF s
<1>9. \A n \in 0 .. N : s[n] = IF n = 0 THEN {} ELSE Promoted(d, s[n - 1])
  BY <1>8
<1>10. s[0] = {}
  <2>1. 0 \in 0 .. N
    BY <1>1
  <2> HIDE DEF N
  <2>2. QED
    BY <1>9, <2>1
<1>11. ASSUME NEW n \in 1 .. N PROVE s[n] = Promoted(d, s[n - 1])
  <2>1. n \in 0 .. N /\ n # 0
    BY <1>1
  <2> HIDE DEF N
  <2>2. QED
    BY <1>9, <2>1
<1>12. QED
  BY <1>10, <1>11 DEF s

\* Who waits for another of the same set is in no round.
LEMMA CyclesStay ==
    ASSUME NEW d, IsWalk(d), Resolvable(d), Cyclic(d)
    PROVE  Completed(d) # Ids(d)
<1> DEFINE N == Len(d.nodes)
           r == Rounds(d)
<1>1. N \in Nat /\ Nodes(d) = 1 .. N
  BY DEF IsWalk
<1>2. PICK some \in (SUBSET Nodes(d)) \ {{}} : \A i \in some : \E j \in some :
        d.nodes[j].id \in d.nodes[i].dependsOn \cup AllRead(d.nodes[i].reads)
  BY DEF Cyclic
<1>3. \A i \in Nodes(d) : Dependencies(d.nodes[i]) =
                            d.nodes[i].dependsOn \cup AllRead(d.nodes[i].reads)
  BY ReadByKind DEF IsWalk, Dependencies, ReferencedIds
<1>4. r[0] = {} /\ \A n \in 1 .. N : r[n] = Promoted(d, r[n - 1])
  BY RoundsBuilt
<1> HIDE DEF r
<1> DEFINE Bad == {n \in 0 .. N : \E i \in some : d.nodes[i].id \in r[n]}
<1>5. Bad = {}
  <2> SUFFICES ASSUME Bad # {} PROVE FALSE
    OBVIOUS
  <2>1. PICK n \in Bad : \A m \in Bad : n <= m
    <3>1. Bad \in SUBSET Nat
      OBVIOUS
    <3> HIDE DEF Bad
    <3>2. QED
      BY <3>1, Least
  <2>2. PICK i \in some : d.nodes[i].id \in r[n]
    BY <2>1
  <2>3. n \in 1 .. N /\ n - 1 \in 0 .. N /\ ~ (n <= n - 1)
    BY <1>1, <1>4, <2>1, <2>2
  <2>4. PICK k \in Nodes(d) : /\ d.nodes[k].id = d.nodes[i].id
                              /\ Dependencies(d.nodes[k]) \subseteq r[n - 1]
    <3>1. d.nodes[i].id \in Promoted(d, r[n - 1])
      BY <1>4, <2>2, <2>3
    <3>2. QED
      BY <3>1 DEF Promoted
  <2>5. k = i
    BY <1>2, <2>4 DEF Resolvable, UniqueIds
  <2>6. PICK j \in some : d.nodes[j].id \in Dependencies(d.nodes[i])
    BY <1>2, <1>3
  <2>7. n - 1 \in Bad
    BY <2>3, <2>4, <2>5, <2>6
  <2>8. QED
    BY <2>1, <2>3, <2>7
<1>6. PICK i \in some : TRUE
  BY <1>2
<1>7. d.nodes[i].id \in Ids(d) /\ d.nodes[i].id \notin r[N]
  <2>1. N \in 0 .. N
    BY <1>1
  <2>2. QED
    BY <1>2, <1>5, <2>1 DEF Ids
<1>8. QED
  BY <1>7 DEF Completed, r

\* A round that promotes nothing new has left out some that wait for each other.
LEMMA StuckRound ==
    ASSUME NEW d, IsWalk(d), Resolvable(d), NEW done \in SUBSET Ids(d),
           Promoted(d, done) \subseteq done, done # Ids(d)
    PROVE  Cyclic(d)
<1> DEFINE some == {i \in Nodes(d) : d.nodes[i].id \notin done}
<1>1. some # {} /\ some \in SUBSET Nodes(d)
  BY DEF Ids
<1>2. ASSUME NEW i \in some
      PROVE  \E j \in some : d.nodes[j].id \in d.nodes[i].dependsOn \cup AllRead(d.nodes[i].reads)
  <2>1. i \in Nodes(d) /\ d.nodes[i].id \notin Promoted(d, done)
    OBVIOUS
  <2>2. ~ (Dependencies(d.nodes[i]) \subseteq done)
    BY <2>1 DEF Promoted
  <2>3. PICK id \in Dependencies(d.nodes[i]) : id \notin done
    BY <2>2
  <2>4. id \in d.nodes[i].dependsOn \cup AllRead(d.nodes[i].reads)
    BY <2>1, <2>3, ReadByKind DEF IsWalk, Dependencies, ReferencedIds
  <2>5. PICK j \in Nodes(d) : d.nodes[j].id = id
    BY <2>1, <2>4 DEF Resolvable, Reaches
  <2>6. QED
    BY <2>3, <2>4, <2>5
<1> HIDE DEF some
<1>3. QED
  BY <1>1, <1>2 DEF Cyclic

\* Without a cycle, every round completes another node until all are.
LEMMA RoundsSuffice ==
    ASSUME NEW d, IsWalk(d), Resolvable(d), ~ Cyclic(d)
    PROVE  Completed(d) = Ids(d)
<1> DEFINE N == Len(d.nodes)
           r == Rounds(d)
           all == Ids(d)
           Grown(n) == /\ r[n] \in SUBSET all
                       /\ n # 0 => r[n - 1] \subseteq r[n]
                       /\ r[n] = all \/ n <= Cardinality(r[n])
           Bad == {n \in 0 .. N : ~ Grown(n)}
<1>1. N \in Nat /\ Nodes(d) = 1 .. N
  BY DEF IsWalk
<1>2. r[0] = {} /\ \A n \in 1 .. N : r[n] = Promoted(d, r[n - 1])
  BY RoundsBuilt
<1>3. IsFiniteSet(all) /\ Cardinality(all) = N
  BY UniqueByCount DEF Resolvable
<1>4. Promoted(d, r[0]) \in SUBSET all /\ \A done : Promoted(d, done) \in SUBSET all
  BY DEF Promoted, Ids
<1>5. \A done : done \in SUBSET all /\ Promoted(d, done) \subseteq done => done = all
  BY StuckRound
<1>6. \A done : done \in SUBSET all => IsFiniteSet(done) /\ Cardinality(done) \in Nat
  <2> HIDE DEF all
  <2>1. QED
    BY <1>3, FS_Subset, FS_CardinalityType
<1>7. \A done, more : done \subseteq more => Promoted(d, done) \subseteq Promoted(d, more)
  BY DEF Promoted
<1> HIDE DEF r, all
<1>8. Grown(0)
  BY <1>2, FS_EmptySet
<1>9. ASSUME NEW n \in 1 .. N, Grown(n - 1), n # 1 => r[n - 2] \subseteq r[n - 1] PROVE Grown(n)
  <2> DEFINE p == n - 1
  <2>1. p \in 0 .. N /\ r[n] = Promoted(d, r[p]) /\ n - 1 = p
    BY <1>1, <1>2
  <2>2. r[p] \subseteq r[n]
    <3>1. CASE n = 1
      BY <1>2, <3>1
    <3>2. CASE n # 1
      <4>1. p \in 1 .. N /\ p - 1 = n - 2
        BY <1>1, <3>2
      <4>2. r[p] = Promoted(d, r[n - 2])
        BY <1>2, <4>1
      <4>3. QED
        BY <1>7, <1>9, <2>1, <3>2, <4>2
    <3>3. QED
      BY <3>1, <3>2
  <2>3. r[n] \in SUBSET all /\ r[p] \in SUBSET all /\ (r[p] = all \/ p <= Cardinality(r[p]))
    BY <1>4, <1>9, <2>1
  <2>4. CASE r[p] = all
    BY <2>1, <2>2, <2>3, <2>4
  <2>5. CASE r[p] # all
    <3>1. r[n] # r[p]
      BY <1>5, <2>1, <2>3, <2>5
    <3>2. Cardinality(r[p]) <= Cardinality(r[n]) /\ Cardinality(r[p]) # Cardinality(r[n])
      BY <1>6, <2>2, <2>3, <3>1, FS_Subset
    <3>3. Cardinality(r[p]) \in Nat /\ Cardinality(r[n]) \in Nat
      BY <1>6, <2>3
    <3>4. n <= Cardinality(r[n])
      BY <1>1, <2>3, <2>5, <3>2, <3>3
    <3>5. QED
      BY <2>1, <2>2, <2>3, <3>4
  <2>6. QED
    BY <2>4, <2>5
<1>10. Bad = {}
  <2> SUFFICES ASSUME Bad # {} PROVE FALSE
    OBVIOUS
  <2> HIDE DEF Grown
  <2>1. PICK n \in Bad : \A m \in Bad : n <= m
    <3>1. Bad \in SUBSET Nat
      OBVIOUS
    <3> HIDE DEF Bad
    <3>2. QED
      BY <3>1, Least
  <2>2. n \in 1 .. N /\ n - 1 \in 0 .. N /\ ~ (n <= n - 1)
    BY <1>1, <1>8, <2>1
  <2>3. Grown(n - 1)
    BY <2>1, <2>2
  <2>4. n # 1 => r[n - 2] \subseteq r[n - 1]
    <3>1. n - 1 - 1 = n - 2 /\ (n # 1 => n - 1 # 0)
      BY <2>2
    <3>2. QED
      BY <2>3, <3>1 DEF Grown
  <2>5. QED
    BY <1>9, <2>1, <2>2, <2>3, <2>4
<1>11. Grown(N)
  <2>1. N \in 0 .. N
    BY <1>1
  <2> HIDE DEF Grown
  <2>2. QED
    BY <1>10, <2>1
<1>12. r[N] = all
  <2>1. r[N] \in SUBSET all /\ (r[N] = all \/ N <= Cardinality(r[N]))
    BY <1>11
  <2>2. Cardinality(r[N]) <= Cardinality(all) /\ (Cardinality(r[N]) = Cardinality(all) => all = r[N])
    BY <1>3, <2>1, FS_Subset
  <2>3. QED
    BY <1>1, <1>3, <1>6, <2>1, <2>2
<1>13. QED
  BY <1>12 DEF Completed, r, all

\* compile() looks at its document once, before it reads anything.
LEMMA VerdictKeeps ==
    ASSUME VerdictInvariant, [Next]_vars
    PROVE  VerdictInvariant'
<1>1. document' = document
  BY DEF Next, Compile, Work, Validate, ReadImage, ListFunctions, JudgeStep, Answer,
         ReadFacts, Dispatch, Execute, vars, compiler
<1>2. CASE UNCHANGED stage
  BY <1>1, <1>2 DEF VerdictInvariant
<1>3. CASE Validate
  <2>1. stage = "start"
        /\ stage' = IF WellFormed(document) /\ ReferencesValid(document) THEN "services" ELSE "refused"
    BY <1>3 DEF Validate
  <2>2. QED
    BY <1>1, <2>1 DEF VerdictInvariant
<1>4. CASE ReadImage \/ ListFunctions \/ Answer
  <2>1. /\ stage \in {"services", "listing"}
        /\ stage' = stage \/ stage' \in {"services", "listing", "accepted", "unknown services"}
    BY <1>4 DEF ReadImage, ListFunctions, Answer
  <2>2. QED
    BY <1>1, <2>1 DEF VerdictInvariant
<1>5. QED
  BY <1>2, <1>3, <1>4 DEF Next, Compile, Work, JudgeStep, ReadFacts, Dispatch, Execute, vars, compiler

\* --------------------------------------------------------------- the theorems

LEMMA Initially ==
    ASSUME Init
    PROVE  InductiveInvariant
<1> USE RegistryAssumption, WorkloadsAssumption
<1>1. PICK w \in Workloads : /\ submission \in w.submissions
                             /\ document \in w.documents
  BY DEF Init
<1>2. RegistryInit /\ judged = {} /\ entries = [d \in Digests |-> Unread] /\ faulty = FALSE
      /\ stage = (IF document = Nothing THEN "unused" ELSE "start")
  BY DEF Init
<1>3. /\ image = [d \in Digests |-> NoImage]
      /\ functions = [d \in Digests |-> [f \in {} |-> Nobody]]
      /\ lock = [d \in Digests |-> Nobody]
      /\ pc = [r \in Registrations |-> IF submission[r] = Nothing THEN "unused" ELSE "idle"]
      /\ draft = [r \in Registrations |-> Nothing]
      /\ verdicts = [d \in Digests |-> <<>>]
  BY <1>2 DEF RegistryInit
<1>4. \A r \in Registrations : pc[r] \in {"unused", "idle"} /\ ~ Writing(r)
  BY <1>3 DEF Writing
<1>5. RegistryTypeOK
  <2>1. functions = [d \in Digests |-> functions[d]] /\ draft = [r \in Registrations |-> draft[r]]
    BY <1>3
  <2>2. verdicts \in [Digests -> Seq(TrustTiers)]
    BY <1>3
  <2>3. pc \in [Registrations -> {"unused", "idle", "refused", "upserted", "replaced",
                                  "committed", "rolled back"}]
    BY <1>3
  <2>4. /\ image \in [Digests -> Images \cup {NoImage}]
        /\ lock \in [Digests -> Registrations \cup {Nobody}]
    BY <1>3
  <2>5. QED
    BY <1>4, <2>1, <2>2, <2>3, <2>4 DEF RegistryTypeOK
<1>6. WritersHoldTheLock
  <2>1. \A r \in Registrations : pc[r] # "unused" => Digest(r) \in Digests
    BY <1>1, <1>3 DEF Digest
  <2>2. QED
    BY <1>3, <1>4, <2>1 DEF WritersHoldTheLock
<1>7. RowsCommitted /\ DraftsCurrent /\ EntryFromOneRegistration /\ TierIsLastVerdict
  BY <1>3, <1>4 DEF RowsCommitted, DraftsCurrent, EntryFromOneRegistration, TierIsLastVerdict
<1>8. CompilerInvariant
  <2>1. ASSUME stage # "unused"
        PROVE  Steps \subseteq Nat /\ \A i \in Steps : document.nodes[i].service \in Digests
    <3>1. document \in w.documents \ {Nothing}
      BY <1>1, <1>2, <2>1
    <3>2. QED
      BY <3>1 DEF Steps, IsWalk
  <2>2. EntriesOfOneRegistration /\ JudgedKnown
    BY <1>2 DEF EntriesOfOneRegistration, JudgedKnown, Read
  <2>3. QED
    BY <1>2, <2>1, <2>2 DEF CompilerInvariant
<1>9. QED
  BY <1>5, <1>6, <1>7, <1>8 DEF InductiveInvariant, RegistryInvariant

LEMMA Inductive ==
    ASSUME InductiveInvariant, [Next]_vars
    PROVE  InductiveInvariant'
<1>1. RegistryInvariant /\ CompilerInvariant
  BY DEF InductiveInvariant
<1>2. CASE RegistryNext /\ UNCHANGED <<compiler, worker>>
  BY <1>1, <1>2, RegistryKeeps, CompilerUndisturbed DEF InductiveInvariant
<1>3. CASE Compile
  <2>1. UNCHANGED registry
    BY <1>3 DEF Compile, Validate, ReadImage, ListFunctions, JudgeStep, Answer
  <2>2. RegistryInvariant'
    BY <1>1, <2>1, RegistryUnchanged
  <2>3. CompilerInvariant'
    BY <1>1, <1>3, ValidateKeeps, ReadImageKeeps, ListFunctionsKeeps, JudgeStepKeeps, AnswerKeeps
       DEF Compile
  <2>4. QED
    BY <2>2, <2>3 DEF InductiveInvariant
<1>4. CASE Work \/ UNCHANGED vars
  <2>1. UNCHANGED <<registry, compiler>>
    BY <1>4 DEF Work, ReadFacts, Dispatch, Execute, vars
  <2>2. QED
    BY <1>1, <2>1, RegistryUnchanged, CompilerUndisturbed DEF InductiveInvariant
<1>5. QED
  BY <1>2, <1>3, <1>4 DEF Next

THEOREM InvariantHolds == Spec => []InductiveInvariant
<1>1. QED
  BY Initially, Inductive, PTL DEF Spec

\* The rows of an image are those of the registration its image row is from, however
\* many registrations of it interleave, fail and are rolled back
\* (replaceForDigest, src/registry/repositories/admin.ts).
THEOREM EntryFromOneRegistrationHolds == Spec => []EntryFromOneRegistration
<1>1. InductiveInvariant => EntryFromOneRegistration
  BY DEF InductiveInvariant, RegistryInvariant
<1>2. QED
  BY <1>1, InvariantHolds, PTL

\* An image has the last tier recorded for it: no registration under way resets
\* it or brings an older one back (the upsert of admin.ts, conformance.ts).
THEOREM TierIsLastVerdictHolds == Spec => []TierIsLastVerdict
<1>1. InductiveInvariant => TierIsLastVerdict
  BY DEF InductiveInvariant, RegistryInvariant
<1>2. QED
  BY <1>1, InvariantHolds, PTL

\* The functions an accepted document calls on an image are all of one committed
\* registration, for any document and any registrations between compile()'s
\* reads: each digest's entry is read once, and each read is of one registration.
THEOREM AcceptedByOneRegistrationHolds == Spec => []AcceptedByOneRegistration
<1>1. ASSUME InductiveInvariant PROVE AcceptedByOneRegistration
  <2> SUFFICES ASSUME stage = "accepted",
                      NEW d \in {document.nodes[i].service : i \in Steps}
               PROVE  \E r \in Registrations :
                        /\ pc[r] = "committed" /\ Digest(r) = d
                        /\ {document.nodes[i].function :
                              i \in {i \in Steps : document.nodes[i].service = d}}
                             \subseteq DOMAIN Submitted(r)
    BY DEF AcceptedByOneRegistration
  <2>1. CompilerInvariant
    BY <1>1 DEF InductiveInvariant
  <2>2. \A i \in Steps : i \in judged
    BY <2>1 DEF CompilerInvariant, Left
  <2>3. \A i \in Steps : /\ document.nodes[i].service \in Digests
                         /\ Read(document.nodes[i].service)
                         /\ document.nodes[i].function \in entries[document.nodes[i].service]
    BY <2>1, <2>2 DEF CompilerInvariant, JudgedKnown
  <2>4. d \in Digests /\ Read(d)
    BY <2>3
  <2>5. PICK r \in Registrations : pc[r] = "committed" /\ Digest(r) = d
                                   /\ entries[d] = DOMAIN Submitted(r)
    BY <2>1, <2>4 DEF CompilerInvariant, EntriesOfOneRegistration
  <2>6. {document.nodes[i].function : i \in {i \in Steps : document.nodes[i].service = d}}
          \subseteq DOMAIN Submitted(r)
    BY <2>3, <2>5
  <2>7. QED
    BY <2>5, <2>6
<1>2. QED
  BY <1>1, InvariantHolds, PTL

\* What the worker and the agent go by is what was validated and registered, for
\* any submissions, calls and workloads.
THEOREM DispatchInvariantHolds == Spec => [](InductiveInvariant /\ DispatchInvariant)
<1>1. ASSUME Init PROVE DispatchInvariant
  <2>1. PICK w \in Workloads : submission \in w.submissions /\ call \in w.calls
    BY <1>1 DEF Init
  <2>2. /\ pc = [r \in Registrations |-> IF submission[r] = Nothing THEN "unused" ELSE "idle"]
        /\ facts = Unread /\ request = NotYet /\ command = NotYet
    BY <1>1 DEF Init, RegistryInit
  <2>3. /\ \A r \in Registrations : pc[r] # "unused" =>
             \A f \in DOMAIN Submitted(r) : IsList(Submitted(r)[f].descriptor)
        /\ \A r \in Registrations : ~ (Writing(r) \/ pc[r] = "committed")
    BY <2>1, <2>2, WorkloadsAssumption DEF Submitted, Writing
  <2>4. call # Nothing => call.digest \in Digests
    BY <2>1, WorkloadsAssumption
  <2>5. QED
    BY <2>2, <2>3, <2>4 DEF DispatchInvariant
<1>2. QED
  BY <1>1, DispatchKeeps, InvariantHolds, PTL DEF Spec

\* Whatever is registered can be called: bound to absolute paths of files that can be
\* opened, every heavy binding reaches its declared place, once and in its order.
THEOREM HeavyBindingsDeliveredHolds == Spec => []HeavyBindingsDelivered
<1>1. ASSUME DispatchInvariant PROVE HeavyBindingsDelivered
  <2> DEFINE d == Capability.descriptor
             in == call.input
             req == InvokeRequest(in, Capability, call.hash)
  <2> SUFFICES ASSUME request # NotYet, ProperInput(d)
               PROVE  /\ request # Rejected
                      /\ command # NotYet =>
                           /\ command # Rejected
                           /\ \A i \in DOMAIN d : Delivered(d[i], d)
    BY DEF HeavyBindingsDelivered
  <2>1. request = req
    BY <1>1 DEF DispatchInvariant
  <2>2. IsList(d) /\ ValidDescriptor(d) /\ Renderable(Capability)
    BY <1>1, CapabilityRenderable DEF Renderable
  <2>3. \A i \in DOMAIN d : in[d[i].param] = "path" /\ i \in Present(in, d)
    BY DEF ProperInput, HeavyParams, Present, Bound
  <2>4. req # Rejected
    <3>1. \A i \in Present(in, d) : HeavyPath(in[d[i].param])
      BY <2>3 DEF Present, HeavyPath
    <3>2. ~ PositionTwice(in, d)
      BY <2>2 DEF PositionTwice, Positional, Present, ValidDescriptor
    <3>3. \A p \in LightParams(in, d) : p \in FlagNames /\ SafeArg(in[p])
      BY DEF ProperInput
    <3>4. req = [args |-> {<<p, Value(in, p)>> : p \in LightParams(in, d)},
                 dataFiles |-> DataFiles(in, Capability, call.hash),
                 positionalArgs |-> PositionalArgs(in, d)]
      BY <3>1, <3>2, <3>3 DEF InvokeRequest
    <3>5. "args" \in DOMAIN req /\ "args" \notin DOMAIN Rejected
      BY <3>4 DEF Rejected
    <3>6. QED
      BY <3>5
  <2> SUFFICES ASSUME command # NotYet
               PROVE  command # Rejected /\ \A i \in DOMAIN d : Delivered(d[i], d)
    BY <2>1, <2>4
  <2>5. /\ req.dataFiles = DataFiles(in, Capability, call.hash)
        /\ req.positionalArgs = PositionalArgs(in, d)
        /\ ~ PositionTwice(in, d)
        /\ \A i \in Positional(in, d) : d[i].position \in Nat
        /\ Streamed(req) = {i \in Present(in, d) : d[i].style = "stdin"}
        /\ Flagged(req) = {i \in Present(in, d) : d[i].style = "flag"}
        /\ Streamed(req) # {} =>
             \E i \in Streamed(req) : StdinFile(req) = Value(in, d[i].param)
        /\ AgentAccepts(req) <=> StdinOpens(req)
    BY <2>2, <2>4, RequestRendered
  <2>6. AgentAccepts(req)
    <3>1. CASE Streamed(req) = {}
      BY <2>5, <3>1 DEF StdinFile, StdinOpens
    <3>2. CASE Streamed(req) # {}
      <4>1. PICK i \in Streamed(req) : StdinFile(req) = Value(in, d[i].param)
        BY <2>5, <3>2
      <4>2. i \in DOMAIN d
        BY <2>5, <4>1 DEF Present
      <4>3. StdinFile(req)[2] = "path"
        BY <2>3, <4>1, <4>2 DEF Value
      <4>4. QED
        BY <2>5, <4>3 DEF StdinOpens
    <3>3. QED
      BY <3>1, <3>2
  <2>7. command = Command(req)
    BY <1>1, <2>1, <2>6 DEF DispatchInvariant
  <2>8. /\ command.files = [i \in Flagged(req) |->
                              <<req.dataFiles[i].flag[2], req.dataFiles[i].path>>]
        /\ command.positional = req.positionalArgs
        /\ command.stdin = StdinFile(req)
        /\ "args" \in DOMAIN command
    BY <2>7 DEF Command
  <2>9. command # Rejected
    BY <2>8 DEF Rejected
  <2> HIDE DEF d, in, req
  <2>10. ASSUME NEW i \in DOMAIN d, NEW k \in DOMAIN d, d[i].param = d[k].param
         PROVE  i = k
    BY <2>2, <2>10 DEF ValidDescriptor
  <2>11. ASSUME NEW i \in DOMAIN d, d[i].style = "flag"
         PROVE  Cardinality({k \in DOMAIN command.files :
                               command.files[k] = <<d[i].flag[2], Value(in, d[i].param)>>}) = 1
    <3>1. \A k \in Flagged(req) :
            /\ k \in DOMAIN d /\ d[k].style = "flag"
            /\ command.files[k] = <<d[k].flag[2], Value(in, d[k].param)>>
      <4> SUFFICES ASSUME NEW k \in Flagged(req)
                   PROVE  /\ k \in DOMAIN d /\ d[k].style = "flag"
                          /\ command.files[k] = <<d[k].flag[2], Value(in, d[k].param)>>
        OBVIOUS
      <4>1. k \in Present(in, d) /\ d[k].style = "flag" /\ k \in DOMAIN d
        BY <2>5 DEF Present
      <4>2. k \in DOMAIN DataFiles(in, Capability, call.hash)
        BY <2>5 DEF Flagged
      <4>3. /\ DataFiles(in, Capability, call.hash)[k].flag = d[k].flag
            /\ DataFiles(in, Capability, call.hash)[k].path = Value(in, d[k].param)
        BY <4>1, <4>2 DEF DataFiles, d
      <4>4. command.files[k] = <<req.dataFiles[k].flag[2], req.dataFiles[k].path>>
        BY <2>8
      <4>5. QED
        BY <2>5, <4>1, <4>3, <4>4
    <3>2. i \in Flagged(req) /\ DOMAIN command.files = Flagged(req)
      BY <2>3, <2>5, <2>8, <2>11
    <3>3. \A k \in Flagged(req) :
            command.files[k] = <<d[i].flag[2], Value(in, d[i].param)>> => k = i
      BY <2>10, <3>1 DEF Value
    <3>4. {k \in DOMAIN command.files :
             command.files[k] = <<d[i].flag[2], Value(in, d[i].param)>>} = {i}
      BY <3>1, <3>2, <3>3
    <3>5. QED
      BY <3>4, FS_Singleton
  <2>12. ASSUME NEW i \in DOMAIN d, d[i].style = "positional"
         PROVE  \E n \in DOMAIN command.positional :
                  /\ command.positional[n] = Value(in, d[i].param)
                  /\ \A k \in DOMAIN d :
                       d[k].style = "positional" /\ d[k].position < d[i].position =>
                         \E m \in 1 .. n - 1 :
                            command.positional[m] = Value(in, d[k].param)
    <3> DEFINE place(k) == Cardinality(Before(in, d, k)) + 1
    <3>1. \A k \in DOMAIN d : d[k].style = "positional" => k \in Positional(in, d)
      BY <2>3 DEF Positional
    <3>2. /\ \A k \in Positional(in, d) :
               /\ place(k) \in DOMAIN command.positional
               /\ command.positional[place(k)] = Value(in, d[k].param)
          /\ \A j, k \in Positional(in, d) : d[k].position < d[j].position =>
               place(k) \in 1 .. place(j) - 1
      BY <2>2, <2>5, <2>8, ArgumentsRanked
    <3> HIDE DEF place
    <3>3. QED
      BY <2>12, <3>1, <3>2
  <2>13. ASSUME NEW i \in DOMAIN d, d[i].style = "stdin"
         PROVE  command.stdin = Value(in, d[i].param)
    <3>1. i \in Streamed(req)
      BY <2>3, <2>5, <2>13
    <3>2. PICK k \in Streamed(req) : StdinFile(req) = Value(in, d[k].param)
      BY <2>5, <3>1
    <3>3. k \in DOMAIN d /\ d[k].style = "stdin"
      BY <2>5, <3>2 DEF Present
    <3>4. i = k
      BY <2>2, <2>13, <3>3 DEF ValidDescriptor
    <3>5. QED
      BY <2>8, <3>2, <3>4
  <2>14. ASSUME NEW i \in DOMAIN d PROVE Delivered(d[i], d)
    <3>1. d[i].style \in {"flag", "positional", "stdin"}
      BY <2>2 DEF ValidDescriptor, ValidEntry, Styles
    <3>2. CASE d[i].style = "flag"
      BY <2>11, <3>2 DEF Delivered, in
    <3>3. CASE d[i].style = "positional"
      BY <2>12, <3>3 DEF Delivered, in
    <3>4. CASE d[i].style = "stdin"
      BY <2>13, <3>4 DEF Delivered, in
    <3>5. QED
      BY <3>1, <3>2, <3>3, <3>4
  <2>15. QED
    BY <2>9, <2>14
<1>2. QED
  BY <1>1, DispatchInvariantHolds, PTL

\* The agent's own checks turn down nothing the worker has let through, but for a file
\* to be streamed: that needs an absolute path, and one that can be opened.
THEOREM AgentSecondsTheWorkerHolds == Spec => []AgentSecondsTheWorker
<1>1. ASSUME DispatchInvariant, command = Rejected
      PROVE  StdinFile(request) # Nothing /\ StdinFile(request)[2] \in {"relative", "missing"}
  <2> DEFINE d == Capability.descriptor
             in == call.input
             req == InvokeRequest(in, Capability, call.hash)
  <2>1. command # NotYet
    BY <1>1, WorkloadsAssumption DEF NotYet
  <2>2. /\ request = req /\ req # Rejected
        /\ command = IF AgentAccepts(req) THEN Command(req) ELSE Rejected
    BY <1>1, <2>1 DEF DispatchInvariant
  <2>3. Renderable(Capability)
    BY <1>1, CapabilityRenderable
  <2>4. /\ \A i \in Present(in, d) : HeavyPath(in[d[i].param])
        /\ Streamed(req) = {i \in Present(in, d) : d[i].style = "stdin"}
        /\ Streamed(req) # {} =>
             \E i \in Streamed(req) : StdinFile(req) = Value(in, d[i].param)
        /\ AgentAccepts(req) <=> StdinOpens(req)
    BY <2>2, <2>3, RequestRendered
  <2>5. "args" \in DOMAIN Command(req) /\ "args" \notin DOMAIN Rejected
    BY DEF Command, Rejected
  <2>6. ~ AgentAccepts(req)
    BY <1>1, <2>2, <2>5
  <2>7. StdinFile(req) # Nothing /\ StdinFile(req)[2] # "path"
    BY <2>4, <2>6 DEF StdinOpens
  <2>8. Streamed(req) # {}
    BY <2>7 DEF StdinFile
  <2>9. PICK i \in Streamed(req) : StdinFile(req) = Value(in, d[i].param)
    BY <2>4, <2>8
  <2>10. in[d[i].param] \in {"path", "missing", "relative"}
    BY <2>4, <2>9 DEF HeavyPath
  <2>11. StdinFile(req)[2] = in[d[i].param]
    BY <2>9 DEF Value
  <2>12. QED
    BY <2>2, <2>7, <2>10, <2>11
<1>2. DispatchInvariant => AgentSecondsTheWorker
  BY <1>1 DEF AgentSecondsTheWorker
<1>3. QED
  BY <1>2, DispatchInvariantHolds, PTL

\* A function that reuses state has no positional entry, so each of its heavy
\* bindings travels as a data file with the content hash.
THEOREM StateIdAccompaniesBindingsHolds == Spec => []StateIdAccompaniesBindings
<1>1. ASSUME DispatchInvariant PROVE StateIdAccompaniesBindings
  <2> DEFINE d == Capability.descriptor
             in == call.input
             req == InvokeRequest(in, Capability, call.hash)
  <2> SUFFICES ASSUME request \notin {NotYet, Rejected},
                      Capability.stateReuse = "stateIdKeyed",
                      NEW p \in HeavyParams(d), Bound(in, p)
               PROVE  \E i \in DOMAIN request.dataFiles :
                         /\ request.dataFiles[i].path = Value(in, p)
                         /\ request.dataFiles[i].stateId = call.hash
    BY DEF StateIdAccompaniesBindings
  <2>1. request = req
    BY <1>1 DEF DispatchInvariant
  <2>2. /\ Renderable(Capability)
        /\ \A i \in DOMAIN d : d[i].style # "positional"
    BY <1>1, CapabilityRenderable
  <2>3. req.dataFiles = DataFiles(in, Capability, call.hash)
    BY <2>1, <2>2, RequestRendered
  <2>4. PICK i \in DOMAIN d : d[i].param = p
    BY DEF HeavyParams
  <2>5. i \in Present(in, d) \ Positional(in, d)
    BY <2>2, <2>4 DEF Present, Positional
  <2>6. /\ i \in DOMAIN DataFiles(in, Capability, call.hash)
        /\ DataFiles(in, Capability, call.hash)[i].path = Value(in, p)
        /\ DataFiles(in, Capability, call.hash)[i].stateId = call.hash
    BY <2>4, <2>5 DEF DataFiles
  <2>7. QED
    BY <2>1, <2>3, <2>6
<1>2. QED
  BY <1>1, DispatchInvariantHolds, PTL

\* The stage tells what validateStepReferences has found, and the document is as
\* the walk lists it.
THEOREM VerdictInvariantHolds == Spec => []VerdictInvariant
<1>1. ASSUME Init PROVE VerdictInvariant
  <2>1. PICK w \in Workloads : document \in w.documents
    BY <1>1 DEF Init
  <2>2. stage = IF document = Nothing THEN "unused" ELSE "start"
    BY <1>1 DEF Init
  <2>3. document # Nothing => IsWalk(document)
    BY <2>1, WorkloadsAssumption
  <2>4. QED
    BY <2>2, <2>3 DEF VerdictInvariant
<1>2. QED
  BY <1>1, VerdictKeeps, PTL DEF Spec

\* compile() goes on with a document exactly when it is well formed and every
\* reference reaches a node, for any document: comparing scope paths of names
\* (isVisible) comes to the same as following the tree.
THEOREM AcceptsExactlyResolvableHolds == Spec => []AcceptsExactlyResolvable
<1>1. ASSUME VerdictInvariant PROVE AcceptsExactlyResolvable
  BY <1>1, VerdictRight DEF VerdictInvariant, AcceptsExactlyResolvable
<1>2. QED
  BY <1>1, VerdictInvariantHolds, PTL

\* The steps of an accepted document are all promoted unless some wait for each
\* other, for any document (computeStepDependencies; compile() refuses no cycle).
THEOREM AcceptedSettlesHolds == Spec => []AcceptedSettlesUnlessCyclic
<1>1. ASSUME VerdictInvariant PROVE AcceptedSettlesUnlessCyclic
  <2> SUFFICES ASSUME stage = "accepted", Plain(document)
               PROVE  Completed(document) = Ids(document) <=> ~ Cyclic(document)
    BY DEF AcceptedSettlesUnlessCyclic
  <2>1. IsWalk(document) /\ ReferencesValid(document)
    BY <1>1 DEF VerdictInvariant
  <2>2. Resolvable(document)
    BY <2>1, VerdictRight
  <2>3. QED
    BY <2>1, <2>2, CyclesStay, RoundsSuffice
<1>2. QED
  BY <1>1, VerdictInvariantHolds, PTL

================================================================================
