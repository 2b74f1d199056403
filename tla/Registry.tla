------------------------------- MODULE Registry -------------------------------
(***************************************************************************)
(* The registry of service images (src/registry): registerImage, a        *)
(* transaction that upserts a row of service_images and replaces the       *)
(* function_capabilities of its digest; recordTrustTier, one UPDATE; and   *)
(* getPlacementFacts, one SELECT.  getEntry's two statements are Catalog's *)
(* ReadImage and ListFunctions.                                            *)
(*                                                                         *)
(* The transactions run at READ COMMITTED.  The upsert locks the image's   *)
(* row, or waits for whoever inserted it and has not committed; what a     *)
(* transaction wrote is seen by the others once it commits.  A row is      *)
(* represented by the registration that wrote it.                          *)
(***************************************************************************)
EXTENDS Invocation

CONSTANTS
    Digests,
    Registrations,   \* calls of registerImage, each made once
    TrustTiers

VARIABLES
    submission,   \* what each registration submits; fixed
    image,        \* image[d]: the committed row: who wrote it, and its tier
    functions,    \* functions[d]: the committed rows: function -> who wrote it
    lock,         \* lock[d]: the registration that holds the row's lock
    pc,           \* where each registration is
    draft,        \* what it has written and not committed
    verdicts,     \* verdicts[d]: the trust tiers recorded, in order
    probes        \* bound: verdicts still to be recorded

registry == <<submission, image, functions, lock, pc, draft, verdicts, probes>>

NoImage == Nothing
Nobody == "nobody"

\* What an image's row may hold.
Images == [by : Registrations, tier : TrustTiers]

ASSUME RegistryAssumption ==
    /\ "unverified" \in TrustTiers
    /\ Nobody \notin Registrations
    /\ NoImage \notin Images

Digest(r) == submission[r].digest
Submitted(r) == submission[r].functions

\* Mutant: the upsert also sets trust_tier, to its default.
TierReset(d) == "unverified"

\* The row of an image that has never been registered gets the default tier.
TierKept(d) == IF image[d] = NoImage THEN "unverified" ELSE image[d].tier

\* registerImage refuses an invalid submission before it connects.
Refuse(r) ==
    /\ pc[r] = "idle"
    /\ ~ ValidRegistration(submission[r])
    /\ pc' = [pc EXCEPT ![r] = "refused"]
    /\ UNCHANGED <<submission, image, functions, lock, draft, verdicts, probes>>

\* Mutant: ON CONFLICT DO NOTHING, which does not lock the row it finds.
UpsertDoesNothing(r) ==
    /\ pc[r] = "idle"
    /\ ValidRegistration(submission[r])
    /\ image[Digest(r)] = NoImage => lock[Digest(r)] = Nobody
    /\ lock' = IF image[Digest(r)] = NoImage THEN [lock EXCEPT ![Digest(r)] = r] ELSE lock
    /\ pc' = [pc EXCEPT ![r] = "upserted"]
    /\ draft' = [draft EXCEPT ![r] =
         [image |-> IF image[Digest(r)] = NoImage
                    THEN [by |-> r, tier |-> TierKept(Digest(r))] ELSE image[Digest(r)],
          deleted |-> {}]]
    /\ UNCHANGED <<submission, image, functions, verdicts, probes>>

\* INSERT ... ON CONFLICT (digest) DO UPDATE, which leaves trust_tier alone.
Upsert(r) ==
    /\ pc[r] = "idle"
    /\ ValidRegistration(submission[r])
    /\ lock[Digest(r)] = Nobody
    /\ lock' = [lock EXCEPT ![Digest(r)] = r]
    /\ pc' = [pc EXCEPT ![r] = "upserted"]
    /\ draft' = [draft EXCEPT ![r] =
                   [image |-> [by |-> r, tier |-> TierKept(Digest(r))], deleted |-> {}]]
    /\ UNCHANGED <<submission, image, functions, verdicts, probes>>

\* replaceForDigest: DELETE the rows this statement sees, then one INSERT for
\* each function; the row's lock keeps others from committing in between.
Replace(r) ==
    /\ pc[r] = "upserted"
    /\ pc' = [pc EXCEPT ![r] = "replaced"]
    /\ draft' = [draft EXCEPT ![r].deleted = DOMAIN functions[Digest(r)]]
    /\ UNCHANGED <<submission, image, functions, lock, verdicts, probes>>

\* The rows a commit leaves: the digest's that were not deleted, and r's own.
Replaced(r) ==
    [f \in ((DOMAIN functions[Digest(r)]) \ draft[r].deleted) \cup DOMAIN Submitted(r) |->
        IF f \in DOMAIN Submitted(r) THEN r ELSE functions[Digest(r)][f]]

Release(r) == [lock EXCEPT ![Digest(r)] = IF @ = r THEN Nobody ELSE @]

Commit(r) ==
    /\ pc[r] = "replaced"
    /\ image' = [image EXCEPT ![Digest(r)] = draft[r].image]
    /\ functions' = [functions EXCEPT ![Digest(r)] = Replaced(r)]
    /\ lock' = Release(r)
    /\ pc' = [pc EXCEPT ![r] = "committed"]
    /\ draft' = [draft EXCEPT ![r] = Nothing]
    /\ UNCHANGED <<submission, verdicts, probes>>

\* A statement fails or the connection is lost: ROLLBACK.
RollBack(r) ==
    /\ pc[r] \in {"upserted", "replaced"}
    /\ lock' = Release(r)
    /\ pc' = [pc EXCEPT ![r] = "rolled back"]
    /\ draft' = [draft EXCEPT ![r] = Nothing]
    /\ UNCHANGED <<submission, image, functions, verdicts, probes>>

\* One UPDATE.  It waits for a lock on a row it can see; an image that is not
\* there, or not committed, is an unknown digest (FatalError, nothing changes).
RecordTrustTier(d, tier) ==
    /\ tier \in TrustTiers
    /\ probes > 0 /\ probes' = probes - 1
    /\ image[d] # NoImage /\ lock[d] = Nobody
    /\ image' = [image EXCEPT ![d].tier = tier]
    /\ verdicts' = [verdicts EXCEPT ![d] = Append(@, tier)]
    /\ UNCHANGED <<submission, functions, lock, pc, draft>>

\* The row getPlacementFacts' one JOIN returns, or none.
PlacementFacts(d, f) ==
    IF image[d] = NoImage \/ f \notin DOMAIN functions[d] THEN Nothing
    ELSE [image |-> image[d].by,
          function |-> functions[d][f],
          capability |-> Submitted(functions[d][f])[f]]

RegistryInit ==
    /\ image = [d \in Digests |-> NoImage]
    /\ functions = [d \in Digests |-> [f \in {} |-> Nobody]]
    /\ lock = [d \in Digests |-> Nobody]
    /\ pc = [r \in Registrations |-> IF submission[r] = Nothing THEN "unused" ELSE "idle"]
    /\ draft = [r \in Registrations |-> Nothing]
    /\ verdicts = [d \in Digests |-> <<>>]

Register(r) == Refuse(r) \/ Upsert(r) \/ Replace(r) \/ Commit(r) \/ RollBack(r)

RegistryNext ==
    \/ \E r \in Registrations : Register(r)
    \/ \E d \in Digests, tier \in TrustTiers : RecordTrustTier(d, tier)

\* -------------------------------------------------------------- properties

\* The capability rows of a digest are those of the registration its image row
\* is from, all of them: a registration replaces an entry as a whole, however
\* registrations of the digest interleave (admin.ts:55, replaceForDigest).
EntryFromOneRegistration ==
    \A d \in Digests : image[d] # NoImage =>
        /\ DOMAIN functions[d] = DOMAIN Submitted(image[d].by)
        /\ \A f \in DOMAIN functions[d] : functions[d][f] = image[d].by

LastVerdict(d) == IF verdicts[d] = <<>> THEN "unverified" ELSE verdicts[d][Len(verdicts[d])]

\* An image has the last tier recorded for it, or "unverified": registering it
\* again, before or while a verdict is recorded, neither resets a tier that was
\* earned nor brings back one that was withdrawn (admin.ts:33, conformance.ts:21).
TierIsLastVerdict ==
    \A d \in Digests : image[d] # NoImage =>
        image[d].tier = LastVerdict(d)

\* ------------------------------------------------------ inductive invariant

Writing(r) == pc[r] \in {"upserted", "replaced"}

\* The rows, the locks and what a transaction has written stay within their types.
RegistryTypeOK ==
    /\ image \in [Digests -> Images \cup {NoImage}]
    /\ functions = [d \in Digests |-> functions[d]]
    /\ lock \in [Digests -> Registrations \cup {Nobody}]
    /\ pc \in [Registrations -> {"unused", "idle", "refused", "upserted", "replaced",
                                 "committed", "rolled back"}]
    /\ verdicts \in [Digests -> Seq(TrustTiers)]
    /\ draft = [r \in Registrations |-> draft[r]]
    /\ \A r \in Registrations : Writing(r) =>
         /\ draft[r] = [image |-> draft[r].image, deleted |-> draft[r].deleted]
         /\ draft[r].image \in Images

\* A transaction that has written holds the lock of its image's row, alone.
WritersHoldTheLock ==
    /\ \A r \in Registrations : pc[r] # "unused" => Digest(r) \in Digests
    /\ \A r \in Registrations : Writing(r) => lock[Digest(r)] = r
    /\ \A d \in Digests : lock[d] # Nobody => Writing(lock[d]) /\ Digest(lock[d]) = d

\* A committed row is its writer's.
RowsCommitted ==
    \A d \in Digests : image[d] # NoImage => pc[image[d].by] = "committed" /\ Digest(image[d].by) = d

\* While it holds the lock, what a transaction has read stays true: it keeps the
\* tier its image has, and deletes every function row there is.
DraftsCurrent ==
    /\ \A r \in Registrations :
         /\ Writing(r) => draft[r].image = [by |-> r, tier |-> LastVerdict(Digest(r))]
         /\ pc[r] = "replaced" => draft[r].deleted = DOMAIN functions[Digest(r)]
    /\ \A d \in Digests : image[d] = NoImage => verdicts[d] = <<>>

RegistryInvariant ==
    /\ RegistryTypeOK /\ WritersHoldTheLock /\ RowsCommitted /\ DraftsCurrent
    /\ EntryFromOneRegistration /\ TierIsLastVerdict
===============================================================================
