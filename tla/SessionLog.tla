------------------------------ MODULE SessionLog ------------------------------
(***************************************************************************)
(* appendEntry, rewindSession and replaySession of session/, over the      *)
(* session_log and session_pointer tables.                                 *)
(*                                                                         *)
(* A mutation is a transaction of several statements: it locks the         *)
(* session's pointer row, reads current_sequence, and goes on from what it *)
(* read.  The pointer's row lock is all that keeps two mutations of one    *)
(* session apart.  A rewind moves only the pointer; the rows beyond it     *)
(* stay in session_log until the next append deletes them.                 *)
(***************************************************************************)
EXTENDS Integers

CONSTANTS
    Sessions,
    Clients,    \* callers of appendEntry and rewindSession
    Inputs,     \* session_log.input values
    MaxLength   \* bound: entries of a session

NoEntry == "no entry"       \* no session_log row with this sequence
NoSession == "no session"

ASSUME ConstantsAssumption ==
    /\ MaxLength \in Nat
    /\ NoEntry \notin Inputs
    /\ NoSession \notin Sessions

VARIABLES
    pointer,   \* committed current_sequence; 0 also when there is no row yet
    log,       \* log[s][n]: the input of row (s, n), or NoEntry
    pc,        \* the statement each client's transaction has reached
    session,   \* the session it mutates
    input,     \* the input it appends
    read,      \* the current_sequence its lock statement returned
    deleted    \* the sequences its DELETE removed

tables == <<pointer, log>>
txn == <<pc, session, input, read, deleted>>
vars == <<pointer, log, pc, session, input, read, deleted>>

SequenceNumbers == 1 .. MaxLength

\* replaySession (listLive): the rows up to the pointer, in sequence order.
Live(s) == [n \in 1 .. pointer[s] |-> log[s][n]]

\* ------------------------------------------------------------- transactions

\* Mutant: a plain SELECT of the pointer row.
PointerReadable(c, s) == TRUE

\* INSERT ... ON CONFLICT DO UPDATE waits for any transaction that has inserted
\* or locked the session's pointer row.
PointerFree(c, s) == \A d \in Clients \ {c} : session[d] # s

EndTransaction(c) ==
    /\ pc' = [pc EXCEPT ![c] = "idle"]
    /\ session' = [session EXCEPT ![c] = NoSession]
    /\ input' = [input EXCEPT ![c] = NoEntry]
    /\ read' = [read EXCEPT ![c] = 0]
    /\ deleted' = [deleted EXCEPT ![c] = {}]

\* appendEntry's first statement, sessionPointer.lock.
LockToAppend(c, s, x) ==
    /\ pc[c] = "idle" /\ PointerFree(c, s)
    /\ pointer[s] < MaxLength
    /\ pc' = [pc EXCEPT ![c] = "locked"]
    /\ session' = [session EXCEPT ![c] = s]
    /\ input' = [input EXCEPT ![c] = x]
    /\ read' = [read EXCEPT ![c] = pointer[s]]
    /\ UNCHANGED <<tables, deleted>>

\* Mutant: the abandoned tail is left where it is.
DeleteNothing(c) ==
    /\ pc[c] = "locked"
    /\ pc' = [pc EXCEPT ![c] = "truncated"]
    /\ UNCHANGED <<tables, session, input, read, deleted>>

\* deleteAfter(session, current_sequence)
DeleteAfter(c) ==
    /\ pc[c] = "locked"
    /\ deleted' = [deleted EXCEPT
                     ![c] = {n \in SequenceNumbers : n > read[c] /\ log[session[c]][n] # NoEntry}]
    /\ pc' = [pc EXCEPT ![c] = "truncated"]
    /\ UNCHANGED <<tables, session, input, read>>

\* UNIQUE (session_id, sequence) would refuse the row the INSERT adds.
Collides(c) ==
    /\ log[session[c]][read[c] + 1] # NoEntry
    /\ read[c] + 1 \notin deleted[c]

\* sessionLog.append, as row current_sequence + 1.
InsertEntry(c) ==
    /\ pc[c] = "truncated" /\ ~Collides(c)
    /\ pc' = [pc EXCEPT ![c] = "inserted"]
    /\ UNCHANGED <<tables, session, input, read, deleted>>

\* sessionPointer.setSequence(session, nextSequence), and COMMIT of it all.
CommitAppend(c) ==
    LET s == session[c] IN
    /\ pc[c] = "inserted"
    /\ pointer' = [pointer EXCEPT ![s] = read[c] + 1]
    /\ log' = [log EXCEPT ![s] = [n \in SequenceNumbers |->
                 IF n = read[c] + 1 THEN input[c]
                 ELSE IF n \in deleted[c] THEN NoEntry ELSE log[s][n]]]
    /\ EndTransaction(c)

\* rewindSession's first statement.
LockToRewind(c, s) ==
    /\ pc[c] = "idle" /\ PointerFree(c, s)
    /\ pc' = [pc EXCEPT ![c] = "rewinding"]
    /\ session' = [session EXCEPT ![c] = s]
    /\ read' = [read EXCEPT ![c] = pointer[s]]
    /\ UNCHANGED <<tables, input, deleted>>

\* Mutant: any row that still exists is a target.
InRangeOfRows(c, target) ==
    target = 0 \/ (target \in SequenceNumbers /\ log[session[c]][target] # NoEntry)

InRange(c, target) == 0 <= target /\ target <= read[c]

\* Out of range: FatalError, so ROLLBACK.
RejectRewind(c, target) ==
    /\ pc[c] = "rewinding" /\ ~InRange(c, target)
    /\ EndTransaction(c)
    /\ UNCHANGED tables

\* The target is where the pointer already is, a no-op, or before it.
CommitRewind(c, target) ==
    /\ pc[c] = "rewinding" /\ InRange(c, target)
    /\ pointer' = [pointer EXCEPT ![session[c]] = target]
    /\ EndTransaction(c)
    /\ UNCHANGED log

\* The client or its connection dies before COMMIT: Postgres rolls back.
Crash(c) ==
    /\ pc[c] # "idle"
    /\ EndTransaction(c)
    /\ UNCHANGED tables

\* ------------------------------------------------------------- specification

Init ==
    /\ pointer = [s \in Sessions |-> 0]
    /\ log = [s \in Sessions |-> [n \in SequenceNumbers |-> NoEntry]]
    /\ pc = [c \in Clients |-> "idle"]
    /\ session = [c \in Clients |-> NoSession]
    /\ input = [c \in Clients |-> NoEntry]
    /\ read = [c \in Clients |-> 0]
    /\ deleted = [c \in Clients |-> {}]

Step(c) ==
    \/ \E s \in Sessions, x \in Inputs : LockToAppend(c, s, x)
    \/ DeleteAfter(c) \/ InsertEntry(c) \/ CommitAppend(c)
    \/ \E s \in Sessions : LockToRewind(c, s)
    \/ \E target \in -1 .. MaxLength + 1 : RejectRewind(c, target) \/ CommitRewind(c, target)
    \/ Crash(c)

Next == \E c \in Clients : Step(c)

Spec == Init /\ [][Next]_vars

\* ---------------------------------------------------------------- properties

States == {"idle", "locked", "truncated", "inserted", "rewinding"}

\* Every variable stays within its type.
TypeOK ==
    /\ pointer \in [Sessions -> 0 .. MaxLength]
    /\ log \in [Sessions -> [SequenceNumbers -> Inputs \union {NoEntry}]]
    /\ pc \in [Clients -> States]
    /\ session \in [Clients -> Sessions \union {NoSession}]
    /\ input \in [Clients -> Inputs \union {NoEntry}]
    /\ read \in [Clients -> 0 .. MaxLength]
    /\ deleted \in [Clients -> SUBSET SequenceNumbers]

\* Replay never skips an entry: every row up to the pointer exists, over any
\* mix of appends, rewinds and crashes of several clients.
LiveLogHasNoGaps ==
    \A s \in Sessions : \A n \in 1 .. pointer[s] : log[s][n] # NoEntry

\* An append never fails on the UNIQUE constraint: the tail a rewind abandoned
\* is gone by the time its first sequence number is used again.
AppendNeverCollides == \A c \in Clients : pc[c] = "truncated" => ~Collides(c)

\* --- the inductive invariant

\* One open transaction per session, and what it read still holds.
MutationsSerialized ==
    \A c \in Clients :
        /\ pc[c] = "idle" <=> session[c] = NoSession
        /\ pc[c] # "idle" => /\ read[c] = pointer[session[c]]
                             /\ \A d \in Clients \ {c} : session[d] # session[c]

\* An append has an input to add, room for it, and its tail deleted first.
AppendsPrepared ==
    \A c \in Clients :
        /\ pc[c] \in {"locked", "truncated", "inserted"} =>
             read[c] < MaxLength /\ input[c] \in Inputs
        /\ pc[c] \in {"truncated", "inserted"} =>
             deleted[c] = {n \in SequenceNumbers : n > read[c] /\ log[session[c]][n] # NoEntry}

\* The inductive invariant: mutations of a session are serial, and the log has
\* no gap below the pointer.
InductiveInvariant ==
    /\ TypeOK
    /\ MutationsSerialized
    /\ AppendsPrepared
    /\ LiveLogHasNoGaps

\* Replay shows the history session/ promises: appends and rewinds one at a
\* time, no lost append, and nothing a rewind cut off ever replayed again.
History == INSTANCE SessionHistory WITH history <- [s \in Sessions |-> Live(s)]
ImplementsSessionHistory == History!Spec

===============================================================================
