---------------------------- MODULE SessionHistory ----------------------------
(***************************************************************************)
(* What session/ promises: a session is the list of its inputs, changed    *)
(* one mutation at a time.  An append adds an input at the end, a rewind   *)
(* cuts the list, and what a rewind has cut off never comes back.          *)
(*                                                                         *)
(* SessionLog.tla implements this specification.                           *)
(***************************************************************************)
EXTENDS Naturals, Sequences

CONSTANTS
    Sessions,
    Inputs     \* session_log.input values

VARIABLE history   \* history[s]: what replaySession returns for session s

Init == history = [s \in Sessions |-> <<>>]

AppendEntry(s) ==
    \E x \in Inputs : history' = [history EXCEPT ![s] = Append(@, x)]

Rewind(s) ==
    \E n \in 0 .. Len(history[s]) :
        history' = [history EXCEPT ![s] = SubSeq(@, 1, n)]

Next == \E s \in Sessions : AppendEntry(s) \/ Rewind(s)

Spec == Init /\ [][Next]_history

===============================================================================
