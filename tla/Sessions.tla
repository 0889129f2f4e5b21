------------------------------- MODULE Sessions -------------------------------
(***************************************************************************)
(* The session store, store/sessions.rs: one row per thread of a surface,    *)
(* its participants and its entries.  Titles, pins and colours only order    *)
(* and label the lists.                                                      *)
(***************************************************************************)
EXTENDS Naturals, FiniteSets, FiniteSetsExt

CONSTANTS
    NoSession     \* no row

VARIABLES
    sessions,      \* sessions[t]: the row of a thread, or NoSession
    participants,  \* <<session id, person>>
    entries        \* the rows of session_entries
log == <<sessions, participants, entries>>

-----------------------------------------------------------------------------
(* ensure: SELECT, INSERT ... ON CONFLICT DO NOTHING, SELECT. *)

Exists(thread) == sessions[thread] # NoSession

\* Mutant of Open: the conflict replaces the row, and its id.
OpenReplacing(thread, id, scope) ==
    sessions' = [sessions EXCEPT ![thread] = [id |-> id, scope |-> scope]]

\* The insert of whoever found no row; one of them wins.
Open(thread, id, scope) ==
    sessions' = IF Exists(thread) THEN sessions
                ELSE [sessions EXCEPT ![thread] =
                          [id |-> id, scope |-> scope]]

-----------------------------------------------------------------------------

Join(id, person) == participants' = participants \cup {<<id, person>>}

\* MAX(seq) + 1 and the insert are one IMMEDIATE transaction.
NextSeq(id) == Max({-1} \cup {e.seq : e \in {f \in entries : f.session = id}}) + 1
AppendEntry(id, said) ==
    entries' = entries \cup {[session |-> id, seq |-> NextSeq(id), said |-> said]}

History(id) == {e \in entries : e.session = id}
=============================================================================
