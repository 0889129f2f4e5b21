---------------------------- MODULE CronContract ----------------------------
(***************************************************************************)
(* What the cron subsystem promises, with no table, claim or loop in it:   *)
(* "Crons fire exactly once" (KNOWLEDGE.md).  An instant of a cron starts  *)
(* at most one agent turn, never before the clock reaches it, and at most  *)
(* one reply is queued for it, only after the turn.                        *)
(***************************************************************************)
EXTENDS Integers

CONSTANTS Crons, Instants
VARIABLES clock, turns, replies

Init ==
    /\ clock = 0
    /\ turns = [c \in Crons |-> [t \in Instants |-> 0]]
    /\ replies = {}

Pass ==
    /\ clock' = clock + 1
    /\ UNCHANGED <<turns, replies>>

Fire(c, t) ==
    /\ t <= clock
    /\ turns[c][t] = 0
    /\ turns' = [turns EXCEPT ![c][t] = 1]
    /\ UNCHANGED <<clock, replies>>

Reply(c, t) ==
    /\ turns[c][t] = 1
    /\ <<c, t>> \notin replies
    /\ replies' = replies \cup {<<c, t>>}
    /\ UNCHANGED <<clock, turns>>

Next ==
    \/ Pass
    \/ \E c \in Crons, t \in Instants : Fire(c, t) \/ Reply(c, t)

Spec == Init /\ [][Next]_<<clock, turns, replies>>
=============================================================================
