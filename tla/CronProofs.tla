---------------------------- MODULE CronProofs ----------------------------
(***************************************************************************)
(* What TLAPS proves of CronScheduler, for every set of crons, processes   *)
(* and people, every schedule and every bound, and of CronExpression.      *)
(***************************************************************************)
EXTENDS CronScheduler, WellFoundedInduction, TLAPS

\* A nonempty set of natural numbers has a least element: a calendar has a next
\* instant.
LEMMA LeastElement ==
    ASSUME NEW S \in SUBSET Nat, S # {}
    PROVE  \E t \in S : \A u \in S : t <= u
<1> DEFINE R == {p \in Nat \X Nat : p[1] < p[2]}
<1>1. OpToRel(<, Nat) = R
  BY DEF OpToRel
<1>2. IsWellFoundedOn(R, Nat)
  BY <1>1, NatLessThanWellFounded
<1> HIDE DEF R
<1>3. PICK t \in S : \A u \in S : ~ (<<u, t>> \in R)
  BY <1>2, WFMin
<1>4. \A u \in S : ~ (u < t)
  BY <1>3 DEF R
<1>5. QED
  BY <1>4

\* The next fire of an interval is strictly later than the instant it is
\* computed from and at most one interval later.
LEMMA IntervalAfterBounds ==
    ASSUME NEW secs \in Nat \ {0}, NEW anchor \in Nat, NEW after \in Nat, anchor <= after
    PROVE  /\ IntervalAfter(secs, anchor, after) \in Nat
           /\ IntervalAfter(secs, anchor, after) > after
           /\ IntervalAfter(secs, anchor, after) <= after + secs
<1> DEFINE d == after - anchor
           p == secs * (d \div secs)
           r == d % secs
<1>1. d \in Nat /\ after = anchor + d
  OBVIOUS
<1>2. d \div secs \in Nat /\ r \in Nat /\ r < secs /\ d = p + r
  BY <1>1
<1>3. p \in Nat /\ (d \div secs + 1) * secs = p + secs
  BY <1>2
<1>4. IntervalAfter(secs, anchor, after) = anchor + (p + secs)
  BY <1>3 DEF IntervalAfter
<1> HIDE DEF d, p, r
<1>5. QED
  BY <1>1, <1>2, <1>3, <1>4

\* The next fire of a calendar is the first matching instant later than the
\* one it is computed from, or Never.
LEMMA CalendarAfterFirst ==
    ASSUME NEW instants \in SUBSET Nat, NEW after \in Nat
    PROVE  \/ /\ CalendarAfter(instants, after) = Never
              /\ \A t \in instants : t <= after
           \/ /\ CalendarAfter(instants, after) \in instants
              /\ CalendarAfter(instants, after) > after
              /\ \A t \in instants : t > after => CalendarAfter(instants, after) <= t
<1> DEFINE later == {t \in instants : t > after}
<1>1. CASE later = {}
  BY <1>1 DEF CalendarAfter
<1>2. CASE later # {}
  <2>1. \E t \in later : \A u \in later : t <= u
    BY <1>2, LeastElement
  <2>2. CalendarAfter(instants, after) = CHOOSE t \in later : \A u \in later : t <= u
    BY <1>2 DEF CalendarAfter
  <2>3. /\ CalendarAfter(instants, after) \in later
        /\ \A u \in later : CalendarAfter(instants, after) <= u
    BY <2>1, <2>2
  <2>4. QED
    BY <2>3
<1>3. QED
  BY <1>1, <1>2

-----------------------------------------------------------------------------
(* Types *)

\* Every schedule, asked within the clock's bound, names an instant or Never.
LEMMA NextFireInstant ==
    ASSUME TypeOK, NEW c \in Crons, NEW at \in 0..MaxTime
    PROVE  NextFireAfter(Schedule(c), at) \in Instants \cup {Never}
<1> USE CronAssumption
<1>1. CASE Matches[c] = {}
  <2>1. NextFireAfter(Schedule(c), at) = IntervalAfter(Secs[c], crons[c].anchor, at)
    BY <1>1 DEF NextFireAfter, Schedule, Interval
  <2>2. Secs[c] \in Nat \ {0} /\ at \in Nat /\ at + Secs[c] <= Horizon
    OBVIOUS
  <2>3. crons[c].anchor \in Nat /\ crons[c].anchor <= Horizon
    BY DEF TypeOK, Instants, Row
  <2>4. CASE crons[c].anchor > at
    BY <2>1, <2>3, <2>4 DEF IntervalAfter, Instants
  <2>5. CASE crons[c].anchor <= at
    <3> DEFINE n == IntervalAfter(Secs[c], crons[c].anchor, at)
    <3>1. n \in Nat /\ n <= at + Secs[c]
      BY <2>2, <2>3, <2>5, IntervalAfterBounds
    <3> HIDE DEF n
    <3>2. n \in Instants
      BY <2>2, <3>1 DEF Instants
    <3>3. QED
      BY <2>1, <3>2 DEF n
  <2>6. QED
    BY <2>3, <2>4, <2>5
<1>2. CASE Matches[c] # {}
  <2>1. NextFireAfter(Schedule(c), at) = CalendarAfter(Matches[c], at)
    BY <1>2 DEF NextFireAfter, Schedule, Calendar
  <2>2. Matches[c] \in SUBSET Nat /\ Matches[c] \subseteq Instants /\ at \in Nat
    BY DEF Instants
  <2>3. QED
    BY <2>1, <2>2, CalendarAfterFirst
<1>3. QED
  BY <1>1, <1>2

\* `create` arms a cron within the horizon.
LEMMA FirstFireInstant ==
    ASSUME TypeOK, NEW c \in Crons
    PROVE  /\ Matches[c] = {} => now + Secs[c] \in Instants
           /\ CalendarAfter(Matches[c], now) \in Instants \cup {Never}
<1>1. now \in Nat /\ now <= MaxTime /\ Secs[c] \in Nat /\ MaxTime + Secs[c] <= Horizon
  BY CronAssumption DEF TypeOK
<1>2. Matches[c] \in SUBSET Nat /\ Matches[c] \subseteq Instants
  BY CronAssumption DEF Instants
<1>3. QED
  BY <1>1, <1>2, CalendarAfterFirst, CronAssumption DEF Instants

\* Writing the outcome of a fire and moving the schedule keep the tables typed.
LEMMA EndOfFireTyped ==
    ASSUME TypeOK, NEW f \in Due, NEW at \in 0..MaxTime, NEW status \in FireStatus,
           Record(f.cron, f.key, status), Advance(f.cron, at)
    PROVE  /\ fires' \in [Crons -> [Instants -> FireStatus]]
           /\ crons' \in [Crons -> Row]
<1>1. f.cron \in Crons /\ f.key \in Instants
  BY DEF Due
<1>2. NextFireAfter(Schedule(f.cron), at) \in Instants \cup {Never}
  BY <1>1, NextFireInstant
<1>3. QED
  BY <1>1, <1>2 DEF TypeOK, Record, Advance, Row

LEMMA IdleTyped == Idle \in Loop
BY CronAssumption DEF Idle, Loop

\* A loop that holds a fire holds an instant of a cron.
LEMMA HeldTyped ==
    ASSUME TypeOK, NEW w \in Workers, sched[w].pc \in Holding
    PROVE  /\ sched[w].fire \in Due
           /\ sched[w].fire.cron \in Crons
           /\ sched[w].fire.key \in Instants
           /\ sched[w].at \in 0..MaxTime
           /\ sched[w].due \in SUBSET Due
<1>1. sched[w] \in Loop
  BY DEF TypeOK
<1>2. sched[w] \in [pc : Holding, at : 0..MaxTime, due : SUBSET Due, fire : Due]
  BY <1>1 DEF Loop, Holding
<1>3. QED
  BY <1>2 DEF Due

\* A toggle in flight is about a cron.
LEMMA EditTyped ==
    ASSUME TypeOK, NEW u \in Users, edit[u].pc \in {"read", "write"}
    PROVE  /\ edit[u] \in [pc : {"read", "write"}, cron : Crons, enable : BOOLEAN,
                           next : Instants \cup {Never}]
           /\ edit[u].cron \in Crons
BY DEF TypeOK, Edit, NoEdit

LEMMA ContinueTyped ==
    ASSUME TypeOK, NEW w \in Workers, Continue(w)
    PROVE  sched' \in [Workers -> Loop]
<1>1. sched[w] \in Loop /\ Idle \in Loop
  BY IdleTyped DEF TypeOK
<1>2. [sched[w] EXCEPT !.pc = "next", !.fire = NoFire] \in Loop
  BY <1>1 DEF Loop, Holding
<1>3. QED
  BY <1>1, <1>2 DEF TypeOK, Continue


LEMMA InitTyped == Init => TypeOK
<1> SUFFICES ASSUME Init PROVE TypeOK
  OBVIOUS
<1>1. Idle \in Loop
  BY IdleTyped
<1>2. NoEdit \in Edit
  BY DEF NoEdit, Edit
<1>3. 0 \in Instants /\ 0 \in 0..MaxTime /\ 0 \in 0..MaxFailures
  BY CronAssumption DEF Instants
<1>4. Unborn \in Row
  BY <1>3 DEF Unborn, Row, RowStates
<1>5. QED
  BY <1>1, <1>2, <1>3, <1>4 DEF Init, TypeOK, FireStatus

\* Every step keeps the types: one step of the proof per action.
LEMMA StepTyped == TypeOK /\ [Next]_vars => TypeOK'
<1> SUFFICES ASSUME TypeOK, [Next]_vars PROVE TypeOK'
  OBVIOUS
<1>1. ASSUME NEW w \in Workers, Tick(w) PROVE TypeOK'
  <2> DEFINE due == {[cron |-> c, key |-> crons[c].next] : c \in {d \in Crons : IsDue(d, now)}}
             start == [pc |-> "next", at |-> now, due |-> due, fire |-> NoFire]
  <2>1. due \in SUBSET Due
    BY DEF TypeOK, Row, IsDue, Due
  <2> HIDE DEF due
  <2>2. start \in Loop
    BY <2>1 DEF TypeOK, Loop
  <2>3. sched' = [sched EXCEPT ![w] = start] /\ UNCHANGED <<now, db, turns, edit, failures>>
    BY <1>1 DEF Tick, due
  <2> HIDE DEF start
  <2>4. QED
    BY <2>2, <2>3 DEF TypeOK, db
<1>2. ASSUME NEW w \in Workers, Claim(w) PROVE TypeOK'
  <2>1. PICK d \in Earliest(sched[w].due) : ClaimWon(w, d) \/ ClaimLost(w, d) \/ ClaimOrphaned(w, d)
    BY <1>2 DEF Claim
  <2>2. sched[w] \in [pc : {"next"}, at : 0..MaxTime, due : SUBSET Due, fire : {NoFire}]
    BY <1>2 DEF TypeOK, Claim, Loop, Holding
  <2>3. d \in Due /\ d.cron \in Crons /\ d.key \in Instants
    BY <2>1, <2>2 DEF Earliest, Due
  <2>4. UNCHANGED <<now, crons, turns, deliveries, edit, failures>>
    BY <1>2 DEF Claim
  <2>5. CASE ClaimWon(w, d)
    <3>1. fires' \in [Crons -> [Instants -> FireStatus]]
      BY <2>3, <2>5 DEF ClaimWon, TypeOK, FireStatus
    <3> DEFINE pc == IF sched[w].at - d.key > MaxCatchup THEN "skip" ELSE "turn"
    <3>2. pc \in Holding
      BY DEF Holding
    <3>3. sched' = [sched EXCEPT ![w].due = @ \ {d}, ![w].fire = d, ![w].pc = pc]
      BY <2>5 DEF ClaimWon
    <3> HIDE DEF pc
    <3>4. sched' \in [Workers -> Loop]
      BY <2>2, <2>3, <3>2, <3>3 DEF TypeOK, Loop
    <3>5. QED
      BY <2>4, <3>1, <3>4 DEF TypeOK
  <2>6. CASE ClaimLost(w, d)
    <3> DEFINE rest == [sched[w] EXCEPT !.due = sched[w].due \ {d}]
               loop == IF sched[w].due = {d} THEN Idle ELSE rest
    <3>1. rest \in Loop
      BY <2>2 DEF Loop
    <3> HIDE DEF rest
    <3>2. loop \in Loop
      BY <3>1, IdleTyped
    <3>3. sched' = [sched EXCEPT ![w] = loop] /\ UNCHANGED fires
      BY <2>6 DEF ClaimLost, rest
    <3> HIDE DEF loop
    <3>4. QED
      BY <2>4, <3>2, <3>3 DEF TypeOK
  <2>7. CASE ClaimOrphaned(w, d)
    BY <2>4, <2>7, IdleTyped DEF ClaimOrphaned, TypeOK
  <2>8. QED
    BY <2>1, <2>5, <2>6, <2>7
<1>3. ASSUME NEW w \in Workers, SkipFire(w) PROVE TypeOK'
  <2>1. sched[w].fire \in Due /\ sched[w].at \in 0..MaxTime
    BY <1>3, HeldTyped DEF SkipFire, Holding
  <2>2. "skipped" \in FireStatus
    BY DEF FireStatus
  <2>3. /\ Record(sched[w].fire.cron, sched[w].fire.key, "skipped")
        /\ Advance(sched[w].fire.cron, sched[w].at)
        /\ Continue(w)
        /\ UNCHANGED <<now, turns, deliveries, edit, failures>>
    BY <1>3 DEF SkipFire
  <2>4. QED
    BY <2>1, <2>2, <2>3, EndOfFireTyped, ContinueTyped DEF TypeOK
<1>4. ASSUME NEW w \in Workers, RunTurn(w) PROVE TypeOK'
  <2>1. sched[w].pc = "turn" /\ sched[w].pc \in Holding
    BY <1>4 DEF RunTurn, Holding
  <2>2. sched[w] \in [pc : Holding, at : 0..MaxTime, due : SUBSET Due, fire : Due]
    BY <2>1 DEF TypeOK, Loop, Holding
  <2>3. [sched[w] EXCEPT !.pc = "complete"] \in Loop
    BY <2>2 DEF Loop, Holding
  <2>4. sched' = [sched EXCEPT ![w] = [sched[w] EXCEPT !.pc = "complete"]]
    BY <1>4 DEF RunTurn
  <2>5. turns' \in [Crons -> [Instants -> Nat]]
    BY <1>4, <2>1, HeldTyped DEF RunTurn, TypeOK
  <2>6. UNCHANGED <<now, db, edit, failures>>
    BY <1>4 DEF RunTurn
  <2>7. QED
    BY <2>3, <2>4, <2>5, <2>6 DEF TypeOK, db
<1>5. ASSUME NEW w \in Workers, CompleteFire(w) PROVE TypeOK'
  <2>1. sched[w].pc \in Holding /\ sched[w].fire \in Due /\ sched[w].at \in 0..MaxTime
    BY <1>5, HeldTyped DEF CompleteFire, Holding
  <2>2. "done" \in FireStatus
    BY DEF FireStatus
  <2>3. /\ Record(sched[w].fire.cron, sched[w].fire.key, "done")
        /\ Advance(sched[w].fire.cron, sched[w].at)
        /\ UNCHANGED <<now, turns, deliveries, edit, failures>>
    BY <1>5 DEF CompleteFire
  <2>4. sched' \in [Workers -> Loop]
    <3>1. CASE Continue(w)
      BY <3>1, ContinueTyped
    <3>2. CASE sched' = [sched EXCEPT ![w].pc = "enqueue"]
      <4>1. sched[w] \in [pc : Holding, at : 0..MaxTime, due : SUBSET Due, fire : Due]
        BY <2>1 DEF TypeOK, Loop, Holding
      <4>2. [sched[w] EXCEPT !.pc = "enqueue"] \in Loop
        BY <4>1 DEF Loop, Holding
      <4>3. QED
        BY <3>2, <4>2 DEF TypeOK
    <3>3. QED
      BY <1>5, <3>1, <3>2 DEF CompleteFire
  <2>5. QED
    BY <2>1, <2>2, <2>3, <2>4, EndOfFireTyped DEF TypeOK
<1>6. ASSUME NEW w \in Workers, Enqueue(w) PROVE TypeOK'
  <2>1. sched[w].pc \in Holding
    BY <1>6 DEF Enqueue, Holding
  <2>2. deliveries' \subseteq (Crons \X Instants)
    BY <1>6, <2>1, HeldTyped DEF Enqueue, TypeOK
  <2>3. Continue(w) /\ UNCHANGED <<now, crons, fires, turns, edit, failures>>
    BY <1>6 DEF Enqueue
  <2>4. QED
    BY <2>2, <2>3, ContinueTyped DEF TypeOK
<1>7. ASSUME NEW w \in Workers, LoseTick(w) PROVE TypeOK'
  BY <1>7, IdleTyped, CronAssumption DEF LoseTick, TypeOK, db
<1>8. ASSUME NEW u \in Users, NEW c \in Crons, ToggleRead(u, c) PROVE TypeOK'
  <2>1. [pc |-> "read", cron |-> c, enable |-> ~crons[c].enabled, next |-> Never] \in Edit
    BY DEF Edit
  <2>2. QED
    BY <1>8, <2>1 DEF ToggleRead, TypeOK, db
<1>9. ASSUME NEW u \in Users, SetEnabledRead(u) PROVE TypeOK'
  <2> DEFINE c == edit[u].cron
             n == IF edit[u].enable THEN NextFireAfter(Schedule(c), now) ELSE crons[c].next
  <2>1. c \in Crons /\ edit[u] \in [pc : {"read", "write"}, cron : Crons, enable : BOOLEAN,
                                    next : Instants \cup {Never}]
    BY <1>9, EditTyped DEF SetEnabledRead
  <2>2. n \in Instants \cup {Never}
    BY <2>1, NextFireInstant DEF TypeOK, Row
  <2>3. edit' = [edit EXCEPT ![u] =
                    IF ~Live(c) THEN NoEdit ELSE [edit[u] EXCEPT !.pc = "write", !.next = n]]
    BY <1>9 DEF SetEnabledRead
  <2> HIDE DEF n
  <2>4. [edit[u] EXCEPT !.pc = "write", !.next = n] \in Edit
    BY <2>1, <2>2 DEF Edit
  <2>5. UNCHANGED <<now, db, turns, sched, failures>>
    BY <1>9 DEF SetEnabledRead
  <2>6. NoEdit \in Edit
    BY DEF Edit
  <2>7. QED
    BY <2>3, <2>4, <2>5, <2>6 DEF TypeOK, db
<1>10. ASSUME NEW u \in Users, SetEnabledWrite(u) PROVE TypeOK'
  <2>1. edit[u].cron \in Crons /\ edit[u].enable \in BOOLEAN /\ edit[u].next \in Instants \cup {Never}
    BY <1>10, EditTyped DEF SetEnabledWrite
  <2>2. NoEdit \in Edit
    BY DEF Edit
  <2>3. QED
    BY <1>10, <2>1, <2>2 DEF SetEnabledWrite, TypeOK, Row
<1>11. ASSUME NEW c \in Crons, Create(c) PROVE TypeOK'
  BY <1>11, FirstFireInstant DEF Create, TypeOK, Row, RowStates
<1>12. ASSUME NEW c \in Crons, Delete(c) PROVE TypeOK'
  <2>1. Deleted \in Row
    BY CronAssumption DEF Deleted, Row, RowStates, Instants
  <2>2. [t \in Instants |-> "absent"] \in [Instants -> FireStatus]
    BY DEF FireStatus
  <2>3. QED
    BY <1>12, <2>1, <2>2 DEF Delete, TypeOK
<1>13. CASE AdvanceClock
  BY <1>13, CronAssumption DEF AdvanceClock, TypeOK, db
<1>14. CASE UNCHANGED vars
  BY <1>14 DEF vars, TypeOK
<1>15. QED
  BY <1>1, <1>2, <1>3, <1>4, <1>5, <1>6, <1>7, <1>8, <1>9, <1>10, <1>11, <1>12, <1>13, <1>14
     DEF Next, WorkerStep, UserStep

\* Type correctness: every reachable state is typed, whatever the crons,
\* processes, people, schedules and bounds.
THEOREM TypeCorrect == Spec => []TypeOK
<1>1. Init => TypeOK
  BY InitTyped
<1>2. TypeOK /\ [Next]_vars => TypeOK'
  BY StepTyped
<1>3. QED
  BY <1>1, <1>2, PTL DEF Spec

-----------------------------------------------------------------------------
(* The inductive invariant *)

\* Two fires with one cron and one key are the same fire.
LEMMA SameFire ==
    ASSUME NEW d \in Due, NEW f \in Due
    PROVE  d = f <=> d.cron = f.cron /\ d.key = f.key
BY DEF Due

LEMMA InitInv == Init => IndInv
<1> SUFFICES ASSUME Init PROVE IndInv
  OBVIOUS
<1>1. TypeOK
  BY InitTyped
<1>2. \A w \in Workers : sched[w] = Idle
  BY DEF Init
<1>3. HeldFire /\ FireHeldOnce
  BY <1>2 DEF HeldFire, FireHeldOnce, Working, Holding, Idle
<1>4. SnapshotIsDue
  BY <1>2 DEF SnapshotIsDue, Idle, Init
<1>5. RepliesFollowTurns /\ DeletedLeavesNothing /\ OutcomeMatchesTurn /\ RunsOnce
  BY DEF Init, Unborn, RepliesFollowTurns, DeletedLeavesNothing, OutcomeMatchesTurn, RunsOnce
<1>6. QED
  BY <1>1, <1>3, <1>4, <1>5 DEF IndInv

\* A step that leaves turns, replies and fire rows alone, deletes no cron and
\* gives no loop a new fire keeps the invariant if what it leaves of each
\* snapshot was due.
LEMMA QuietStep ==
    ASSUME IndInv, TypeOK', UNCHANGED <<fires, turns, deliveries>>,
           \A c \in Crons : crons[c].state # "unborn" => crons'[c].state = crons[c].state,
           \A c \in Crons : crons[c].state = "unborn" => crons'[c].state # "deleted",
           \A w \in Workers : Working(w)' => sched'[w] = sched[w],
           SnapshotIsDue'
    PROVE  IndInv'
<1>1. \A w \in Workers : Working(w)' => Working(w)
  BY DEF Working
<1>2. HeldFire'
  <2> SUFFICES ASSUME NEW w \in Workers, Working(w)' PROVE HoldsRightly(w)'
    BY DEF HeldFire
  <2>1. sched'[w] = sched[w] /\ Working(w) /\ HoldsRightly(w)
    BY <1>1 DEF IndInv, HeldFire
  <2>2. sched[w].fire.cron \in Crons
    BY <2>1, HeldTyped DEF IndInv, Working
  <2>3. QED
    BY <2>1, <2>2 DEF HoldsRightly, Live
<1>3. FireHeldOnce'
  BY <1>1 DEF IndInv, FireHeldOnce
<1>4. RepliesFollowTurns' /\ RunsOnce'
  BY DEF IndInv, RepliesFollowTurns, RunsOnce
<1>5. DeletedLeavesNothing' /\ OutcomeMatchesTurn'
  BY DEF IndInv, DeletedLeavesNothing, OutcomeMatchesTurn
<1>6. QED
  BY <1>2, <1>3, <1>4, <1>5 DEF IndInv

\* A loop that lets go of its fire leaves the others alone and what is left of
\* its snapshot due.
LEMMA ContinueReleases ==
    ASSUME IndInv, NEW w \in Workers, Continue(w), now' = now,
           \A c \in Crons : crons'[c].state = crons[c].state
    PROVE  /\ SnapshotIsDue'
           /\ ~Working(w)'
           /\ \A v \in Workers : v # w => sched'[v] = sched[v]
<1>1. \A v \in Workers : v # w => sched'[v] = sched[v]
  BY DEF Continue, IndInv, TypeOK
<1>2. \/ sched'[w] = Idle
      \/ sched'[w] = [sched[w] EXCEPT !.pc = "next", !.fire = NoFire]
  BY DEF Continue, IndInv, TypeOK
<1>3. sched[w] \in Loop
  BY DEF IndInv, TypeOK
<1>4. ~Working(w)'
  <2>1. [sched[w] EXCEPT !.pc = "next", !.fire = NoFire].pc = "next"
    BY <1>3 DEF Loop
  <2>2. Idle.pc = "idle"
    BY DEF Idle
  <2>3. sched'[w].pc = "idle" \/ sched'[w].pc = "next"
    BY ONLY <1>2, <2>1, <2>2
  <2>4. QED
    BY <2>3 DEF Working, Holding
<1>5. sched'[w] = Idle \/ (sched'[w].at = sched[w].at /\ sched'[w].due = sched[w].due)
  BY <1>2, <1>3 DEF Loop
<1>6. \A v \in Workers : sched[v].due \in SUBSET Due
  BY DEF IndInv, TypeOK, Loop, Idle
<1>7. now \in Nat
  BY CronAssumption DEF IndInv, TypeOK
<1>8. SnapshotIsDue'
  BY <1>1, <1>5, <1>6, <1>7 DEF IndInv, SnapshotIsDue, Idle, Due
<1>9. QED
  BY <1>1, <1>4, <1>8

\* Snapshots stay due while the clock moves on and no created cron is forgotten.
LEMMA SnapshotKept ==
    ASSUME IndInv, TypeOK', now <= now',
           \A c \in Crons : crons[c].state # "unborn" => crons'[c].state # "unborn",
           \A w \in Workers : \/ sched'[w] = Idle
                              \/ sched'[w].at = sched[w].at /\ sched'[w].due \subseteq sched[w].due
    PROVE  SnapshotIsDue'
<1> SUFFICES ASSUME NEW w \in Workers
             PROVE  /\ sched'[w].at <= now'
                    /\ \A d \in sched'[w].due : d.key <= sched'[w].at /\ crons'[d.cron].state # "unborn"
  BY DEF SnapshotIsDue
<1>1. now \in Nat /\ now' \in Nat
  BY CronAssumption DEF IndInv, TypeOK
<1>2. sched[w].due \in SUBSET Due /\ sched[w].at \in Nat
  BY CronAssumption DEF IndInv, TypeOK, Loop
<1>3. CASE sched'[w] = Idle
  BY <1>1, <1>3 DEF Idle
<1>4. CASE sched'[w].at = sched[w].at /\ sched'[w].due \subseteq sched[w].due
  BY <1>1, <1>2, <1>4 DEF IndInv, SnapshotIsDue, Due
<1>5. QED
  BY <1>3, <1>4

LEMMA ClaimKeepsInv ==
    ASSUME IndInv, TypeOK', NEW w \in Workers, Claim(w)
    PROVE  IndInv'
<1>1. PICK d \in Earliest(sched[w].due) : ClaimWon(w, d) \/ ClaimLost(w, d) \/ ClaimOrphaned(w, d)
  BY DEF Claim
<1>2. UNCHANGED <<now, crons, turns, deliveries, edit, failures>>
  BY DEF Claim
<1>3. sched[w] \in [pc : {"next"}, at : 0..MaxTime, due : SUBSET Due, fire : {NoFire}]
  BY DEF IndInv, TypeOK, Claim, Loop, Holding
<1>4. d \in sched[w].due /\ d \in Due /\ d.cron \in Crons /\ d.key \in Instants
  BY <1>1, <1>3 DEF Earliest, Due
<1>5. d.key <= sched[w].at /\ crons[d.cron].state # "unborn"
  BY <1>4 DEF IndInv, SnapshotIsDue
<1>6. now <= now'
  BY <1>2, CronAssumption DEF IndInv, TypeOK
<1>7. CASE ClaimWon(w, d)
  <2> DEFINE pc == IF sched[w].at - d.key > MaxCatchup THEN "skip" ELSE "turn"
  <2>1. pc \in {"skip", "turn"}
    OBVIOUS
  <2>2. sched' = [sched EXCEPT ![w].due = @ \ {d}, ![w].fire = d, ![w].pc = pc]
    BY <1>7 DEF ClaimWon
  <2>3. /\ Live(d.cron)
        /\ fires[d.cron][d.key] = "absent"
        /\ fires' = [fires EXCEPT ![d.cron][d.key] = "claimed"]
    BY <1>7 DEF ClaimWon
  <2> HIDE DEF pc
  <2>4. /\ sched'[w].pc \in {"skip", "turn"}
        /\ sched'[w].fire = d
        /\ sched'[w].at = sched[w].at
        /\ sched'[w].due \subseteq sched[w].due
    BY <1>3, <2>1, <2>2 DEF IndInv, TypeOK
  <2>5. \A v \in Workers : v # w => sched'[v] = sched[v]
    BY <2>2 DEF IndInv, TypeOK
  <2>6. turns[d.cron][d.key] = 0
    BY <1>4, <2>3 DEF IndInv, OutcomeMatchesTurn, Live
  <2>7. ASSUME NEW v \in Workers, v # w, Working(v) PROVE sched[v].fire # d
    <3>1. HoldsRightly(v)
      BY <2>7 DEF IndInv, HeldFire
    <3>2. sched[v].pc \in {"skip", "turn", "complete", "enqueue"}
      BY <2>7 DEF Working, Holding
    <3>3. QED
      BY <2>3, <2>6, <3>1, <3>2 DEF HoldsRightly
  <2>8. fires'[d.cron][d.key] = "claimed"
    BY <1>4, <2>3 DEF IndInv, TypeOK
  <2>9. \A c \in Crons, t \in Instants : ~(c = d.cron /\ t = d.key) => fires'[c][t] = fires[c][t]
    BY <1>4, <2>3 DEF IndInv, TypeOK
  <2>10. HeldFire'
    <3> SUFFICES ASSUME NEW v \in Workers, Working(v)' PROVE HoldsRightly(v)'
      BY DEF HeldFire
    <3>1. CASE v = w
      BY <1>2, <1>5, <2>4, <2>6, <2>8, <3>1 DEF HoldsRightly
    <3>2. CASE v # w
      <4>1. sched'[v] = sched[v] /\ Working(v) /\ HoldsRightly(v) /\ sched[v].fire # d
        BY <2>5, <2>7, <3>2 DEF Working, IndInv, HeldFire
      <4>2. sched[v].fire \in Due /\ sched[v].fire.cron \in Crons /\ sched[v].fire.key \in Instants
        BY <4>1, HeldTyped DEF IndInv, Working
      <4>3. fires'[sched[v].fire.cron][sched[v].fire.key] = fires[sched[v].fire.cron][sched[v].fire.key]
        BY <1>4, <2>9, <4>1, <4>2, SameFire
      <4>4. QED
        BY <1>2, <4>1, <4>3 DEF HoldsRightly, Live
    <3>3. QED
      BY <3>1, <3>2
  <2>11. FireHeldOnce'
    <3> SUFFICES ASSUME NEW u \in Workers, NEW v \in Workers, Working(u)', Working(v)', u # v
                 PROVE  sched'[u].fire # sched'[v].fire
      BY DEF FireHeldOnce
    <3>1. CASE u # w /\ v # w
      BY <2>5, <3>1 DEF IndInv, FireHeldOnce, Working
    <3>2. CASE u = w
      BY <2>4, <2>5, <2>7, <3>2 DEF Working
    <3>3. CASE v = w
      BY <2>4, <2>5, <2>7, <3>3 DEF Working
    <3>4. QED
      BY <3>1, <3>2, <3>3
  <2>12. SnapshotIsDue'
    BY <1>2, <1>6, <2>4, <2>5, SnapshotKept
  <2>13. OutcomeMatchesTurn' /\ DeletedLeavesNothing'
    BY <1>2, <2>3, <2>8, <2>9 DEF IndInv, OutcomeMatchesTurn, DeletedLeavesNothing, Live
  <2>14. RepliesFollowTurns' /\ RunsOnce'
    BY <1>2 DEF IndInv, RepliesFollowTurns, RunsOnce
  <2>15. QED
    BY <2>10, <2>11, <2>12, <2>13, <2>14 DEF IndInv
<1>8. CASE ClaimLost(w, d) \/ ClaimOrphaned(w, d)
  <2> DEFINE rest == [sched[w] EXCEPT !.due = sched[w].due \ {d}]
  <2>1. /\ rest.pc = "next"
        /\ rest.at = sched[w].at
        /\ rest.due \subseteq sched[w].due
    BY <1>3
  <2>2. UNCHANGED fires /\ (sched' = [sched EXCEPT ![w] = Idle] \/ sched' = [sched EXCEPT ![w] = rest])
    BY <1>8 DEF ClaimLost, ClaimOrphaned
  <2> HIDE DEF rest
  <2>3. sched'[w] = Idle \/ sched'[w] = rest
    BY <2>2 DEF IndInv, TypeOK
  <2>4. \A v \in Workers : v # w => sched'[v] = sched[v]
    BY <2>2 DEF IndInv, TypeOK
  <2>5. ~Working(w)'
    BY <2>1, <2>3 DEF Working, Holding, Idle
  <2>6. \A v \in Workers : \/ sched'[v] = Idle
                           \/ sched'[v].at = sched[v].at /\ sched'[v].due \subseteq sched[v].due
    <3> SUFFICES ASSUME NEW v \in Workers, sched'[v] # Idle
                 PROVE  sched'[v].at = sched[v].at /\ sched'[v].due \subseteq sched[v].due
      OBVIOUS
    <3>1. CASE v # w
      BY <2>4, <3>1
    <3>2. CASE v = w
      BY <2>1, <2>3, <3>2
    <3>3. QED
      BY <3>1, <3>2
  <2>7. SnapshotIsDue'
    BY <1>2, <1>6, <2>6, SnapshotKept
  <2>8. QED
    BY <1>2, <2>2, <2>4, <2>5, <2>7, QuietStep
<1>9. QED
  BY <1>1, <1>7, <1>8

\* Ending a held fire with a status that matches its turn: both endings write
\* the outcome and move the schedule, and the loop lets go or queues a reply.
LEMMA EndingKeepsInv ==
    ASSUME IndInv, TypeOK', NEW w \in Workers, NEW status \in {"skipped", "done"},
           sched[w].pc = (IF status = "done" THEN "complete" ELSE "skip"),
           Record(sched[w].fire.cron, sched[w].fire.key, status),
           Advance(sched[w].fire.cron, sched[w].at),
           Continue(w) \/ (status = "done" /\ sched' = [sched EXCEPT ![w].pc = "enqueue"]),
           UNCHANGED <<now, turns, deliveries, edit, failures>>
    PROVE  IndInv'
<1> DEFINE f == sched[w].fire
<1>1. Working(w) /\ HoldsRightly(w) /\ sched[w].pc \in Holding
  BY DEF Working, Holding, IndInv, HeldFire
<1>2. f \in Due /\ f.cron \in Crons /\ f.key \in Instants /\ sched[w].at \in 0..MaxTime
  BY <1>1, HeldTyped DEF IndInv
<1>3. \A c \in Crons : crons'[c].state = crons[c].state
  BY <1>2 DEF Advance, IndInv, TypeOK, Row
<1>4. \A c \in Crons, t \in Instants :
        ~(c = f.cron /\ t = f.key) => fires'[c][t] = fires[c][t]
  BY <1>2 DEF Record, IndInv, TypeOK
<1>5. /\ Live(f.cron) => fires'[f.cron][f.key] = status
      /\ ~Live(f.cron) => fires' = fires
  BY <1>2 DEF Record, IndInv, TypeOK
<1>6. \A v \in Workers : v # w => sched'[v] = sched[v]
  BY DEF Continue, IndInv, TypeOK
<1>7. turns[f.cron][f.key] = (IF status = "done" THEN 1 ELSE 0)
  BY <1>1 DEF HoldsRightly
<1> HIDE DEF f
<1>8. ASSUME NEW v \in Workers, v # w, Working(v)'
      PROVE  HoldsRightly(v)' /\ Working(v) /\ sched[v].fire # f
  <2>1. sched'[v] = sched[v] /\ Working(v) /\ HoldsRightly(v)
    BY <1>6, <1>8 DEF Working, IndInv, HeldFire
  <2>2. sched[v].fire # f
    BY <1>1, <1>8, <2>1 DEF IndInv, FireHeldOnce, f
  <2>3. sched[v].fire \in Due /\ sched[v].fire.cron \in Crons /\ sched[v].fire.key \in Instants
    BY <2>1, HeldTyped DEF IndInv, Working
  <2>4. fires'[sched[v].fire.cron][sched[v].fire.key] = fires[sched[v].fire.cron][sched[v].fire.key]
    BY <1>2, <1>4, <2>2, <2>3, SameFire
  <2>5. QED
    BY <1>3, <2>1, <2>2, <2>3, <2>4 DEF HoldsRightly, Live
<1>9. OutcomeMatchesTurn' /\ DeletedLeavesNothing'
  <2>1. ASSUME NEW c \in Crons, NEW t \in Instants
        PROVE  /\ fires'[c][t] = "done" => turns[c][t] = 1
               /\ fires'[c][t] = "skipped" => turns[c][t] = 0
               /\ fires'[c][t] = "absent" /\ crons'[c].state # "deleted" => turns[c][t] = 0
               /\ crons'[c].state = "deleted" => fires'[c][t] = "absent"
    <3>1. CASE c = f.cron /\ t = f.key /\ Live(c)
      BY <1>3, <1>5, <1>7, <3>1 DEF Live
    <3>2. CASE ~(c = f.cron /\ t = f.key /\ Live(c))
      <4>1. fires'[c][t] = fires[c][t] /\ crons'[c].state = crons[c].state
        BY <1>3, <1>4, <1>5, <3>2
      <4>2. QED
        BY <4>1 DEF IndInv, OutcomeMatchesTurn, DeletedLeavesNothing
    <3>3. QED
      BY <3>1, <3>2
  <2>2. QED
    BY <2>1 DEF OutcomeMatchesTurn, DeletedLeavesNothing
<1>10. RepliesFollowTurns' /\ RunsOnce'
  BY DEF IndInv, RepliesFollowTurns, RunsOnce
<1>11. CASE Continue(w)
  <2>1. /\ SnapshotIsDue'
        /\ ~Working(w)'
    BY <1>3, <1>11, ContinueReleases
  <2>2. HeldFire'
    BY <1>8, <2>1 DEF HeldFire
  <2>3. FireHeldOnce'
    BY <1>6, <1>8, <2>1 DEF FireHeldOnce, IndInv
  <2>4. QED
    BY <1>9, <1>10, <2>1, <2>2, <2>3 DEF IndInv
<1>12. CASE status = "done" /\ sched' = [sched EXCEPT ![w].pc = "enqueue"]
  <2>1. sched[w] \in [pc : Holding, at : 0..MaxTime, due : SUBSET Due, fire : Due]
    BY <1>1 DEF IndInv, TypeOK, Loop, Holding
  <2>2. /\ sched'[w].pc = "enqueue"
        /\ sched'[w].fire = f
        /\ sched'[w].at = sched[w].at
        /\ sched'[w].due = sched[w].due
    BY <1>12, <2>1 DEF IndInv, TypeOK, f
  <2>3. HoldsRightly(w)'
    BY <1>1, <1>2, <1>3, <1>7, <1>12, <2>2 DEF HoldsRightly, f
  <2>4. HeldFire'
    BY <1>8, <2>3 DEF HeldFire
  <2>5. FireHeldOnce'
    <3> SUFFICES ASSUME NEW u \in Workers, NEW v \in Workers, Working(u)', Working(v)', u # v
                 PROVE  sched'[u].fire # sched'[v].fire
      BY DEF FireHeldOnce
    <3>1. CASE u # w /\ v # w
      BY <1>6, <1>8, <3>1 DEF IndInv, FireHeldOnce
    <3>2. CASE u = w \/ v = w
      BY <1>6, <1>8, <2>2, <3>2
    <3>3. QED
      BY <3>1, <3>2
  <2>6. now <= now'
    BY CronAssumption DEF IndInv, TypeOK
  <2>7. SnapshotIsDue'
    BY <1>3, <1>6, <2>2, <2>6, SnapshotKept
  <2>8. QED
    BY <1>9, <1>10, <2>4, <2>5, <2>7 DEF IndInv
<1>13. QED
  BY <1>11, <1>12

\* The turn starts for an instant that started none.
LEMMA TurnKeepsInv ==
    ASSUME IndInv, TypeOK', NEW w \in Workers, RunTurn(w)
    PROVE  IndInv'
<1> DEFINE f == sched[w].fire
<1>1. sched[w].pc = "turn" /\ Working(w) /\ HoldsRightly(w) /\ sched[w].pc \in Holding
  BY DEF RunTurn, Working, Holding, IndInv, HeldFire
<1>2. f \in Due /\ f.cron \in Crons /\ f.key \in Instants
  BY <1>1, HeldTyped DEF IndInv
<1>3. /\ turns' = [turns EXCEPT ![f.cron][f.key] = @ + 1]
      /\ sched' = [sched EXCEPT ![w].pc = "complete"]
      /\ UNCHANGED <<now, crons, fires, deliveries>>
  BY DEF RunTurn, db
<1>4. turns[f.cron][f.key] = 0
  BY <1>1 DEF HoldsRightly
<1>5. turns'[f.cron][f.key] = 1
  BY <1>2, <1>3, <1>4 DEF IndInv, TypeOK
<1>6. \A c \in Crons, t \in Instants :
        ~(c = f.cron /\ t = f.key) => turns'[c][t] = turns[c][t]
  BY <1>2, <1>3 DEF IndInv, TypeOK
<1>7. sched[w] \in [pc : Holding, at : 0..MaxTime, due : SUBSET Due, fire : Due]
  BY <1>1 DEF IndInv, TypeOK, Loop, Holding
<1>8. /\ sched'[w].pc = "complete"
      /\ sched'[w].fire = f
      /\ sched'[w].at = sched[w].at
      /\ sched'[w].due = sched[w].due
  BY <1>3, <1>7 DEF IndInv, TypeOK
<1>9. \A v \in Workers : v # w => sched'[v] = sched[v]
  BY <1>3 DEF IndInv, TypeOK
<1>10. fires[f.cron][f.key] # "skipped" /\
       (fires[f.cron][f.key] = "absent" => crons[f.cron].state = "deleted")
  <2>1. CASE Live(f.cron)
    BY <1>1, <2>1 DEF HoldsRightly
  <2>2. CASE crons[f.cron].state = "deleted"
    BY <1>2, <2>2 DEF IndInv, DeletedLeavesNothing
  <2>3. crons[f.cron].state \in {"live", "deleted"}
    BY <1>1, <1>2 DEF HoldsRightly, IndInv, TypeOK, Row, RowStates
  <2>4. QED
    BY <2>1, <2>2, <2>3 DEF Live
<1> HIDE DEF f
<1>11. HeldFire'
  <2> SUFFICES ASSUME NEW v \in Workers, Working(v)' PROVE HoldsRightly(v)'
    BY DEF HeldFire
  <2>1. CASE v = w
    BY <1>1, <1>3, <1>5, <1>8, <2>1 DEF HoldsRightly, Live, f
  <2>2. CASE v # w
    <3>1. sched'[v] = sched[v] /\ Working(v) /\ HoldsRightly(v)
      BY <1>9, <2>2 DEF Working, IndInv, HeldFire
    <3>2. sched[v].fire # f
      BY <1>1, <2>2, <3>1 DEF IndInv, FireHeldOnce, f
    <3>3. sched[v].fire \in Due /\ sched[v].fire.cron \in Crons /\ sched[v].fire.key \in Instants
      BY <3>1, HeldTyped DEF IndInv, Working
    <3>4. turns'[sched[v].fire.cron][sched[v].fire.key] = turns[sched[v].fire.cron][sched[v].fire.key]
      BY <1>2, <1>6, <3>2, <3>3, SameFire
    <3>5. QED
      BY <1>3, <3>1, <3>4 DEF HoldsRightly, Live
  <2>3. QED
    BY <2>1, <2>2
<1>12. FireHeldOnce'
  <2>1. \A v \in Workers : Working(v)' => Working(v) /\ sched'[v].fire = sched[v].fire
    BY <1>1, <1>8, <1>9 DEF Working, f
  <2>2. QED
    BY <2>1 DEF IndInv, FireHeldOnce
<1>13. SnapshotIsDue'
  <2>1. now <= now'
    BY <1>3, CronAssumption DEF IndInv, TypeOK
  <2>2. QED
    BY <1>3, <1>8, <1>9, <2>1, SnapshotKept
<1>14. OutcomeMatchesTurn'
  BY <1>3, <1>5, <1>6, <1>10 DEF IndInv, OutcomeMatchesTurn
<1>15. RepliesFollowTurns' /\ RunsOnce' /\ DeletedLeavesNothing'
  BY <1>3, <1>5, <1>6 DEF IndInv, RepliesFollowTurns, RunsOnce, DeletedLeavesNothing
<1>16. QED
  BY <1>11, <1>12, <1>13, <1>14, <1>15 DEF IndInv

LEMMA EnqueueKeepsInv ==
    ASSUME IndInv, TypeOK', NEW w \in Workers, Enqueue(w)
    PROVE  IndInv'
<1>1. /\ sched[w].pc = "enqueue"
      /\ deliveries' = deliveries \cup {<<sched[w].fire.cron, sched[w].fire.key>>}
      /\ Continue(w)
      /\ UNCHANGED <<now, crons, fires, turns, edit, failures>>
  BY DEF Enqueue
<1>2. turns[sched[w].fire.cron][sched[w].fire.key] = 1
  BY <1>1 DEF IndInv, HeldFire, HoldsRightly, Working, Holding
<1>3. RepliesFollowTurns'
  BY <1>1, <1>2 DEF IndInv, RepliesFollowTurns
<1>4. /\ SnapshotIsDue'
      /\ ~Working(w)'
      /\ \A v \in Workers : v # w => sched'[v] = sched[v]
  BY <1>1, ContinueReleases
<1>5. \A v \in Workers : Working(v)' => sched'[v] = sched[v] /\ Working(v)
  BY <1>4 DEF Working
<1>6. HeldFire' /\ FireHeldOnce'
  BY <1>1, <1>5 DEF IndInv, HeldFire, FireHeldOnce, HoldsRightly, Live
<1>7. OutcomeMatchesTurn' /\ RunsOnce' /\ DeletedLeavesNothing'
  BY <1>1 DEF IndInv, OutcomeMatchesTurn, RunsOnce, DeletedLeavesNothing
<1>8. QED
  BY <1>3, <1>4, <1>6, <1>7 DEF IndInv

\* Deleting a cron drops the rows of its fires and nothing a loop relies on.
LEMMA DeleteKeepsInv ==
    ASSUME IndInv, TypeOK', NEW c \in Crons, Delete(c)
    PROVE  IndInv'
<1>1. /\ crons' = [crons EXCEPT ![c] = Deleted]
      /\ fires' = [fires EXCEPT ![c] = [t \in Instants |-> "absent"]]
      /\ UNCHANGED <<now, turns, deliveries, sched, edit, failures>>
  BY DEF Delete
<1>2. \A b \in Crons : b # c => crons'[b] = crons[b] /\ fires'[b] = fires[b]
  BY <1>1 DEF IndInv, TypeOK
<1>3. crons'[c].state = "deleted" /\ \A t \in Instants : fires'[c][t] = "absent"
  BY <1>1 DEF Deleted, IndInv, TypeOK
<1>4. HeldFire'
  <2> SUFFICES ASSUME NEW v \in Workers, Working(v)' PROVE HoldsRightly(v)'
    BY DEF HeldFire
  <2>1. Working(v) /\ HoldsRightly(v) /\ sched[v].fire.cron \in Crons
    BY <1>1, HeldTyped DEF Working, IndInv, HeldFire
  <2>2. QED
    BY <1>1, <1>2, <1>3, <2>1 DEF HoldsRightly, Live
<1>5. FireHeldOnce' /\ RepliesFollowTurns' /\ RunsOnce'
  BY <1>1 DEF IndInv, FireHeldOnce, Working, RepliesFollowTurns, RunsOnce
<1>6. SnapshotIsDue'
  <2>1. now <= now'
    BY <1>1, CronAssumption DEF IndInv, TypeOK
  <2>2. QED
    BY <1>1, <1>2, <1>3, <2>1, SnapshotKept
<1>7. DeletedLeavesNothing' /\ OutcomeMatchesTurn'
  BY <1>1, <1>2, <1>3 DEF IndInv, DeletedLeavesNothing, OutcomeMatchesTurn
<1>8. QED
  BY <1>4, <1>5, <1>6, <1>7 DEF IndInv

\* Every step keeps the inductive invariant: one step of the proof per action.
LEMMA StepKeepsInv == IndInv /\ [Next]_vars => IndInv'
<1> SUFFICES ASSUME IndInv, [Next]_vars PROVE IndInv'
  OBVIOUS
<1>1. TypeOK'
  BY StepTyped DEF IndInv
<1>2. now \in Nat /\ now' \in Nat
  BY <1>1, CronAssumption DEF IndInv, TypeOK
<1>3. ASSUME NEW w \in Workers, Tick(w) PROVE IndInv'
  <2> DEFINE due == {[cron |-> c, key |-> crons[c].next] : c \in {d \in Crons : IsDue(d, now)}}
  <2>1. /\ sched' = [sched EXCEPT ![w] = [pc |-> "next", at |-> now, due |-> due, fire |-> NoFire]]
        /\ UNCHANGED <<now, crons, fires, turns, deliveries, edit, failures>>
    BY <1>3 DEF Tick, db
  <2>2. \A d \in due : d.key <= now /\ crons[d.cron].state # "unborn"
    BY DEF IsDue, Live
  <2> HIDE DEF due
  <2>3. sched'[w] = [pc |-> "next", at |-> now, due |-> due, fire |-> NoFire]
    BY <2>1 DEF IndInv, TypeOK
  <2>4. \A v \in Workers : v # w => sched'[v] = sched[v]
    BY <2>1 DEF IndInv, TypeOK
  <2>5. SnapshotIsDue'
    BY <1>2, <2>1, <2>2, <2>3, <2>4 DEF IndInv, SnapshotIsDue
  <2>6. ~Working(w)'
    BY <2>3 DEF Working, Holding
  <2>7. QED
    BY <1>1, <2>1, <2>4, <2>5, <2>6, QuietStep
<1>4. ASSUME NEW w \in Workers, Claim(w) PROVE IndInv'
  BY <1>1, <1>4, ClaimKeepsInv
<1>5. ASSUME NEW w \in Workers, SkipFire(w) PROVE IndInv'
  BY <1>1, <1>5, EndingKeepsInv DEF SkipFire
<1>6. ASSUME NEW w \in Workers, RunTurn(w) PROVE IndInv'
  BY <1>1, <1>6, TurnKeepsInv
<1>7. ASSUME NEW w \in Workers, CompleteFire(w) PROVE IndInv'
  BY <1>1, <1>7, EndingKeepsInv DEF CompleteFire
<1>8. ASSUME NEW w \in Workers, Enqueue(w) PROVE IndInv'
  BY <1>1, <1>8, EnqueueKeepsInv
<1>9. ASSUME NEW w \in Workers, LoseTick(w) PROVE IndInv'
  <2>1. sched' = [sched EXCEPT ![w] = Idle] /\ UNCHANGED <<now, crons, fires, turns, deliveries, edit>>
    BY <1>9 DEF LoseTick, db
  <2>2. sched'[w] = Idle /\ \A v \in Workers : v # w => sched'[v] = sched[v]
    BY <2>1 DEF IndInv, TypeOK
  <2>3. ~Working(w)'
    BY <2>2 DEF Working, Holding, Idle
  <2>4. SnapshotIsDue'
    BY <1>1, <1>2, <2>1, <2>2, SnapshotKept
  <2>5. QED
    BY <1>1, <2>1, <2>2, <2>3, <2>4, QuietStep
<1>10. ASSUME sched' = sched, UNCHANGED <<fires, turns, deliveries>>, now <= now',
              \A c \in Crons : crons[c].state # "unborn" => crons'[c].state = crons[c].state,
              \A c \in Crons : crons[c].state = "unborn" => crons'[c].state # "deleted"
       PROVE  IndInv'
  <2>1. SnapshotIsDue'
    BY <1>1, <1>10, SnapshotKept
  <2>2. QED
    BY <1>1, <1>10, <2>1, QuietStep
<1>11. ASSUME NEW u \in Users, NEW c \in Crons, ToggleRead(u, c) PROVE IndInv'
  BY <1>2, <1>10, <1>11 DEF ToggleRead, db
<1>12. ASSUME NEW u \in Users, SetEnabledRead(u) PROVE IndInv'
  BY <1>2, <1>10, <1>12 DEF SetEnabledRead, db
<1>13. ASSUME NEW u \in Users, SetEnabledWrite(u) PROVE IndInv'
  <2>1. edit[u].cron \in Crons
    BY <1>13, EditTyped DEF IndInv, SetEnabledWrite
  <2>2. \A c \in Crons : crons'[c].state = crons[c].state
    BY <1>13, <2>1 DEF SetEnabledWrite, IndInv, TypeOK, Row
  <2>3. UNCHANGED <<now, fires, turns, deliveries, sched>>
    BY <1>13 DEF SetEnabledWrite
  <2>4. now <= now'
    BY <1>2, <2>3
  <2>5. QED
    BY <1>10, <2>2, <2>3, <2>4
<1>14. ASSUME NEW c \in Crons, Create(c) PROVE IndInv'
  <2>1. \A b \in Crons : b # c => crons'[b] = crons[b]
    BY <1>14 DEF Create, IndInv, TypeOK
  <2>2. crons[c].state = "unborn" /\ crons'[c].state = "live"
    BY <1>14 DEF Create, IndInv, TypeOK
  <2>3. QED
    BY <1>2, <1>10, <1>14, <2>1, <2>2 DEF Create
<1>15. ASSUME NEW c \in Crons, Delete(c) PROVE IndInv'
  BY <1>1, <1>15, DeleteKeepsInv
<1>16. CASE AdvanceClock
  BY <1>2, <1>10, <1>16 DEF AdvanceClock, db
<1>17. CASE UNCHANGED vars
  BY <1>2, <1>10, <1>17 DEF vars
<1>18. QED
  BY <1>3, <1>4, <1>5, <1>6, <1>7, <1>8, <1>9, <1>11, <1>12, <1>13, <1>14, <1>15, <1>16, <1>17
     DEF Next, WorkerStep, UserStep

LEMMA Invariance == Spec => []IndInv
<1>1. Init => IndInv
  BY InitInv
<1>2. IndInv /\ [Next]_vars => IndInv'
  BY StepKeepsInv
<1>3. QED
  BY <1>1, <1>2, PTL DEF Spec

-----------------------------------------------------------------------------
(* The results *)

\* No instant of any cron starts two turns, for any number of processes
\* ticking against one database and any number of ticks lost.
THEOREM ExactlyOnce == Spec => []RunsOnce
<1>1. IndInv => RunsOnce
  BY DEF IndInv
<1>2. QED
  BY <1>1, Invariance, PTL

\* A fire's recorded outcome always tells whether its turn ran.
THEOREM OutcomesAreTrue == Spec => []OutcomeMatchesTurn
<1>1. IndInv => OutcomeMatchesTurn
  BY DEF IndInv
<1>2. QED
  BY <1>1, Invariance, PTL

\* No fire row of a deleted cron exists, whenever the delete came.
THEOREM NoOrphanFires == Spec => []DeletedLeavesNothing
<1>1. IndInv => DeletedLeavesNothing
  BY DEF IndInv
<1>2. QED
  BY <1>1, Invariance, PTL

\* Every step of the scheduler is a step of the contract or leaves it alone.
LEMMA StepRefines ==
    IndInv /\ [Next]_vars => [Contract!Next]_<<now, turns, deliveries>>
<1> SUFFICES ASSUME IndInv, [Next]_vars PROVE [Contract!Next]_<<now, turns, deliveries>>
  OBVIOUS
<1>1. ASSUME NEW w \in Workers, RunTurn(w) PROVE Contract!Next
  <2> DEFINE f == sched[w].fire
  <2>1. sched[w].pc = "turn" /\ sched[w].pc \in Holding /\ Working(w) /\ HoldsRightly(w)
    BY <1>1 DEF RunTurn, Working, Holding, IndInv, HeldFire
  <2>2. f.cron \in Crons /\ f.key \in Instants
    BY <2>1, HeldTyped DEF IndInv
  <2>3. f.key <= sched[w].at /\ turns[f.cron][f.key] = 0
    BY <2>1 DEF HoldsRightly
  <2>4. sched[w].at <= now /\ sched[w].at \in Nat /\ now \in Nat /\ f.key \in Nat
    BY <2>1, <2>2, HeldTyped, CronAssumption DEF IndInv, SnapshotIsDue, TypeOK, Instants
  <2>5. f.key <= now
    BY <2>3, <2>4
  <2>6. turns' = [turns EXCEPT ![f.cron][f.key] = 1] /\ UNCHANGED <<now, deliveries>>
    BY <1>1, <2>3 DEF RunTurn, db
  <2> HIDE DEF f
  <2>7. Contract!Fire(f.cron, f.key)
    BY <2>3, <2>5, <2>6 DEF Contract!Fire
  <2>8. QED
    BY <2>2, <2>7 DEF Contract!Next
<1>2. ASSUME NEW w \in Workers, Enqueue(w)
      PROVE  Contract!Next \/ UNCHANGED <<now, turns, deliveries>>
  <2> DEFINE f == sched[w].fire
  <2>1. sched[w].pc = "enqueue" /\ sched[w].pc \in Holding /\ Working(w) /\ HoldsRightly(w)
    BY <1>2 DEF Enqueue, Working, Holding, IndInv, HeldFire
  <2>2. f.cron \in Crons /\ f.key \in Instants
    BY <2>1, HeldTyped DEF IndInv
  <2>3. turns[f.cron][f.key] = 1
    BY <2>1 DEF HoldsRightly
  <2>4. deliveries' = deliveries \cup {<<f.cron, f.key>>} /\ UNCHANGED <<now, turns>>
    BY <1>2 DEF Enqueue
  <2> HIDE DEF f
  <2>5. CASE <<f.cron, f.key>> \in deliveries
    BY <2>4, <2>5
  <2>6. CASE <<f.cron, f.key>> \notin deliveries
    BY <2>2, <2>3, <2>4, <2>6 DEF Contract!Reply, Contract!Next
  <2>7. QED
    BY <2>5, <2>6
<1>3. CASE AdvanceClock
  BY <1>3 DEF AdvanceClock, db, Contract!Pass, Contract!Next
<1>4. ASSUME NEW w \in Workers, Tick(w) \/ Claim(w) \/ SkipFire(w) \/ CompleteFire(w) \/ LoseTick(w)
      PROVE  UNCHANGED <<now, turns, deliveries>>
  BY <1>4 DEF Tick, Claim, SkipFire, CompleteFire, LoseTick, db
<1>5. ASSUME NEW u \in Users, UserStep(u) PROVE UNCHANGED <<now, turns, deliveries>>
  BY <1>5 DEF UserStep, ToggleRead, SetEnabledRead, SetEnabledWrite, db
<1>6. ASSUME NEW c \in Crons, Create(c) \/ Delete(c) PROVE UNCHANGED <<now, turns, deliveries>>
  BY <1>6 DEF Create, Delete
<1>7. CASE UNCHANGED vars
  BY <1>7 DEF vars
<1>8. QED
  BY <1>1, <1>2, <1>3, <1>4, <1>5, <1>6, <1>7 DEF Next, WorkerStep

\* The scheduler implements its contract: at most one turn per instant, never
\* early, and replies only after turns.
THEOREM ContractHolds == Spec => ImplementsContract
<1>1. Init => Contract!Init
  BY DEF Init, Contract!Init
<1>2. IndInv /\ [Next]_vars => [Contract!Next]_<<now, turns, deliveries>>
  BY StepRefines
<1>3. QED
  BY <1>1, <1>2, Invariance, PTL DEF Spec, ImplementsContract, Contract!Spec

-----------------------------------------------------------------------------
(* One process that loses no tick: a cron never waits for an instant that was *)
(* claimed                                                                  *)

SingleLoop == (\A v, w \in Workers : v = w) /\ MaxFailures = 0

\* What was claimed lies behind the clock and behind the tick that goes on, and a
\* toggle that is about to be written looks past the clock.
ClaimedByNow == \A c \in Crons, t \in Instants : fires[c][t] # "absent" => t <= now
ClaimedByTick ==
    \A w \in Workers : sched[w].pc # "idle" =>
        \A c \in Crons, t \in Instants : fires[c][t] # "absent" => t <= sched[w].at
TogglesLookAhead ==
    \A u \in Users : edit[u].pc = "write" /\ edit[u].enable =>
        edit[u].next = Never \/ edit[u].next > now

ArmedInv ==
    /\ ClaimedByNow
    /\ ClaimedByTick
    /\ TogglesLookAhead
    /\ ArmedIsClaimable

\* A schedule names an instant after the one it is asked for.
LEMMA LaterFire ==
    ASSUME TypeOK, NEW c \in Crons, NEW at \in 0..MaxTime
    PROVE  NextFireAfter(Schedule(c), at) = Never \/ NextFireAfter(Schedule(c), at) > at
<1> USE CronAssumption
<1>1. CASE Matches[c] = {}
  <2>1. NextFireAfter(Schedule(c), at) = IntervalAfter(Secs[c], crons[c].anchor, at)
    BY <1>1 DEF NextFireAfter, Schedule, Interval
  <2>2. Secs[c] \in Nat \ {0} /\ at \in Nat /\ crons[c].anchor \in Nat
    BY DEF TypeOK, Instants, Row
  <2>3. CASE crons[c].anchor > at
    BY <2>1, <2>3 DEF IntervalAfter
  <2>4. CASE crons[c].anchor <= at
    BY <2>1, <2>2, <2>4, IntervalAfterBounds
  <2>5. QED
    BY <2>2, <2>3, <2>4
<1>2. CASE Matches[c] # {}
  <2>1. NextFireAfter(Schedule(c), at) = CalendarAfter(Matches[c], at)
    BY <1>2 DEF NextFireAfter, Schedule, Calendar
  <2>2. Matches[c] \in SUBSET Nat /\ at \in Nat
    BY DEF Instants
  <2>3. QED
    BY <2>1, <2>2, CalendarAfterFirst
<1>3. QED
  BY <1>1, <1>2

\* A loop that is on its way keeps the time its tick started.
LEMMA TickTime ==
    ASSUME TypeOK, NEW w \in Workers, SingleLoop
    PROVE  /\ sched[w].at \in 0..MaxTime
           /\ Idle.pc = "idle"
           /\ \A v \in Workers : v = w
BY DEF TypeOK, Loop, SingleLoop, Idle

\* A step that claims nothing and moves neither the clock nor a cron.
LEMMA QuietArmed ==
    ASSUME ArmedInv, UNCHANGED <<now, crons, fires>>,
           \A w \in Workers : /\ sched'[w].pc # "idle" =>
                                  sched[w].pc # "idle" /\ sched'[w].at = sched[w].at
                              /\ sched[w].pc \in {"skip", "turn", "complete"} =>
                                    /\ sched'[w].pc \in {"skip", "turn", "complete"}
                                    /\ sched'[w].fire = sched[w].fire,
           TogglesLookAhead'
    PROVE  ArmedInv'
<1>1. ClaimedByNow' /\ ClaimedByTick'
  BY DEF ArmedInv, ClaimedByNow, ClaimedByTick
<1>2. \A c \in Crons : InFlight(c) => InFlight(c)'
  BY DEF InFlight
<1>3. ArmedIsClaimable'
  BY <1>2 DEF ArmedInv, ArmedIsClaimable, Live
<1>4. QED
  BY <1>1, <1>3 DEF ArmedInv

LEMMA SameToggles ==
    ASSUME TogglesLookAhead, UNCHANGED <<now, edit>>
    PROVE  TogglesLookAhead'
BY DEF TogglesLookAhead

LEMMA TickArmed ==
    ASSUME IndInv, ArmedInv, SingleLoop, NEW w \in Workers, Tick(w)
    PROVE  ArmedInv'
<1>1. /\ UNCHANGED <<now, crons, fires, edit>>
      /\ sched[w].pc = "idle" /\ sched'[w].pc = "next" /\ sched'[w].at = now
  BY DEF Tick, db, IndInv, TypeOK
<1>2. \A v \in Workers : v = w
  BY DEF SingleLoop
<1>3. ClaimedByNow' /\ TogglesLookAhead'
  BY <1>1, SameToggles DEF ArmedInv, ClaimedByNow
<1>4. ClaimedByTick'
  BY <1>1, <1>2 DEF ArmedInv, ClaimedByNow, ClaimedByTick
<1>5. ArmedIsClaimable'
  BY <1>1, <1>2 DEF ArmedInv, ArmedIsClaimable, InFlight, Live
<1>6. QED
  BY <1>3, <1>4, <1>5 DEF ArmedInv

\* The cron of the instant that was won is in flight until its schedule moves on.
LEMMA ClaimArmed ==
    ASSUME IndInv, ArmedInv, SingleLoop, NEW w \in Workers, Claim(w)
    PROVE  ArmedInv'
<1>0. PICK d \in Earliest(sched[w].due) : ClaimWon(w, d) \/ ClaimLost(w, d) \/ ClaimOrphaned(w, d)
  BY DEF Claim
<1>1. /\ sched[w].pc = "next" /\ UNCHANGED <<now, crons, edit>>
      /\ sched[w] \in Loop /\ sched[w].at \in 0..MaxTime /\ DOMAIN sched = Workers
      /\ \A v \in Workers : v = w
      /\ d \in sched[w].due /\ d \in Due /\ d.key <= sched[w].at /\ sched[w].at <= now
  BY <1>0, TickTime DEF Claim, IndInv, TypeOK, SnapshotIsDue, Earliest, Loop
<1>2. TogglesLookAhead'
  BY <1>1, SameToggles DEF ArmedInv
<1>3. CASE ClaimLost(w, d) \/ ClaimOrphaned(w, d)
  <2>1. UNCHANGED fires
    BY <1>3 DEF ClaimLost, ClaimOrphaned
  <2>2. sched'[w] = Idle \/ (sched'[w].pc = "next" /\ sched'[w].at = sched[w].at)
    BY <1>1, <1>3 DEF ClaimLost, ClaimOrphaned, Loop
  <2>3. QED
    BY <1>1, <1>2, <2>1, <2>2, TickTime, QuietArmed DEF IndInv
<1>4. CASE ClaimWon(w, d)
  <2>1. d.cron \in Crons /\ d.key \in Instants
    BY <1>1 DEF Due
  <2>2. /\ fires' = [fires EXCEPT ![d.cron][d.key] = "claimed"]
        /\ sched'[w].at = sched[w].at /\ sched'[w].fire = d
        /\ sched'[w].pc \in {"skip", "turn"}
    BY <1>1, <1>4 DEF ClaimWon, Loop
  <2>3. fires \in [Crons -> [Instants -> FireStatus]]
    BY DEF IndInv, TypeOK
  <2>4. \A c \in Crons, t \in Instants :
           fires'[c][t] # "absent" => fires[c][t] # "absent" \/ t = d.key
    BY <2>1, <2>2, <2>3
  <2>5. \A c \in Crons \ {d.cron} : fires'[c] = fires[c]
    BY <2>1, <2>2, <2>3
  <2>6. d.key \in Nat /\ sched[w].at \in Nat /\ now \in Nat
    BY <1>1, <2>1, CronAssumption DEF Instants, IndInv, TypeOK
  <2>7. ClaimedByNow'
    BY <1>1, <2>4, <2>6 DEF ArmedInv, ClaimedByNow
  <2>8. ClaimedByTick'
    BY <1>1, <2>2, <2>4, <2>6 DEF ArmedInv, ClaimedByTick
  <2>9. InFlight(d.cron)'
    BY <2>2 DEF InFlight
  <2>10. \A c \in Crons : ~InFlight(c)
    BY <1>1 DEF InFlight
  <2>11. ArmedIsClaimable'
    BY <1>1, <2>5, <2>9, <2>10 DEF ArmedInv, ArmedIsClaimable, Live
  <2>12. QED
    BY <1>2, <2>7, <2>8, <2>11 DEF ArmedInv
<1>5. QED
  BY <1>0, <1>3, <1>4

\* The end of a fire: the schedule moves past the time of the tick, and with it
\* past everything that was claimed.
LEMMA EndingArmed ==
    ASSUME IndInv, ArmedInv, SingleLoop, NEW w \in Workers, NEW status,
           sched[w].pc \in {"skip", "complete"},
           Record(sched[w].fire.cron, sched[w].fire.key, status),
           Advance(sched[w].fire.cron, sched[w].at),
           Continue(w) \/ sched' = [sched EXCEPT ![w].pc = "enqueue"],
           UNCHANGED <<now, edit>>
    PROVE  ArmedInv'
<1> DEFINE f == sched[w].fire
<1>1. /\ f.cron \in Crons /\ f.key \in Instants /\ sched[w].at \in 0..MaxTime
      /\ f.key <= sched[w].at /\ sched[w].at <= now
      /\ \A v \in Workers : v = w
  BY HeldTyped, TickTime DEF IndInv, HeldFire, HoldsRightly, Working, Holding, SnapshotIsDue
<1>2. /\ fires \in [Crons -> [Instants -> FireStatus]]
      /\ crons \in [Crons -> Row]
      /\ now \in Nat /\ sched[w].at \in Nat /\ Instants \subseteq Nat
      /\ sched[w] \in Loop /\ DOMAIN sched = Workers
  BY <1>1, CronAssumption DEF IndInv, TypeOK, Instants
<1>3. \A c \in Crons, t \in Instants :
         fires'[c][t] # "absent" => fires[c][t] # "absent" \/ t = f.key
  BY <1>1, <1>2 DEF Record
<1>4. \A c \in Crons \ {f.cron} : fires'[c] = fires[c] /\ crons'[c] = crons[c]
  BY <1>1, <1>2 DEF Record, Advance
<1>5. /\ sched'[w].pc # "idle" => sched'[w].at = sched[w].at
      /\ sched'[w].pc \in {"idle", "next", "enqueue"}
  <2> DEFINE rest == [sched[w] EXCEPT !.pc = "next", !.fire = NoFire]
             queued == [sched[w] EXCEPT !.pc = "enqueue"]
  <2>1. sched'[w] = Idle \/ sched'[w] = rest \/ sched'[w] = queued
    BY <1>2 DEF Continue
  <2>2. /\ rest.pc = "next" /\ rest.at = sched[w].at
        /\ queued.pc = "enqueue" /\ queued.at = sched[w].at
    BY <1>2 DEF Loop
  <2>3. Idle.pc = "idle"
    BY DEF Idle
  <2> HIDE DEF rest, queued
  <2>4. QED
    BY <2>1, <2>2, <2>3
<1>6. \A c \in Crons, t \in Instants : fires'[c][t] # "absent" => t <= sched[w].at
  BY <1>1, <1>2, <1>3 DEF ArmedInv, ClaimedByTick
<1>7. ClaimedByNow'
  BY <1>1, <1>2, <1>6 DEF ClaimedByNow
<1>8. ClaimedByTick'
  BY <1>1, <1>5, <1>6 DEF ClaimedByTick
<1>9. TogglesLookAhead'
  BY SameToggles DEF ArmedInv
<1>10. \A c \in Crons \ {f.cron} : ~InFlight(c)
  BY <1>1 DEF InFlight
<1>11. ASSUME NEW c \in Crons, Live(c)', crons'[c].enabled, crons'[c].next # Never
       PROVE  fires'[c][crons'[c].next] = "absent"
  <2>1. CASE c # f.cron
    BY <1>4, <1>10, <1>11, <2>1 DEF ArmedInv, ArmedIsClaimable, Live
  <2>2. CASE c = f.cron
    <3>1. Live(f.cron)
      BY <1>11, <2>2 DEF Advance, Live
    <3>2. PICK next : next = NextFireAfter(Schedule(f.cron), sched[w].at)
      OBVIOUS
    <3>3. crons'[c].next = next
      BY <1>1, <1>2, <2>2, <3>1, <3>2 DEF Advance, Row
    <3>4. next > sched[w].at /\ next \in Instants
      BY <1>1, <1>11, <3>2, <3>3, LaterFire, NextFireInstant DEF IndInv
    <3>5. fires'[c][next] = "absent"
      BY <1>2, <1>6, <3>4
    <3>6. QED
      BY <3>3, <3>5
  <2>3. QED
    BY <2>1, <2>2
<1>12. ArmedIsClaimable'
  BY <1>11 DEF ArmedIsClaimable
<1>13. QED
  BY <1>7, <1>8, <1>9, <1>12 DEF ArmedInv

\* People: a cron that is made, or switched on, looks past the clock.
LEMMA CreateArmed ==
    ASSUME IndInv, ArmedInv, NEW c \in Crons, Create(c)
    PROVE  ArmedInv'
<1> DEFINE first == IF Matches[c] = {} THEN now + Secs[c] ELSE CalendarAfter(Matches[c], now)
<1>1. /\ UNCHANGED <<now, fires, sched, edit>> /\ first # Never
      /\ crons' = [crons EXCEPT ![c] =
                       [state |-> "live", enabled |-> TRUE, next |-> first, anchor |-> first]]
  BY DEF Create
<1>2. /\ now \in Nat /\ Instants \subseteq Nat /\ crons \in [Crons -> Row]
      /\ Secs[c] \in Nat \ {0} /\ Matches[c] \in SUBSET Nat
  BY CronAssumption DEF IndInv, TypeOK, Instants
<1>3. first > now /\ first \in Instants
  BY <1>1, <1>2, FirstFireInstant, CalendarAfterFirst DEF IndInv
<1> HIDE DEF first
<1>4. /\ ClaimedByNow' /\ ClaimedByTick' /\ TogglesLookAhead'
  BY <1>1, SameToggles DEF ArmedInv, ClaimedByNow, ClaimedByTick
<1>5. fires[c][first] = "absent"
  BY <1>2, <1>3 DEF ArmedInv, ClaimedByNow
<1>6. \A b \in Crons : InFlight(b)' <=> InFlight(b)
  BY <1>1 DEF InFlight
<1>7. ArmedIsClaimable'
  BY <1>1, <1>2, <1>5, <1>6 DEF ArmedInv, ArmedIsClaimable, Live
<1>8. QED
  BY <1>4, <1>7 DEF ArmedInv

LEMMA DeleteArmed ==
    ASSUME IndInv, ArmedInv, NEW c \in Crons, Delete(c)
    PROVE  ArmedInv'
<1>1. /\ UNCHANGED <<now, sched, edit>>
      /\ crons' = [crons EXCEPT ![c] = Deleted]
      /\ fires' = [fires EXCEPT ![c] = [t \in Instants |-> "absent"]]
  BY DEF Delete
<1>2. crons \in [Crons -> Row] /\ fires \in [Crons -> [Instants -> FireStatus]]
  BY DEF IndInv, TypeOK
<1>3. \A b \in Crons, t \in Instants : fires'[b][t] # "absent" => fires[b][t] # "absent"
  BY <1>1, <1>2
<1>4. ClaimedByNow' /\ ClaimedByTick' /\ TogglesLookAhead'
  BY <1>1, <1>3, SameToggles DEF ArmedInv, ClaimedByNow, ClaimedByTick
<1>5. \A b \in Crons : InFlight(b)' <=> InFlight(b)
  BY <1>1 DEF InFlight
<1>6. ArmedIsClaimable'
  BY <1>1, <1>2, <1>5 DEF ArmedInv, ArmedIsClaimable, Live, Deleted
<1>7. QED
  BY <1>4, <1>6 DEF ArmedInv

LEMMA ToggleReadArmed ==
    ASSUME IndInv, ArmedInv, NEW u \in Users, NEW c \in Crons, ToggleRead(u, c)
    PROVE  ArmedInv'
<1>1. UNCHANGED <<now, crons, fires, sched>>
  BY DEF ToggleRead, db
<1>2. \A v \in Users : edit'[v] = edit[v] \/ edit'[v].pc = "read"
  BY DEF ToggleRead, IndInv, TypeOK
<1>3. TogglesLookAhead'
  BY <1>1, <1>2 DEF ArmedInv, TogglesLookAhead
<1>4. QED
  BY <1>1, <1>3, QuietArmed

LEMMA SetEnabledReadArmed ==
    ASSUME IndInv, ArmedInv, NEW u \in Users, SetEnabledRead(u)
    PROVE  ArmedInv'
<1> DEFINE c == edit[u].cron
           next == IF edit[u].enable THEN NextFireAfter(Schedule(c), now) ELSE crons[c].next
           row == [edit[u] EXCEPT !.pc = "write", !.next = next]
<1>1. UNCHANGED <<now, crons, fires, sched>> /\ edit[u].pc = "read"
  BY DEF SetEnabledRead, db
<1>2. /\ c \in Crons
      /\ edit[u] \in [pc : {"read", "write"}, cron : Crons, enable : BOOLEAN,
                       next : Instants \cup {Never}]
  BY <1>1, EditTyped DEF IndInv
<1>3. now \in 0..MaxTime /\ DOMAIN edit = Users
  BY DEF IndInv, TypeOK
<1>4. edit[u].enable => next = Never \/ next > now
  BY <1>2, <1>3, LaterFire DEF IndInv
<1>5. edit' = [edit EXCEPT ![u] = IF ~Live(c) THEN NoEdit ELSE row]
  BY DEF SetEnabledRead
<1>6. row.enable = edit[u].enable /\ row.next = next
  <2> HIDE DEF next
  <2>1. QED
    BY <1>2
<1> HIDE DEF row, next
<1>7. NoEdit.pc = "idle"
  BY DEF NoEdit
<1>8. \A v \in Users : edit'[v] = edit[v] \/ edit'[v] = NoEdit \/ edit'[v] = row
  BY <1>3, <1>5
<1>9. TogglesLookAhead'
  BY <1>1, <1>4, <1>6, <1>7, <1>8 DEF ArmedInv, TogglesLookAhead
<1>10. QED
  BY <1>1, <1>9, QuietArmed

LEMMA SetEnabledWriteArmed ==
    ASSUME IndInv, ArmedInv, NEW u \in Users, SetEnabledWrite(u)
    PROVE  ArmedInv'
<1> DEFINE c == edit[u].cron
<1>1. /\ UNCHANGED <<now, fires, sched>> /\ edit[u].pc = "write"
      /\ edit' = [edit EXCEPT ![u] = NoEdit]
  BY DEF SetEnabledWrite
<1>2. /\ c \in Crons /\ edit[u].next \in Instants \cup {Never}
      /\ DOMAIN edit = Users /\ now \in Nat /\ Instants \subseteq Nat
      /\ crons \in [Crons -> Row]
  <2>1. edit[u] \in [pc : {"read", "write"}, cron : Crons, enable : BOOLEAN,
                         next : Instants \cup {Never}]
    BY <1>1, EditTyped DEF IndInv
  <2>2. QED
    BY <2>1, CronAssumption DEF IndInv, TypeOK, Instants
<1>3. TogglesLookAhead'
  BY <1>1, <1>2 DEF ArmedInv, TogglesLookAhead, NoEdit
<1>4. ClaimedByNow' /\ ClaimedByTick'
  BY <1>1 DEF ArmedInv, ClaimedByNow, ClaimedByTick
<1>5. \A b \in Crons : InFlight(b)' <=> InFlight(b)
  BY <1>1 DEF InFlight
<1>6. ASSUME NEW b \in Crons, Live(b)', crons'[b].enabled, crons'[b].next # Never, ~InFlight(b)
      PROVE  fires[b][crons'[b].next] = "absent"
  <2>1. CASE crons'[b] = crons[b]
    BY <1>6, <2>1 DEF ArmedInv, ArmedIsClaimable, Live
  <2>2. CASE crons'[b] # crons[b]
    <3>1. b = c /\ crons' = [crons EXCEPT ![c].enabled = edit[u].enable, ![c].next = edit[u].next]
      BY <1>2, <2>2 DEF SetEnabledWrite
    <3>2. crons'[b].enabled = edit[u].enable /\ crons'[b].next = edit[u].next
      BY <1>2, <3>1 DEF Row
    <3>3. edit[u].next > now /\ edit[u].next \in Instants
      BY <1>1, <1>2, <1>6, <3>2 DEF ArmedInv, TogglesLookAhead
    <3>4. PICK next \in Instants : next = edit[u].next
      BY <3>3
    <3>5. fires[b][next] = "absent"
      BY <1>2, <3>3, <3>4 DEF ArmedInv, ClaimedByNow
    <3>6. QED
      BY <3>2, <3>4, <3>5
  <2>3. QED
    BY <2>1, <2>2
<1>7. ArmedIsClaimable'
  BY <1>1, <1>5, <1>6 DEF ArmedIsClaimable
<1>8. QED
  BY <1>3, <1>4, <1>7 DEF ArmedInv

\* The clock does not move between the two halves of a toggle.
LEMMA ClockArmed ==
    ASSUME IndInv, ArmedInv, AdvanceClock
    PROVE  ArmedInv'
<1>1. /\ UNCHANGED <<crons, fires, sched, edit>> /\ now' = now + 1 /\ now \in Nat
      /\ Instants \subseteq Nat /\ \A u \in Users : edit[u].pc # "write"
  BY CronAssumption DEF AdvanceClock, db, IndInv, TypeOK, Instants
<1>2. ClaimedByNow' /\ ClaimedByTick' /\ TogglesLookAhead'
  BY <1>1 DEF ArmedInv, ClaimedByNow, ClaimedByTick, TogglesLookAhead
<1>3. ArmedIsClaimable'
  BY <1>1 DEF ArmedInv, ArmedIsClaimable, InFlight, Live
<1>4. QED
  BY <1>2, <1>3 DEF ArmedInv

LEMMA InitArmed == Init => ArmedInv
BY DEF Init, ArmedInv, ClaimedByNow, ClaimedByTick, TogglesLookAhead, ArmedIsClaimable,
       Live, Unborn, Idle, NoEdit

LEMMA StepArmed ==
    ASSUME SingleLoop, IndInv, ArmedInv, [Next]_vars
    PROVE  ArmedInv'
<1>1. ASSUME NEW w \in Workers, SkipFire(w) PROVE ArmedInv'
  BY <1>1, EndingArmed DEF SkipFire
<1>2. ASSUME NEW w \in Workers, CompleteFire(w) PROVE ArmedInv'
  BY <1>2, EndingArmed DEF CompleteFire
<1>3. ASSUME NEW w \in Workers, RunTurn(w) \/ Enqueue(w) PROVE ArmedInv'
  <2>1. sched[w] \in Loop /\ DOMAIN sched = Workers /\ Idle.pc = "idle"
    BY DEF IndInv, TypeOK, Idle
  <2>2. UNCHANGED <<now, crons, fires, edit>>
    BY <1>3 DEF RunTurn, Enqueue, db
  <2>3. \A v \in Workers \ {w} : sched'[v] = sched[v]
    BY <1>3, <2>1 DEF RunTurn, Enqueue, Continue
  <2>4. /\ sched[w].pc # "idle" /\ (sched'[w].pc # "idle" => sched'[w].at = sched[w].at)
        /\ sched[w].pc \in {"skip", "turn", "complete"} =>
              sched'[w].pc = "complete" /\ sched'[w].fire = sched[w].fire
    BY <1>3, <2>1 DEF RunTurn, Enqueue, Continue, Loop
  <2>5. QED
    BY <2>2, <2>3, <2>4, QuietArmed, SameToggles DEF ArmedInv
<1>4. ASSUME NEW w \in Workers, LoseTick(w) PROVE ArmedInv'
  BY <1>4 DEF LoseTick, SingleLoop, IndInv, TypeOK
<1>5. ASSUME UNCHANGED vars PROVE ArmedInv'
  BY <1>5 DEF vars, ArmedInv, ClaimedByNow, ClaimedByTick, TogglesLookAhead, ArmedIsClaimable,
              InFlight, Live
<1>6. QED
  BY <1>1, <1>2, <1>3, <1>4, <1>5, TickArmed, ClaimArmed, CreateArmed, DeleteArmed,
     ToggleReadArmed, SetEnabledReadArmed, SetEnabledWriteArmed, ClockArmed
     DEF Next, WorkerStep, UserStep

\* One server process that loses no tick never arms a cron for an instant that
\* was claimed, which every later tick would find due and none would run: however
\* people make, switch and delete crons between the steps of its loop
\* (store/crons.rs, set_enabled and complete_fire).  With a second process, or a
\* tick that is lost behind its claim, this is not so.
THEOREM ArmedStaysClaimable == ASSUME SingleLoop PROVE Spec => []ArmedIsClaimable
<1>1. ArmedInv => ArmedIsClaimable
  BY DEF ArmedInv
<1>2. IndInv /\ ArmedInv /\ [Next]_vars => ArmedInv'
  BY StepArmed
<1>3. QED
  BY <1>1, <1>2, InitArmed, Invariance, PTL DEF Spec

-----------------------------------------------------------------------------
(* The schedules: what TLAPS proves of CronExpression, for every calendar,   *)
(* zone, expression and request, from CalendarFits, which TLC evaluates on   *)
(* the instance.  Its clock and its horizon are those of the scheduler.      *)

CONSTANTS
    DayLength, HourLength, MonthLength, YearLength, WeekLength, Month, DayOfMonth,
    DayOfWeek, Offset, DefaultZone, MinInterval, MaxNow, MaxSearchDays, Requests
VARIABLES schedule, next

\* The calendar: a cron from the request that saves it to the instants it is
\* armed for.
Cal == INSTANCE CronExpression

\* A nonempty set of integers with a lower bound has a least element, and
\* `Earlier` is it.
LEMMA EarlierIsLeast ==
    ASSUME NEW S \in SUBSET Int, S # {}, NEW low \in Int, \A n \in S : low <= n
    PROVE  Cal!Earlier(S) \in S /\ \A u \in S : Cal!Earlier(S) <= u
<1> DEFINE N == {n - low : n \in S}
<1>1. \A n \in S : n - low \in Nat
  OBVIOUS
<1>2. N \in SUBSET Nat /\ N # {}
  BY <1>1
<1>3. PICK m \in N : \A k \in N : m <= k
  BY <1>2, LeastElement
<1>4. PICK t \in S : m = t - low
  BY <1>3
<1>5. \A u \in S : t <= u
  <2> TAKE u \in S
  <2>1. u - low \in N
    OBVIOUS
  <2>2. t - low <= u - low
    BY <1>3, <1>4, <2>1
  <2>3. t \in Int /\ u \in Int
    OBVIOUS
  <2> QED
    BY <2>2, <2>3
<1>6. QED
  BY <1>5 DEF Cal!Earlier

\* The day of a wall-clock time lies before another day exactly when the time
\* lies before the first minute of that day.
LEMMA DaysInMinutes ==
    ASSUME NEW length \in Nat \ {0}, NEW n \in Int, NEW k \in Int
    PROVE  /\ n \div length \in Int /\ k * length \in Int
           /\ n \div length < k <=> n < k * length
<1> DEFINE q == n \div length
           r == n % length
           p == length * q
<1>1. q \in Int /\ r \in Nat /\ r < length /\ n = p + r /\ p \in Int
  OBVIOUS
<1>2. k * length = length * k /\ length * k \in Int
  OBVIOUS
<1>3. ASSUME q < k PROVE n < k * length
  <2> DEFINE d == k - q - 1
  <2>1. d \in Nat /\ k = q + 1 + d
    BY <1>1, <1>3
  <2>2. length * k = p + length + length * d /\ length * d \in Nat
    BY <1>1, <2>1
  <2> HIDE DEF d, q, r, p
  <2>3. QED
    BY <1>1, <1>2, <2>2
<1>4. ASSUME k <= q PROVE k * length <= n
  <2> DEFINE d == q - k
  <2>1. d \in Nat /\ q = k + d
    BY <1>1, <1>4
  <2>2. p = length * k + length * d /\ length * d \in Nat
    BY <1>1, <2>1
  <2> HIDE DEF d, q, r, p
  <2>3. QED
    BY <1>1, <1>2, <2>2
<1>5. q < k \/ k <= q
  BY <1>1
<1> HIDE DEF q, r, p
<1>6. q < k <=> n < k * length
  BY <1>1, <1>2, <1>3, <1>4, <1>5
<1>7. QED
  BY <1>1, <1>2, <1>6 DEF q

\* What CalendarFits says of one zone.
LEMMA ZoneFits ==
    ASSUME Cal!CalendarFits, NEW z \in Cal!Zones
    PROVE  /\ DayLength \in Nat \ {0} /\ MaxSearchDays \in Nat /\ Horizon \in Nat
           /\ Cal!Instants \in SUBSET Nat
           /\ \A t \in Cal!Instants : Cal!Local(z, t) \in Int
           /\ \A u, v \in Cal!Instants : u < v /\ ~Cal!Repeated(z, v) =>
                 Cal!Local(z, u) < Cal!Local(z, v)
<1>1. /\ DayLength \in Nat \ {0} /\ MaxSearchDays \in Nat /\ Horizon \in Nat
      /\ Offset[z] \in [Cal!Instants -> Int] /\ Cal!SetBackRepeats(Offset[z])
  BY DEF Cal!CalendarFits
<1>2. Cal!Instants \in SUBSET Nat
  BY <1>1 DEF Cal!Instants
<1>3. \A t \in Cal!Instants : Cal!Local(z, t) \in Int
  <2> TAKE t \in Cal!Instants
  <2>1. t \in Int /\ Offset[z][t] \in Int
    BY <1>1, <1>2
  <2>2. QED
    BY <2>1 DEF Cal!Local
<1>4. ASSUME NEW u \in Cal!Instants, NEW v \in Cal!Instants, u < v, ~Cal!Repeated(z, v)
      PROVE  Cal!Local(z, u) < Cal!Local(z, v)
  <2>1. \A w \in Cal!Instants : w < v => Cal!Local(z, w) # Cal!Local(z, v)
    BY <1>4 DEF Cal!Repeated, Cal!InstantsOf
  <2>2. ~ (Cal!Local(z, v) < Cal!Local(z, u))
    BY <1>1, <1>4, <2>1 DEF Cal!SetBackRepeats, Cal!Local
  <2>3. Cal!Local(z, u) # Cal!Local(z, v)
    BY <1>4, <2>1
  <2>4. QED
    BY <1>3, <2>2, <2>3
<1>5. QED
  BY <1>1, <1>2, <1>3, <1>4

\* `resolve_local` finds the first instant with the local time it was asked
\* for, and Never exactly when there is none: no job is shifted into another
\* wall-clock time.
LEMMA ResolveFinds ==
    ASSUME Cal!CalendarFits, NEW z \in Cal!Zones, NEW n, Cal!Resolve(z, n) # Cal!Never
    PROVE  /\ Cal!Resolve(z, n) \in Cal!Instants
           /\ Cal!Local(z, Cal!Resolve(z, n)) = n
           /\ \A u \in Cal!Instants : Cal!Local(z, u) = n => Cal!Resolve(z, n) <= u
<1> DEFINE S == Cal!InstantsOf(z, n)
<1>1. S # {} /\ Cal!Resolve(z, n) = Cal!Earlier(S)
  BY DEF Cal!Resolve
<1>2. S \in SUBSET Int /\ \A t \in S : 0 <= t
  BY ZoneFits DEF Cal!InstantsOf
<1>3. Cal!Earlier(S) \in S /\ \A u \in S : Cal!Earlier(S) <= u
  BY <1>1, <1>2, EarlierIsLeast
<1>4. QED
  BY <1>1, <1>3 DEF Cal!InstantsOf

\* A local time that some instant has is resolved.
LEMMA ResolveMisses ==
    ASSUME Cal!CalendarFits, NEW z \in Cal!Zones, NEW u \in Cal!Instants
    PROVE  Cal!Resolve(z, Cal!Local(z, u)) # Cal!Never
<1> DEFINE S == Cal!InstantsOf(z, Cal!Local(z, u))
<1>1. S # {} /\ S \in SUBSET Int /\ \A t \in S : 0 <= t
  BY ZoneFits DEF Cal!InstantsOf
<1>2. Cal!Earlier(S) \in S
  BY <1>1, EarlierIsLeast
<1>3. Cal!Earlier(S) # Cal!Never
  BY <1>1, <1>2 DEF Cal!Never
<1>4. QED
  BY <1>1, <1>3 DEF Cal!Resolve

\* The first minute of the search of `next_after`, and the day it ends before.
CalStart(z, t) == Cal!Local(z, t) + 1
CalSearched(z, t) == Cal!Day(CalStart(z, t)) + MaxSearchDays

\* The instants `next_after` may find: those with a later wall-clock time of the
\* days it searches that the expression names.
CalCandidates(e, t, z) ==
    {u \in Cal!Instants : /\ Cal!Local(z, u) > Cal!Local(z, t)
                          /\ Cal!Day(Cal!Local(z, u)) < CalSearched(z, t)
                          /\ Cal!Matches(e, Cal!Local(z, u))}

\* `next_after` finds nothing only when no instant is a candidate.
LEMMA NextAfterMisses ==
    ASSUME Cal!CalendarFits, NEW z \in Cal!Zones, NEW t \in Cal!Instants, NEW e,
           CalCandidates(e, t, z) # {}
    PROVE  Cal!NextAfter(e, t, z) # Cal!Never
<1> DEFINE start == CalStart(z, t)
           past == CalSearched(z, t) * DayLength
           found == {n \in start .. past - 1 : Cal!Matches(e, n) /\ Cal!Resolve(z, n) # Cal!Never}
<1>1. Cal!Local(z, t) \in Int /\ start \in Int /\ DayLength \in Nat \ {0}
  BY ZoneFits DEF CalStart
<1>2. CalSearched(z, t) \in Int /\ past \in Int
  BY <1>1, ZoneFits, DaysInMinutes DEF CalSearched, Cal!Day
<1>3. PICK u \in CalCandidates(e, t, z) : TRUE
  OBVIOUS
<1>4. /\ u \in Cal!Instants /\ Cal!Local(z, u) > Cal!Local(z, t)
      /\ Cal!Day(Cal!Local(z, u)) < CalSearched(z, t) /\ Cal!Matches(e, Cal!Local(z, u))
  BY <1>3 DEF CalCandidates
<1>5. Cal!Local(z, u) \in Int
  BY <1>4, ZoneFits
<1>6. Cal!Local(z, u) < past
  BY <1>1, <1>2, <1>4, <1>5, DaysInMinutes DEF Cal!Day
<1>7. Cal!Local(z, u) \in start .. past - 1
  BY <1>1, <1>2, <1>4, <1>5, <1>6 DEF CalStart
<1>8. Cal!Local(z, u) \in found
  BY <1>4, <1>7, ResolveMisses
<1>9. found \in SUBSET Int /\ \A n \in found : start <= n
  BY <1>1, <1>2
<1>10. Cal!Earlier(found) \in found
  BY <1>1, <1>8, <1>9, EarlierIsLeast
<1>11. Cal!Resolve(z, Cal!Earlier(found)) # Cal!Never
  BY <1>10
<1>12. Cal!NextAfter(e, t, z) = Cal!Resolve(z, Cal!Earlier(found))
  BY <1>8 DEF Cal!NextAfter, CalStart, CalSearched
<1>13. QED
  BY <1>11, <1>12

\* What `next_after` finds is a candidate, the first instant with its local
\* time, and no candidate has an earlier local time: the gap of a
\* spring-forward is passed over, and a repeated time is taken once.
LEMMA NextAfterFinds ==
    ASSUME Cal!CalendarFits, NEW z \in Cal!Zones, NEW t \in Cal!Instants, NEW e,
           Cal!NextAfter(e, t, z) # Cal!Never
    PROVE  LET r == Cal!NextAfter(e, t, z) IN
           /\ r \in CalCandidates(e, t, z)
           /\ ~Cal!Repeated(z, r)
           /\ \A u \in CalCandidates(e, t, z) : Cal!Local(z, r) <= Cal!Local(z, u)
<1> DEFINE start == CalStart(z, t)
           past == CalSearched(z, t) * DayLength
           found == {n \in start .. past - 1 : Cal!Matches(e, n) /\ Cal!Resolve(z, n) # Cal!Never}
           r == Cal!NextAfter(e, t, z)
           n0 == Cal!Earlier(found)
<1>1. Cal!Local(z, t) \in Int /\ start \in Int /\ DayLength \in Nat \ {0}
  BY ZoneFits DEF CalStart
<1>2. CalSearched(z, t) \in Int /\ past \in Int
  BY <1>1, ZoneFits, DaysInMinutes DEF CalSearched, Cal!Day
<1>3. found # {} /\ r = Cal!Resolve(z, n0)
  BY DEF Cal!NextAfter, CalStart, CalSearched
<1>4. found \in SUBSET Int /\ \A n \in found : start <= n
  BY <1>1, <1>2
<1>5. n0 \in found /\ \A n \in found : n0 <= n
  BY <1>1, <1>3, <1>4, EarlierIsLeast
<1>6. n0 \in Int /\ start <= n0 /\ n0 < past /\ Cal!Matches(e, n0) /\ Cal!Resolve(z, n0) # Cal!Never
  BY <1>1, <1>2, <1>5
<1> HIDE DEF n0
<1>7. /\ r \in Cal!Instants /\ Cal!Local(z, r) = n0
      /\ \A u \in Cal!Instants : Cal!Local(z, u) = n0 => r <= u
  BY <1>3, <1>6, ResolveFinds
<1>8. Cal!Day(n0) < CalSearched(z, t)
  BY <1>1, <1>2, <1>6, DaysInMinutes DEF Cal!Day
<1>9. n0 > Cal!Local(z, t)
  BY <1>1, <1>6 DEF CalStart
<1>10. r \in CalCandidates(e, t, z)
  BY <1>6, <1>7, <1>8, <1>9 DEF CalCandidates
<1>11. ~Cal!Repeated(z, r)
  <2>1. \A u \in Cal!InstantsOf(z, Cal!Local(z, r)) : u \in Cal!Instants /\ r <= u
    BY <1>7 DEF Cal!InstantsOf
  <2>2. \A u \in Cal!Instants : u \in Nat
    BY ZoneFits
  <2>3. \A u \in Cal!InstantsOf(z, Cal!Local(z, r)) : ~ (u < r)
    BY <1>7, <2>1, <2>2
  <2>4. QED
    BY <2>3 DEF Cal!Repeated
<1>12. ASSUME NEW u \in CalCandidates(e, t, z) PROVE n0 <= Cal!Local(z, u)
  <2>1. /\ u \in Cal!Instants /\ Cal!Local(z, u) > Cal!Local(z, t)
        /\ Cal!Day(Cal!Local(z, u)) < CalSearched(z, t) /\ Cal!Matches(e, Cal!Local(z, u))
    BY DEF CalCandidates
  <2>2. Cal!Local(z, u) \in Int
    BY <2>1, ZoneFits
  <2>3. Cal!Local(z, u) < past
    BY <1>1, <1>2, <2>1, <2>2, DaysInMinutes DEF Cal!Day
  <2>4. Cal!Local(z, u) \in start .. past - 1
    BY <1>1, <1>2, <2>1, <2>2, <2>3 DEF CalStart
  <2>5. Cal!Local(z, u) \in found
    BY <2>1, <2>4, ResolveMisses
  <2>6. QED
    BY <1>5, <2>5
<1>13. QED
  BY <1>7, <1>10, <1>11, <1>12

\* Out of a repeated hour, what `next_after` finds is the first match as
\* instants are counted, and it finds nothing exactly when there is none.
LEMMA FindsFirstMatch ==
    ASSUME Cal!CalendarFits, NEW z \in Cal!Zones, NEW t \in Cal!Instants, NEW e,
           ~Cal!Repeated(z, t)
    PROVE  Cal!NextAfter(e, t, z) = Cal!FirstMatch(e, z, t)
<1> DEFINE found == {u \in Cal!Instants :
                        u > t /\ Cal!Day(Cal!Local(z, u)) < CalSearched(z, t)
                              /\ Cal!Matches(e, Cal!Local(z, u)) /\ ~Cal!Repeated(z, u)}
           r == Cal!NextAfter(e, t, z)
<1>1. Cal!FirstMatch(e, z, t) = IF found = {} THEN Cal!Never ELSE Cal!Earlier(found)
  BY DEF Cal!FirstMatch, CalSearched, CalStart
<1>2. found \subseteq CalCandidates(e, t, z)
  BY ZoneFits DEF CalCandidates
<1>3. CASE r = Cal!Never
  BY <1>1, <1>2, <1>3, NextAfterMisses
<1>4. CASE r # Cal!Never
  <2>1. /\ r \in CalCandidates(e, t, z) /\ ~Cal!Repeated(z, r)
        /\ \A u \in CalCandidates(e, t, z) : Cal!Local(z, r) <= Cal!Local(z, u)
    BY <1>4, NextAfterFinds
  <2>2. /\ r \in Cal!Instants /\ Cal!Local(z, r) > Cal!Local(z, t)
        /\ Cal!Day(Cal!Local(z, r)) < CalSearched(z, t) /\ Cal!Matches(e, Cal!Local(z, r))
    BY <2>1 DEF CalCandidates
  <2>3. /\ r \in Nat /\ t \in Nat /\ Cal!Local(z, t) \in Int /\ Cal!Local(z, r) \in Int
    BY <2>2, ZoneFits
  <2>4. r > t
    <3>1. ~ (r < t)
      BY <2>2, <2>3, ZoneFits
    <3>2. r # t
      BY <2>2, <2>3
    <3>3. QED
      BY <2>3, <3>1, <3>2
  <2>5. r \in found
    BY <2>1, <2>2, <2>4
  <2>6. ASSUME NEW u \in found PROVE r <= u
    <3>1. u \in Cal!Instants /\ u \in CalCandidates(e, t, z)
      BY <1>2
    <3>2. Cal!Local(z, r) <= Cal!Local(z, u)
      BY <2>1, <3>1
    <3>3. u \in Nat /\ Cal!Local(z, u) \in Int
      BY <3>1, ZoneFits
    <3>4. ~ (u < r)
      BY <2>1, <2>2, <2>3, <3>1, <3>2, <3>3, ZoneFits
    <3>5. QED
      BY <2>3, <3>3, <3>4
  <2>7. found \in SUBSET Int /\ \A u \in found : 0 <= u
    BY ZoneFits
  <2> HIDE DEF found
  <2>8. Cal!Earlier(found) \in found /\ \A u \in found : Cal!Earlier(found) <= u
    BY <2>5, <2>7, EarlierIsLeast
  <2>9. r = Cal!Earlier(found)
    <3>1. r <= Cal!Earlier(found) /\ Cal!Earlier(found) <= r
      BY <2>5, <2>6, <2>8
    <3> HIDE DEF r
    <3>2. r \in Int
      BY <2>3
    <3>3. Cal!Earlier(found) \in Int
      BY <2>7, <2>8
    <3>4. QED
      BY <3>1, <3>2, <3>3
  <2>10. QED
    BY <1>1, <2>5, <2>9
<1>5. QED
  BY <1>3, <1>4

\* Products keep the order of their factors.
LEMMA ProductsOrdered ==
    ASSUME NEW length \in Nat \ {0}, NEW a \in Int, NEW b \in Int
    PROVE  /\ length * a \in Int /\ length * b \in Int
           /\ a <= b => length * a <= length * b
           /\ a < b => length * a + length <= length * b
<1>1. length * a \in Int /\ length * b \in Int
  OBVIOUS
<1>2. ASSUME a <= b PROVE length * a <= length * b
  <2> DEFINE d == b - a
  <2>1. d \in Nat /\ b = a + d
    BY <1>2
  <2>2. length * b = length * a + length * d /\ length * d \in Nat
    BY <2>1
  <2> HIDE DEF d
  <2>3. QED
    BY <1>1, <2>2
<1>3. ASSUME a < b PROVE length * a + length <= length * b
  <2> DEFINE d == b - a - 1
  <2>1. d \in Nat /\ b = a + 1 + d
    BY <1>3
  <2>2. length * b = length * a + length + length * d /\ length * d \in Nat
    BY <2>1
  <2> HIDE DEF d
  <2>3. QED
    BY <1>1, <2>2
<1>4. QED
  BY <1>1, <1>2, <1>3

\* Two numbers leave one remainder exactly when they are a multiple apart.
LEMMA RemaindersAgree ==
    ASSUME NEW length \in Nat \ {0}, NEW n \in Nat, NEW k \in Nat
    PROVE  (n + length * k) % length = n % length
<1> DEFINE m == n + length * k
           q == n \div length
           r == n % length
           q2 == m \div length
           r2 == m % length
<1>1. length * k \in Nat /\ m \in Nat
  OBVIOUS
<1>2. q \in Int /\ r \in Int /\ 0 <= r /\ r < length /\ n = length * q + r
  OBVIOUS
<1> HIDE DEF m
<1>3. q2 \in Int /\ r2 \in Int /\ 0 <= r2 /\ r2 < length /\ m = length * q2 + r2
  BY <1>1
<1>4. m = n + length * k
  BY DEF m
<1> HIDE DEF q, r, q2, r2
<1>5. length * (q + k) = length * q + length * k /\ q + k \in Int
  BY <1>2
<1>6. length * q \in Int /\ length * q2 \in Int /\ length * (q + k) \in Int
  BY <1>2, <1>3, <1>5
<1>7. length * (q + k) + r = length * q2 + r2
  BY <1>1, <1>2, <1>3, <1>4, <1>5, <1>6
<1>8. ~ (q + k < q2)
  <2>1. q + k < q2 => length * (q + k) + length <= length * q2
    BY <1>3, <1>5, ProductsOrdered
  <2>2. QED
    BY <1>2, <1>3, <1>6, <1>7, <2>1
<1>9. ~ (q2 < q + k)
  <2>1. q2 < q + k => length * q2 + length <= length * (q + k)
    BY <1>3, <1>5, ProductsOrdered
  <2>2. QED
    BY <1>2, <1>3, <1>6, <1>7, <2>1
<1>10. q2 = q + k
  BY <1>3, <1>5, <1>8, <1>9
<1>11. r2 = r
  BY <1>2, <1>3, <1>6, <1>7, <1>10
<1>12. QED
  BY <1>11 DEF r, r2, m

\* An interval is armed for the first instant later than the clock, and not
\* before its anchor, that is whole intervals away from the anchor: however late
\* a tick is, it does not drift.
LEMMA BeatIsKept ==
    ASSUME NEW secs \in Nat \ {0}, NEW anchor \in Nat, NEW at \in Nat
    PROVE  LET x == Cal!IntervalAfter(secs, anchor, at) IN
           /\ x \in Nat /\ x > at /\ x >= anchor
           /\ x % secs = anchor % secs
           /\ x = anchor \/ x <= at + secs
           /\ \A t \in Nat : t % secs = anchor % secs /\ t > at /\ t >= anchor => x <= t
<1> DEFINE x == Cal!IntervalAfter(secs, anchor, at)
<1>1. CASE anchor > at
  <2>1. x = anchor
    BY <1>1 DEF Cal!IntervalAfter
  <2> HIDE DEF x
  <2>2. x \in Nat /\ x > at /\ x >= anchor /\ x % secs = anchor % secs
    BY <1>1, <2>1
  <2>3. QED
    BY <2>1, <2>2 DEF x
<1>2. CASE ~ (anchor > at)
  <2> DEFINE d == at - anchor
             q == d \div secs
             r == d % secs
             p == secs * q
  <2>1. d \in Nat /\ at = anchor + d
    BY <1>2
  <2> HIDE DEF d
  <2>2. q \in Nat /\ r \in Nat /\ r < secs /\ d = p + r
    BY <2>1
  <2> HIDE DEF q, r
  <2>3. p \in Nat /\ (q + 1) * secs = p + secs /\ secs * (q + 1) = p + secs
    BY <2>2
  <2>4. x = anchor + (q + 1) * secs
    BY <1>2 DEF Cal!IntervalAfter, q, d
  <2>5. x = anchor + (p + secs) /\ x = anchor + secs * (q + 1)
    BY <2>3, <2>4
  <2> HIDE DEF x, p
  <2>6. x \in Nat /\ x > at /\ x >= anchor /\ x <= at + secs
    BY <2>1, <2>2, <2>3, <2>5
  <2>7. x % secs = anchor % secs
    <3>1. q + 1 \in Nat
      BY <2>2
    <3>2. QED
      BY <2>5, <3>1, RemaindersAgree
  <2>8. ASSUME NEW t \in Nat, t % secs = anchor % secs, t > at, t >= anchor
        PROVE  x <= t
    <3> DEFINE qt == t \div secs
               qa == anchor \div secs
               rt == t % secs
               ra == anchor % secs
    <3>1. qt \in Int /\ rt \in Int /\ t = secs * qt + rt
      OBVIOUS
    <3>2. qa \in Int /\ ra \in Int /\ anchor = secs * qa + ra
      OBVIOUS
    <3>3. rt = ra
      BY <2>8
    <3> HIDE DEF qt, qa, rt, ra
    <3>4. secs * (qt - qa) = secs * qt - secs * qa /\ qt - qa \in Int
      BY <3>1, <3>2
    <3>5. secs * qt \in Int /\ secs * qa \in Int
      BY <3>1, <3>2
    <3>6. secs * (qt - qa) = t - anchor
      BY <3>1, <3>2, <3>3, <3>4, <3>5
    <3>7. ~ (qt - qa <= q)
      <4>1. qt - qa <= q => secs * (qt - qa) <= p
        BY <2>2, <3>4, ProductsOrdered DEF p
      <4>2. QED
        BY <2>1, <2>2, <2>3, <2>8, <3>6, <4>1
    <3>8. q < qt - qa
      BY <2>2, <3>4, <3>7
    <3>9. p + secs <= secs * (qt - qa)
      BY <2>2, <3>4, <3>8, ProductsOrdered DEF p
    <3>10. QED
      BY <2>3, <2>5, <3>6, <3>9
  <2>9. QED
    BY <2>6, <2>7, <2>8 DEF x
<1>3. QED
  BY <1>1, <1>2

-----------------------------------------------------------------------------
(* The crons that are saved *)

\* The schedule of a calendar, and the one of an interval.
CalendarOf(c, z) == Cal!Schedule({c}, {z}, {}, {})
IntervalOf(secs, anchor) == Cal!Schedule({}, {}, {secs}, {anchor})

\* A saved calendar: its expression parses, its zone exists, and it is armed for
\* an instant whose wall-clock time the expression names.
CalendarKept(s, at) ==
    \E c, z :
        /\ s = CalendarOf(c, z)
        /\ z \in Cal!Zones /\ Cal!Parse(c) # {}
        /\ \/ at = Cal!Never
           \/ at \in Cal!Instants /\ Cal!Matches(Cal!The(Cal!Parse(c)), Cal!Local(z, at))

\* A saved interval: it is positive and the model has its fires.
IntervalKept(s, at) ==
    \E secs \in Nat \ {0}, anchor \in Cal!Instants :
        /\ s = IntervalOf(secs, anchor)
        /\ MaxNow + secs <= Horizon
        /\ at \in Cal!Instants

Kept(s, at) == CalendarKept(s, at) \/ IntervalKept(s, at)

\* The inductive invariant: a cron is not created yet, or saved.
CalInv ==
    /\ now \in 0..MaxNow
    /\ (schedule = Cal!Unscheduled /\ next = Cal!Never) \/ Kept(schedule, next)

\* The clock is an instant of the model.
LEMMA ClockIsInstant ==
    ASSUME Cal!CalendarFits
    PROVE  /\ MaxNow \in Nat /\ Horizon \in Nat /\ MaxNow <= Horizon
           /\ \A t \in 0..MaxNow : t \in Nat /\ t \in Cal!Instants
<1>1. /\ MaxNow \in Nat /\ Horizon \in Nat /\ DayLength \in Nat /\ MaxSearchDays \in Nat
      /\ MaxNow + (MaxSearchDays + 1) * DayLength < Horizon
  BY DEF Cal!CalendarFits
<1>2. (MaxSearchDays + 1) * DayLength \in Nat
  BY <1>1
<1>3. MaxNow <= Horizon
  BY <1>1, <1>2
<1>4. QED
  BY <1>1, <1>3 DEF Cal!Instants

\* A text has one reading at most.
LEMMA ParsedOnce ==
    ASSUME NEW c, NEW e \in Cal!Parse(c)
    PROVE  e = Cal!The(Cal!Parse(c))
<1>1. \A f \in Cal!Parse(c) : f = Cal!Parsed(c)
  BY DEF Cal!Parse
<1>2. Cal!The(Cal!Parse(c)) \in Cal!Parse(c)
  BY DEF Cal!The
<1>3. QED
  BY <1>1, <1>2

\* What a set of one element holds.
LEMMA TheOnly ==
    ASSUME NEW x
    PROVE  Cal!The({x}) = x
BY DEF Cal!The

\* What `next_after` arms a calendar for, if anything.
LEMMA NextAfterMatches ==
    ASSUME Cal!CalendarFits, NEW z \in Cal!Zones, NEW t \in Cal!Instants, NEW e
    PROVE  LET r == Cal!NextAfter(e, t, z) IN
           \/ r = Cal!Never
           \/ /\ r \in Cal!Instants /\ Cal!Matches(e, Cal!Local(z, r))
              /\ Cal!Local(z, r) > Cal!Local(z, t)
BY NextAfterFinds DEF CalCandidates

\* What a calendar is armed for again.
LEMMA CalendarFires ==
    ASSUME NEW c, NEW z, NEW t
    PROVE  LET s == CalendarOf(c, z) IN
           /\ s.cron = {c} /\ s.timezone = {z} /\ s.every_secs = {}
           /\ Cal!NextFireAfter(s, t) = Cal!NextAfter(Cal!The(Cal!Parse(c)), t, z)
<1> DEFINE s == CalendarOf(c, z)
<1>1. s.cron = {c} /\ s.timezone = {z} /\ s.every_secs = {}
  BY DEF Cal!Schedule, CalendarOf
<1> HIDE DEF s
<1>2. Cal!NextFireAfter(s, t) = Cal!NextAfter(Cal!The(Cal!Parse(c)), t, z)
  BY <1>1, TheOnly DEF Cal!NextFireAfter
<1>3. QED
  BY <1>1, <1>2 DEF s

\* What an interval is armed for again.
LEMMA IntervalFires ==
    ASSUME NEW secs, NEW anchor, NEW t
    PROVE  LET s == IntervalOf(secs, anchor) IN
           /\ s.cron = {} /\ s.every_secs = {secs} /\ s.first_fire_at = {anchor}
           /\ s # Cal!Unscheduled
           /\ Cal!NextFireAfter(s, t) = Cal!IntervalAfter(secs, anchor, t)
<1> DEFINE s == IntervalOf(secs, anchor)
<1>1. s.cron = {} /\ s.every_secs = {secs} /\ s.first_fire_at = {anchor}
  BY DEF Cal!Schedule, IntervalOf
<1>2. Cal!Unscheduled.every_secs = {}
  BY DEF Cal!Unscheduled, Cal!Schedule
<1> HIDE DEF s
<1>3. s # Cal!Unscheduled
  BY <1>1, <1>2
<1>4. Cal!NextFireAfter(s, t) = Cal!IntervalAfter(secs, anchor, t)
  BY <1>1, TheOnly DEF Cal!NextFireAfter
<1>5. QED
  BY <1>1, <1>3, <1>4 DEF s

\* Arming a saved cron anew keeps it as a saved cron.
LEMMA RearmedIsKept ==
    ASSUME Cal!CalendarFits, NEW s, NEW at, NEW t \in 0..MaxNow, Kept(s, at)
    PROVE  Kept(s, Cal!NextFireAfter(s, t))
<1>1. t \in Nat /\ t \in Cal!Instants /\ MaxNow \in Nat /\ Horizon \in Nat /\ t <= MaxNow
  BY ClockIsInstant
<1>2. CASE CalendarKept(s, at)
  <2>1. PICK c, z : /\ s = CalendarOf(c, z)
                    /\ z \in Cal!Zones /\ Cal!Parse(c) # {}
    BY <1>2 DEF CalendarKept
  <2> DEFINE e == Cal!The(Cal!Parse(c))
             r == Cal!NextAfter(e, t, z)
  <2>2. Cal!NextFireAfter(s, t) = r
    BY <2>1, CalendarFires
  <2>3. r = Cal!Never \/ (r \in Cal!Instants /\ Cal!Matches(e, Cal!Local(z, r)))
    BY <1>1, <2>1, NextAfterMatches
  <2>4. QED
    BY <2>1, <2>2, <2>3 DEF Kept, CalendarKept
<1>3. CASE IntervalKept(s, at)
  <2>1. PICK secs \in Nat \ {0}, anchor \in Cal!Instants :
            s = IntervalOf(secs, anchor) /\ MaxNow + secs <= Horizon
    BY <1>3 DEF IntervalKept
  <2> DEFINE x == Cal!IntervalAfter(secs, anchor, t)
  <2>2. Cal!NextFireAfter(s, t) = x
    BY <2>1, IntervalFires
  <2>3. anchor \in Nat /\ anchor <= Horizon
    BY <1>1 DEF Cal!Instants
  <2>4. x \in Nat /\ (x = anchor \/ x <= t + secs)
    BY <1>1, <2>3, BeatIsKept
  <2> HIDE DEF x
  <2>5. x \in Cal!Instants
    BY <1>1, <2>1, <2>3, <2>4 DEF Cal!Instants
  <2>6. QED
    BY <2>1, <2>2, <2>5 DEF Kept, IntervalKept
<1>4. QED
  BY <1>2, <1>3 DEF Kept

\* A calendar armed for an instant it names is a saved cron.
LEMMA CalendarIsKept ==
    ASSUME NEW c, NEW z \in Cal!Zones, Cal!Parse(c) # {}, NEW f \in Cal!Instants,
           Cal!Matches(Cal!The(Cal!Parse(c)), Cal!Local(z, f))
    PROVE  CalendarKept(CalendarOf(c, z), f)
BY DEF CalendarKept

\* A calendar is not the schedule of a cron that was not created.
LEMMA CalendarIsScheduled ==
    ASSUME NEW c, NEW z
    PROVE  CalendarOf(c, z) # Cal!Unscheduled
<1>1. CalendarOf(c, z).cron = {c} /\ Cal!Unscheduled.cron = {}
  BY DEF Cal!Unscheduled, Cal!Schedule, CalendarOf
<1>2. QED
  BY <1>1

\* What `normalize` saves is a saved cron.
LEMMA NormalizedIsKept ==
    ASSUME Cal!CalendarFits, NEW s, NEW at \in 0..MaxNow,
           Cal!AtMostOne(s.cron), Cal!AtMostOne(s.timezone),
           s.every_secs \subseteq Int, \A n \in s.every_secs : MaxNow + n <= Horizon,
           NEW saved \in Cal!Normalize(s, at)
    PROVE  Kept(saved.schedule, saved.next) /\ saved.schedule # Cal!Unscheduled
<1>1. at \in Nat /\ at \in Cal!Instants /\ MaxNow \in Nat /\ Horizon \in Nat /\ at <= MaxNow
  BY ClockIsInstant
<1>2. \/ s.cron # {} /\ s.every_secs = {} /\ saved \in Cal!NormalizeCalendar(s, at)
      \/ s.cron = {} /\ s.every_secs # {} /\ saved \in Cal!NormalizeInterval(s, at)
  BY DEF Cal!Normalize
<1>3. CASE s.cron # {} /\ s.every_secs = {} /\ saved \in Cal!NormalizeCalendar(s, at)
  <2>1. PICK c \in s.cron : TRUE
    BY <1>3
  <2>2. s.cron = {c}
    BY <2>1 DEF Cal!AtMostOne
  <2>3. Cal!The(s.cron) = c
    BY <2>2, TheOnly
  <2>4. PICK f \in {Cal!NextAfter(e, at, z) : e \in Cal!Parse(c), z \in s.timezone \cap Cal!Zones} \ {Cal!Never} :
            saved = [schedule |-> Cal!Schedule(s.cron, s.timezone, {}, {}), next |-> f]
    BY <1>3, <2>3 DEF Cal!NormalizeCalendar
  <2>5. PICK e \in Cal!Parse(c), z \in s.timezone \cap Cal!Zones : f = Cal!NextAfter(e, at, z)
    BY <2>4
  <2>6. s.timezone = {z} /\ z \in Cal!Zones
    BY <2>5 DEF Cal!AtMostOne
  <2>7. e = Cal!The(Cal!Parse(c)) /\ Cal!Parse(c) # {}
    BY <2>5, ParsedOnce
  <2>8. f \in Cal!Instants /\ Cal!Matches(e, Cal!Local(z, f))
    BY <1>1, <2>4, <2>5, <2>6, NextAfterMatches
  <2>9. saved.schedule = CalendarOf(c, z) /\ saved.next = f
    BY <2>2, <2>4, <2>6 DEF CalendarOf
  <2>10. CalendarKept(CalendarOf(c, z), f)
    BY <2>6, <2>7, <2>8, CalendarIsKept
  <2>11. CalendarOf(c, z) # Cal!Unscheduled
    BY CalendarIsScheduled
  <2>12. QED
    BY <2>9, <2>10, <2>11 DEF Kept
<1>4. CASE s.cron = {} /\ s.every_secs # {} /\ saved \in Cal!NormalizeInterval(s, at)
  <2>1. PICK secs \in s.every_secs :
            /\ secs >= MinInterval
            /\ saved = [schedule |-> IntervalOf(secs, at + secs), next |-> at + secs]
    BY <1>4 DEF Cal!NormalizeInterval, IntervalOf
  <2>2. secs \in Int /\ MinInterval \in Nat \ {0} /\ MaxNow + secs <= Horizon
    BY <2>1 DEF Cal!CalendarFits
  <2>3. secs \in Nat \ {0}
    BY <2>1, <2>2
  <2>4. at + secs \in Cal!Instants
    BY <1>1, <2>2, <2>3 DEF Cal!Instants
  <2>5. saved.schedule = IntervalOf(secs, at + secs) /\ saved.next = at + secs
    BY <2>1
  <2>6. IntervalKept(saved.schedule, saved.next)
    BY <2>2, <2>3, <2>4, <2>5 DEF IntervalKept
  <2>7. IntervalOf(secs, at + secs) # Cal!Unscheduled
    BY IntervalFires
  <2>8. QED
    BY <2>5, <2>6, <2>7 DEF Kept
<1>5. QED
  BY <1>2, <1>3, <1>4

\* A cron that was not created is within the invariant.
LEMMA CalInit ==
    ASSUME Cal!CalendarFits, Cal!Init
    PROVE  CalInv
BY DEF CalInv, Cal!Init

\* Creating a cron saves one.
LEMMA CreatedIsKept ==
    ASSUME Cal!CalendarFits, now \in 0..MaxNow, NEW r \in Requests, Cal!Create(r)
    PROVE  /\ Kept(schedule', next') /\ schedule' # Cal!Unscheduled
           /\ schedule = Cal!Unscheduled /\ now' = now
<1> DEFINE asked == IF r.by = "tool" THEN Cal!ScheduleOfTool(r) ELSE Cal!ScheduleOfForm(r)
<1>1. PICK saved \in Cal!Normalize(asked, now) :
          schedule' = saved.schedule /\ next' = saved.next
  BY DEF Cal!Create
<1>2. schedule = Cal!Unscheduled /\ now' = now
  BY DEF Cal!Create
<1>3. /\ Cal!AtMostOne(r.cron) /\ Cal!AtMostOne(r.timezone) /\ Cal!AtMostOne(r.every)
      /\ r.every \subseteq Int
      /\ \A n \in r.every : MaxNow + n <= Horizon
  BY DEF Cal!CalendarFits, Cal!Request
<1>4. /\ Cal!AtMostOne(Cal!ScheduleOfTool(r).cron) /\ Cal!AtMostOne(Cal!ScheduleOfTool(r).timezone)
      /\ Cal!ScheduleOfTool(r).every_secs \subseteq r.every
  BY <1>3 DEF Cal!ScheduleOfTool, Cal!Schedule, Cal!AtMostOne
<1>5. /\ Cal!AtMostOne(Cal!ScheduleOfForm(r).cron) /\ Cal!AtMostOne(Cal!ScheduleOfForm(r).timezone)
      /\ Cal!ScheduleOfForm(r).every_secs \subseteq r.every
  BY <1>3 DEF Cal!ScheduleOfForm, Cal!Schedule, Cal!AtMostOne
<1>6. /\ Cal!AtMostOne(asked.cron) /\ Cal!AtMostOne(asked.timezone)
      /\ asked.every_secs \subseteq r.every
  BY <1>4, <1>5
<1> HIDE DEF asked
<1>7. asked.every_secs \subseteq Int /\ \A n \in asked.every_secs : MaxNow + n <= Horizon
  BY <1>3, <1>6
<1>8. Kept(saved.schedule, saved.next) /\ saved.schedule # Cal!Unscheduled
  BY <1>1, <1>6, <1>7, NormalizedIsKept
<1>9. QED
  BY <1>1, <1>2, <1>8

\* A cron that is armed anew was saved, and is armed by `next_fire_after`.
LEMMA RearmedByNextFire ==
    ASSUME Cal!CalendarFits, CalInv, Cal!Serve \/ Cal!Enable
    PROVE  /\ Kept(schedule, next) /\ schedule' = schedule /\ now' = now
           /\ next' = Cal!NextFireAfter(schedule, now)
BY DEF CalInv, Cal!Serve, Cal!Enable

\* Each step keeps the invariant.
LEMMA CalStep ==
    ASSUME Cal!CalendarFits, CalInv, [Cal!Next]_Cal!vars
    PROVE  CalInv'
<1>1. ASSUME NEW r \in Requests, Cal!Create(r) PROVE CalInv'
  BY <1>1, CreatedIsKept DEF CalInv
<1>2. CASE Cal!Serve \/ Cal!Enable
  <2>1. /\ Kept(schedule, next) /\ schedule' = schedule /\ now' = now
        /\ next' = Cal!NextFireAfter(schedule, now) /\ now \in 0..MaxNow
    BY <1>2, RearmedByNextFire DEF CalInv
  <2>2. Kept(schedule, Cal!NextFireAfter(schedule, now))
    BY <2>1, RearmedIsKept
  <2>3. QED
    BY <2>1, <2>2 DEF CalInv
<1>3. CASE Cal!Minute
  <2>1. MaxNow \in Nat
    BY ClockIsInstant
  <2>2. QED
    BY <1>3, <2>1 DEF CalInv, Cal!Minute
<1>4. CASE UNCHANGED Cal!vars
  BY <1>4 DEF CalInv, Cal!vars
<1>5. QED
  BY <1>1, <1>2, <1>3, <1>4 DEF Cal!Next

\* Only serving and enabling arm a saved cron anew.
LEMMA ArmingIsRearming ==
    ASSUME Cal!CalendarFits, CalInv, [Cal!Next]_Cal!vars, Cal!Arming
    PROVE  Cal!Serve \/ Cal!Enable
<1>1. ASSUME NEW r \in Requests, Cal!Create(r) PROVE FALSE
  BY <1>1, CreatedIsKept DEF CalInv, Cal!Arming
<1>2. ~Cal!Minute
  BY DEF Cal!Minute, Cal!Arming
<1>3. ~UNCHANGED Cal!vars
  BY DEF Cal!vars, Cal!Arming
<1>4. QED
  BY <1>1, <1>2, <1>3 DEF Cal!Next

\* The invariant holds in every behaviour.
LEMMA CalInvariant ==
    ASSUME Cal!CalendarFits
    PROVE  Cal!Spec => []CalInv
<1>1. Cal!Init => CalInv
  BY CalInit
<1>2. CalInv /\ [Cal!Next]_Cal!vars => CalInv'
  BY CalStep
<1>3. QED
  BY <1>1, <1>2, PTL DEF Cal!Spec

\* What a calendar is armed for, in its parts: its expression and its zone.
LEMMA CalendarParts ==
    ASSUME Cal!CalendarFits, Kept(schedule, next), Cal!IsCalendar, now \in 0..MaxNow
    PROVE  /\ Cal!Zone \in Cal!Zones /\ now \in Cal!Instants
           /\ Cal!NextFireAfter(schedule, now) = Cal!NextAfter(Cal!Expression, now, Cal!Zone)
<1>1. CalendarKept(schedule, next)
  BY IntervalFires DEF Kept, IntervalKept, Cal!IsCalendar
<1>2. PICK c, z : schedule = CalendarOf(c, z) /\ z \in Cal!Zones
  BY <1>1 DEF CalendarKept
<1>3. schedule.cron = {c} /\ schedule.timezone = {z}
  BY <1>2, CalendarFires
<1>4. Cal!The(schedule.cron) = c /\ Cal!Zone = z
  BY <1>3, TheOnly DEF Cal!Zone
<1>5. Cal!NextFireAfter(schedule, now) = Cal!NextAfter(Cal!The(Cal!Parse(c)), now, z)
  BY <1>2, CalendarFires
<1>6. QED
  BY <1>2, <1>4, <1>5, ClockIsInstant DEF Cal!Expression

\* Every cron can be read back, and is armed for an instant whose wall-clock
\* time its expression names: a job set for 02:30 never runs at 03:30 on the day
\* 02:30 is skipped (cron/schedule.rs, resolve_local and next_after).
THEOREM CalendarsAreNamed == ASSUME Cal!CalendarFits PROVE Cal!Spec => []Cal!TypeOK
<1>1. CalInv => Cal!TypeOK
  <2> SUFFICES ASSUME CalInv PROVE Cal!TypeOK
    OBVIOUS
  <2>1. now \in 0..MaxNow
    BY DEF CalInv
  <2>2. CASE schedule = Cal!Unscheduled /\ next = Cal!Never
    <3>1. ~Cal!IsCalendar
      BY <2>2 DEF Cal!IsCalendar, Cal!Unscheduled, Cal!Schedule
    <3>2. QED
      BY <2>1, <2>2, <3>1 DEF Cal!TypeOK
  <2>3. CASE CalendarKept(schedule, next)
    <3>1. PICK c, z :
              /\ schedule = CalendarOf(c, z) /\ z \in Cal!Zones /\ Cal!Parse(c) # {}
              /\ \/ next = Cal!Never
                 \/ /\ next \in Cal!Instants
                    /\ Cal!Matches(Cal!The(Cal!Parse(c)), Cal!Local(z, next))
      BY <2>3 DEF CalendarKept
    <3>2. schedule.cron = {c} /\ schedule.timezone = {z} /\ schedule.every_secs = {}
      BY <3>1, CalendarFires
    <3>3. Cal!The(schedule.cron) = c /\ Cal!Zone = z
      BY <3>2, TheOnly DEF Cal!Zone
    <3>4. QED
      BY <2>1, <3>1, <3>2, <3>3 DEF Cal!TypeOK, Cal!Expression
  <2>4. CASE IntervalKept(schedule, next)
    <3>1. next \in Cal!Instants /\ ~Cal!IsCalendar
      BY <2>4, IntervalFires DEF IntervalKept, Cal!IsCalendar
    <3>2. QED
      BY <2>1, <3>1 DEF Cal!TypeOK
  <2>5. QED
    BY <2>2, <2>3, <2>4 DEF CalInv, Kept
<1>2. QED
  BY <1>1, CalInvariant, PTL

\* As long as the clock is not in the second pass of a repeated hour, serving or
\* enabling a cron arms it for the first instant its expression names, through
\* any gap and any repeated hour (cron/schedule.rs, next_after), for every
\* calendar, zone and expression.
THEOREM FirstMatchIsArmed ==
    ASSUME Cal!CalendarFits PROVE Cal!Spec => Cal!ArmedForFirstMatch
<1>1. ASSUME CalInv, [Cal!Next]_Cal!vars, Cal!Arming, Cal!IsCalendar,
             ~Cal!Repeated(Cal!Zone, now)
      PROVE  next' = Cal!FirstMatch(Cal!Expression, Cal!Zone, now)
  <2>1. Kept(schedule, next) /\ next' = Cal!NextFireAfter(schedule, now) /\ now \in 0..MaxNow
    BY <1>1, ArmingIsRearming, RearmedByNextFire DEF CalInv
  <2>2. /\ Cal!Zone \in Cal!Zones /\ now \in Cal!Instants
        /\ next' = Cal!NextAfter(Cal!Expression, now, Cal!Zone)
    BY <1>1, <2>1, CalendarParts
  <2>3. QED
    BY <1>1, <2>2, FindsFirstMatch
<1>2. CalInv /\ [Cal!Next]_Cal!vars =>
        [Cal!Arming /\ Cal!IsCalendar /\ ~Cal!Repeated(Cal!Zone, now)
            => next' = Cal!FirstMatch(Cal!Expression, Cal!Zone, now)]_Cal!vars
  BY <1>1
<1>3. QED
  BY <1>2, CalInvariant, PTL DEF Cal!Spec, Cal!ArmedForFirstMatch

\* A cron that is served is never armed for a wall-clock time that is not later
\* than the one it now is, also where the clock is set back: a daily job runs
\* once, not twice (cron/schedule.rs, resolve_local).
THEOREM LocalTimesMoveOn ==
    ASSUME Cal!CalendarFits PROVE Cal!Spec => Cal!LocalTimeMovesOn
<1>1. ASSUME CalInv, [Cal!Next]_Cal!vars, Cal!Arming, Cal!IsCalendar, next' # Cal!Never
      PROVE  Cal!Local(Cal!Zone, next') > Cal!Local(Cal!Zone, now)
  <2>1. Kept(schedule, next) /\ next' = Cal!NextFireAfter(schedule, now) /\ now \in 0..MaxNow
    BY <1>1, ArmingIsRearming, RearmedByNextFire DEF CalInv
  <2>2. /\ Cal!Zone \in Cal!Zones /\ now \in Cal!Instants
        /\ next' = Cal!NextAfter(Cal!Expression, now, Cal!Zone)
    BY <1>1, <2>1, CalendarParts
  <2>3. QED
    BY <1>1, <2>2, NextAfterMatches
<1>2. CalInv /\ [Cal!Next]_Cal!vars =>
        [Cal!Arming /\ Cal!IsCalendar /\ next' # Cal!Never
            => Cal!Local(Cal!Zone, next') > Cal!Local(Cal!Zone, now)]_Cal!vars
  BY <1>1
<1>3. QED
  BY <1>2, CalInvariant, PTL DEF Cal!Spec, Cal!LocalTimeMovesOn

\* However late an interval cron is served, and however often it is switched, it
\* is armed for the first instant later than the clock that is whole intervals
\* away from the instant it was first armed for (cron/schedule.rs,
\* next_fire_after).
THEOREM IntervalsKeepTheirBeat ==
    ASSUME Cal!CalendarFits PROVE Cal!Spec => Cal!IntervalKeepsItsBeat
<1> DEFINE secs == Cal!The(schedule.every_secs)
           anchor == Cal!The(schedule.first_fire_at)
           beats == {t \in Cal!Instants : t % secs = anchor % secs}
           later == {t \in beats : t > now /\ t >= anchor}
<1>1. ASSUME CalInv, [Cal!Next]_Cal!vars, Cal!Arming, ~Cal!IsCalendar
      PROVE  next' = Cal!Earlier(later)
  <2>1. /\ Kept(schedule, next) /\ next' = Cal!NextFireAfter(schedule, now)
        /\ schedule' = schedule /\ now' = now /\ now \in 0..MaxNow
    BY <1>1, ArmingIsRearming, RearmedByNextFire DEF CalInv
  <2>2. IntervalKept(schedule, next)
    BY <1>1, <2>1, CalendarFires DEF Kept, CalendarKept, Cal!IsCalendar
  <2>3. PICK n \in Nat \ {0}, a \in Cal!Instants :
            schedule = IntervalOf(n, a) /\ MaxNow + n <= Horizon
    BY <2>2 DEF IntervalKept
  <2>4. secs = n /\ anchor = a
    BY <2>3, IntervalFires, TheOnly
  <2>5. next' = Cal!IntervalAfter(n, a, now)
    BY <2>1, <2>3, IntervalFires
  <2>6. now \in Nat /\ a \in Nat /\ MaxNow \in Nat /\ Horizon \in Nat /\ now <= MaxNow
        /\ a <= Horizon
    BY <2>1, ClockIsInstant DEF Cal!Instants
  <2>7. /\ next' \in Nat /\ next' > now /\ next' >= a /\ next' % n = a % n
        /\ next' = a \/ next' <= now + n
        /\ \A t \in Nat : t % n = a % n /\ t > now /\ t >= a => next' <= t
    BY <2>5, <2>6, BeatIsKept
  <2>8. next' \in Cal!Instants
    BY <2>3, <2>6, <2>7 DEF Cal!Instants
  <2>9. next' \in later
    BY <2>4, <2>7, <2>8
  <2>10. \A t \in later : t \in Nat /\ next' <= t
    BY <2>4, <2>6, <2>7 DEF Cal!Instants
  <2>11. later \in SUBSET Int /\ \A t \in later : 0 <= t
    BY <2>10
  <2> HIDE DEF later
  <2>12. Cal!Earlier(later) \in later /\ \A t \in later : Cal!Earlier(later) <= t
    BY <2>9, <2>11, EarlierIsLeast
  <2>13. next' <= Cal!Earlier(later) /\ Cal!Earlier(later) <= next'
    BY <2>9, <2>10, <2>12
  <2>14. Cal!Earlier(later) \in Nat
    BY <2>10, <2>12
  <2>15. QED
    BY <2>7, <2>13, <2>14
<1>2. CalInv /\ [Cal!Next]_Cal!vars =>
        [Cal!Arming /\ ~Cal!IsCalendar => next' = Cal!Earlier(later)]_Cal!vars
  BY <1>1
<1>3. QED
  BY <1>2, CalInvariant, PTL DEF Cal!Spec, Cal!IntervalKeepsItsBeat

\* What CronScheduler takes a calendar for - a set of instants of which the next
\* later one is armed - is what the search of `next_after` does, out of a
\* repeated hour: the set of the instants that the expression names on the days
\* searched, each repeated time once.  And both modules advance an interval the
\* same way (cron/schedule.rs, next_fire_after).
THEOREM SchedulesAreCalendars ==
    ASSUME Cal!CalendarFits, NEW z \in Cal!Zones, NEW t \in Cal!Instants, NEW e,
           ~Cal!Repeated(z, t)
    PROVE  /\ Cal!NextAfter(e, t, z) =
                 CalendarAfter({u \in Cal!Instants : /\ Cal!Day(Cal!Local(z, u)) < CalSearched(z, t)
                                                     /\ Cal!Matches(e, Cal!Local(z, u))
                                                     /\ ~Cal!Repeated(z, u)}, t)
           /\ \A secs, anchor : Cal!IntervalAfter(secs, anchor, t) = IntervalAfter(secs, anchor, t)
<1> DEFINE named == {u \in Cal!Instants : /\ Cal!Day(Cal!Local(z, u)) < CalSearched(z, t)
                                          /\ Cal!Matches(e, Cal!Local(z, u))
                                          /\ ~Cal!Repeated(z, u)}
           found == {u \in Cal!Instants :
                        u > t /\ Cal!Day(Cal!Local(z, u)) < CalSearched(z, t)
                              /\ Cal!Matches(e, Cal!Local(z, u)) /\ ~Cal!Repeated(z, u)}
<1>1. {u \in named : u > t} = found
  OBVIOUS
<1>2. Cal!FirstMatch(e, z, t) = IF found = {} THEN Cal!Never ELSE Cal!Earlier(found)
  BY DEF Cal!FirstMatch, CalSearched, CalStart
<1> HIDE DEF named, found
<1>3. CalendarAfter(named, t) = IF found = {} THEN Never ELSE Cal!Earlier(found)
  <2> DEFINE later == {u \in named : u > t}
  <2>1. CalendarAfter(named, t) = IF later = {} THEN Never ELSE Cal!Earlier(later)
    BY DEF CalendarAfter, Cal!Earlier
  <2> HIDE DEF later
  <2>2. later = found
    BY <1>1 DEF later
  <2>3. QED
    BY <2>1, <2>2
<1>4. Cal!NextAfter(e, t, z) = CalendarAfter(named, t)
  BY <1>2, <1>3, FindsFirstMatch DEF Never, Cal!Never
<1>5. \A secs, anchor : Cal!IntervalAfter(secs, anchor, t) = IntervalAfter(secs, anchor, t)
  BY DEF IntervalAfter, Cal!IntervalAfter
<1>6. QED
  BY <1>4, <1>5 DEF named
=============================================================================
