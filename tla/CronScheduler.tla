---------------------------- MODULE CronScheduler ----------------------------
(***************************************************************************)
(* The cron subsystem: the `crons` and `cron_fires` tables of              *)
(* store/crons.rs, the scheduler loop of cron/scheduler.rs, and the web and*)
(* tool handlers that create, switch and delete crons while a tick runs.   *)
(*                                                                         *)
(* A scheduler tick is a chain of store calls around one agent turn.  Each *)
(* store call is an action: between two of them another process runs, the  *)
(* clock moves, a person edits the cron, or the process dies.              *)
(***************************************************************************)
EXTENDS CronSchedule, FiniteSets

CONSTANTS
    Crons,        \* ids `create` may hand out; an id is handed out once
    Workers,      \* server processes ticking against one database
    Users,        \* concurrent web requests that switch a cron on or off
    Secs,         \* Secs[c]: `every_secs`, when c is an interval cron
    Matches,      \* Matches[c]: the instants of a calendar cron; {} for an interval
    Destined,     \* crons saved with a destination
    MaxCatchup,   \* [cron].max_catchup_secs
    MaxTime,      \* bound: the clock stops here
    Horizon,      \* bound: the last instant a schedule can name
    MaxFailures   \* bound: ticks that die or abort

ASSUME CronAssumption ==
    /\ MaxCatchup \in Nat
    /\ MaxTime \in Nat
    /\ Horizon \in Nat
    /\ MaxFailures \in Nat
    /\ Secs \in [Crons -> Nat \ {0}]
    /\ \A c \in Crons : MaxTime + Secs[c] <= Horizon
    /\ Matches \in [Crons -> SUBSET (0..Horizon)]

Instants == 0..Horizon

VARIABLES
    now,         \* Utc::now()
    crons,       \* crons[c]: the row of `crons`
    fires,       \* fires[c][t]: the row of `cron_fires` with fire_key t
    turns,       \* history: turns[c][t], agent turns started for instant t of c
    deliveries,  \* idempotency keys <<c, t>> of the rows in `deliveries`
    sched,       \* sched[w]: where the scheduler loop of process w is
    edit,        \* edit[u]: a toggle request in flight
    failures     \* ticks lost so far
vars == <<now, crons, fires, turns, deliveries, sched, edit, failures>>
db == <<crons, fires, deliveries>>

-----------------------------------------------------------------------------
(* Values *)

RowStates == {"unborn", "live", "deleted"}
Row == [state : RowStates, enabled : BOOLEAN, next : Instants \cup {Never}, anchor : Instants]
Unborn == [state |-> "unborn", enabled |-> FALSE, next |-> Never, anchor |-> 0]
Deleted == [state |-> "deleted", enabled |-> FALSE, next |-> Never, anchor |-> 0]

\* "absent": no row.  "claimed": inserted by `claim_fire`, outcome not yet
\* written.  "done" stands for ok, silent, refused, pending_approval and
\* failed: the scheduler treats every outcome of a turn alike.
FireStatus == {"absent", "claimed", "skipped", "done"}

\* A tick works through a snapshot of the rows that were due when it started.
Due == [cron : Crons, key : Instants]
NoFire == [cron |-> "none", key |-> Never]
Holding == {"skip", "turn", "complete", "enqueue"}
Loop ==
    [pc : {"idle", "next"}, at : 0..MaxTime, due : SUBSET Due, fire : {NoFire}]
        \cup [pc : Holding, at : 0..MaxTime, due : SUBSET Due, fire : Due]
Idle == [pc |-> "idle", at |-> 0, due |-> {}, fire |-> NoFire]

NoEdit == [pc |-> "idle", cron |-> "none", enable |-> FALSE, next |-> Never]
Edit ==
    [pc : {"read", "write"}, cron : Crons, enable : BOOLEAN, next : Instants \cup {Never}]
        \cup {NoEdit}

Live(c) == crons[c].state = "live"

Schedule(c) ==
    IF Matches[c] = {}
    THEN Interval(Secs[c], crons[c].anchor)
    ELSE Calendar(Matches[c])

\* Mutant of IsDue: looks one unit ahead of the clock.
IsDueAhead(c, at) ==
    /\ Live(c)
    /\ crons[c].enabled
    /\ crons[c].next # Never
    /\ crons[c].next <= at + 1

IsDue(c, at) ==
    /\ Live(c)
    /\ crons[c].enabled
    /\ crons[c].next # Never
    /\ crons[c].next <= at

\* The cron the loop looks at next: the snapshot is ordered by next_fire_at.
Earliest(due) == {d \in due : \A e \in due : d.key <= e.key}

-----------------------------------------------------------------------------
(* The scheduler loop *)

\* The loop goes on with the rest of its snapshot, or the tick returns.
Continue(w) ==
    sched' = [sched EXCEPT ![w] =
                 IF @.due = {} THEN Idle ELSE [@ EXCEPT !.pc = "next", !.fire = NoFire]]

\* `tick`: read the due crons.  A tick that finds none changes nothing.
Tick(w) ==
    LET due == {[cron |-> c, key |-> crons[c].next] : c \in {d \in Crons : IsDue(d, now)}} IN
    /\ sched[w].pc = "idle"
    /\ due # {}
    /\ sched' = [sched EXCEPT ![w] = [pc |-> "next", at |-> now, due |-> due, fire |-> NoFire]]
    /\ UNCHANGED <<now, db, turns, edit, failures>>

\* Mutant of ClaimWon: an upsert where the INSERT must not overwrite.
ClaimUpsert(w, d) ==
    /\ Live(d.cron)
    /\ fires' = [fires EXCEPT ![d.cron][d.key] = "claimed"]
    /\ sched' = [sched EXCEPT ![w].due = @ \ {d}, ![w].fire = d,
                              ![w].pc = IF sched[w].at - d.key > MaxCatchup
                                        THEN "skip" ELSE "turn"]

\* `claim_fire` inserts the row and wins the instant; the catch-up window then
\* decides whether it runs.
ClaimWon(w, d) ==
    /\ Live(d.cron)
    /\ fires[d.cron][d.key] = "absent"
    /\ fires' = [fires EXCEPT ![d.cron][d.key] = "claimed"]
    /\ sched' = [sched EXCEPT ![w].due = @ \ {d}, ![w].fire = d,
                              ![w].pc = IF sched[w].at - d.key > MaxCatchup
                                        THEN "skip" ELSE "turn"]

\* The unique index already holds the instant: the loop moves on.
ClaimLost(w, d) ==
    /\ Live(d.cron)
    /\ fires[d.cron][d.key] # "absent"
    /\ sched' = [sched EXCEPT ![w] = IF @.due = {d} THEN Idle
                                     ELSE [@ EXCEPT !.due = sched[w].due \ {d}]]
    /\ UNCHANGED fires

\* The cron was deleted after the snapshot: the insert breaks the foreign key
\* and the error ends the tick.
ClaimOrphaned(w, d) ==
    /\ ~Live(d.cron)
    /\ sched' = [sched EXCEPT ![w] = Idle]
    /\ UNCHANGED fires

Claim(w) ==
    /\ sched[w].pc = "next"
    /\ \E d \in Earliest(sched[w].due) :
          ClaimWon(w, d) \/ ClaimLost(w, d) \/ ClaimOrphaned(w, d)
    /\ UNCHANGED <<now, crons, turns, deliveries, edit, failures>>

\* Mutant of Record: re-creates the row when it is gone.
RecordAlways(c, t, status) == fires' = [fires EXCEPT ![c][t] = status]

\* An UPDATE of a fire row touches nothing once a delete has cascaded to it.
Record(c, t, status) ==
    fires' = IF Live(c) THEN [fires EXCEPT ![c][t] = status] ELSE fires

\* Both endings of a fire move the schedule past the instant the tick started.
Advance(c, at) ==
    crons' = IF Live(c)
             THEN [crons EXCEPT ![c].next = NextFireAfter(Schedule(c), at)]
             ELSE crons

\* Mutants of SkipFire: the schedule stays where it was; the outcome of a turn
\* is written for a turn that never ran.
SkipKeepsSchedule(w) ==
    LET f == sched[w].fire IN
    /\ sched[w].pc = "skip"
    /\ Record(f.cron, f.key, "skipped")
    /\ Continue(w)
    /\ UNCHANGED <<now, crons, turns, deliveries, edit, failures>>

SkipAsDone(w) ==
    LET f == sched[w].fire IN
    /\ sched[w].pc = "skip"
    /\ Record(f.cron, f.key, "done")
    /\ Advance(f.cron, sched[w].at)
    /\ Continue(w)
    /\ UNCHANGED <<now, turns, deliveries, edit, failures>>

SkipFire(w) ==
    LET f == sched[w].fire IN
    /\ sched[w].pc = "skip"
    /\ Record(f.cron, f.key, "skipped")
    /\ Advance(f.cron, sched[w].at)
    /\ Continue(w)
    /\ UNCHANGED <<now, turns, deliveries, edit, failures>>

\* `handle_turn` runs the agent with the cron's message.
RunTurn(w) ==
    LET f == sched[w].fire IN
    /\ sched[w].pc = "turn"
    /\ turns' = [turns EXCEPT ![f.cron][f.key] = @ + 1]
    /\ sched' = [sched EXCEPT ![w].pc = "complete"]
    /\ UNCHANGED <<now, db, edit, failures>>

\* `complete_fire`, then the choice to queue a reply: only for a cron with a
\* destination, and only when the turn (or its error) said something.
CompleteFire(w) ==
    LET f == sched[w].fire IN
    /\ sched[w].pc = "complete"
    /\ Record(f.cron, f.key, "done")
    /\ Advance(f.cron, sched[w].at)
    /\ \/ /\ f.cron \in Destined
          /\ sched' = [sched EXCEPT ![w].pc = "enqueue"]
       \/ Continue(w)
    /\ UNCHANGED <<now, turns, deliveries, edit, failures>>

Enqueue(w) ==
    LET f == sched[w].fire IN
    /\ sched[w].pc = "enqueue"
    /\ deliveries' = deliveries \cup {<<f.cron, f.key>>}
    /\ Continue(w)
    /\ UNCHANGED <<now, crons, fires, turns, edit, failures>>

\* The tick is lost: the process dies and restarts, or a store call fails and
\* `?` carries the error out of `tick`.  Nothing of the loop survives.
LoseTick(w) ==
    /\ sched[w].pc # "idle"
    /\ failures < MaxFailures
    /\ sched' = [sched EXCEPT ![w] = Idle]
    /\ failures' = failures + 1
    /\ UNCHANGED <<now, db, turns, edit>>

-----------------------------------------------------------------------------
(* People *)

\* `create`: an interval's first fire is one interval away and anchors it; a
\* calendar that never fires is refused.
Create(c) ==
    LET first == IF Matches[c] = {} THEN now + Secs[c] ELSE CalendarAfter(Matches[c], now) IN
    /\ crons[c].state = "unborn"
    /\ first # Never
    /\ crons' = [crons EXCEPT ![c] =
                    [state |-> "live", enabled |-> TRUE, next |-> first, anchor |-> first]]
    /\ UNCHANGED <<now, fires, turns, deliveries, sched, edit, failures>>

\* `delete`: the fires of the cron go with it.
Delete(c) ==
    /\ Live(c)
    /\ crons' = [crons EXCEPT ![c] = Deleted]
    /\ fires' = [fires EXCEPT ![c] = [t \in Instants |-> "absent"]]
    /\ UNCHANGED <<now, turns, deliveries, sched, edit, failures>>

\* `toggle_cron` reads the row to decide which way to switch it...
ToggleRead(u, c) ==
    /\ edit[u].pc = "idle"
    /\ Live(c)
    /\ edit' = [edit EXCEPT ![u] = [pc |-> "read", cron |-> c,
                                    enable |-> ~crons[c].enabled, next |-> Never]]
    /\ UNCHANGED <<now, db, turns, sched, failures>>

\* ...`set_enabled` reads it again and computes the next fire, from now when
\* the cron is being enabled...
SetEnabledRead(u) ==
    LET c == edit[u].cron IN
    /\ edit[u].pc = "read"
    /\ edit' = [edit EXCEPT ![u] =
                   IF ~Live(c) THEN NoEdit
                   ELSE [@ EXCEPT !.pc = "write",
                                  !.next = IF edit[u].enable THEN NextFireAfter(Schedule(c), now)
                                           ELSE crons[c].next]]
    /\ UNCHANGED <<now, db, turns, sched, failures>>

\* ...and writes both columns.
SetEnabledWrite(u) ==
    LET c == edit[u].cron IN
    /\ edit[u].pc = "write"
    /\ crons' = IF Live(c)
                THEN [crons EXCEPT ![c].enabled = edit[u].enable, ![c].next = edit[u].next]
                ELSE crons
    /\ edit' = [edit EXCEPT ![u] = NoEdit]
    /\ UNCHANGED <<now, fires, turns, deliveries, sched, failures>>

\* A unit of the clock is longer than the call of `set_enabled`: it reads the
\* clock and writes the row without an await between them, the lock wait is 5s
\* (busy_timeout) and the shortest interval 60s (MIN_INTERVAL_SECS).
AdvanceClock ==
    /\ now < MaxTime
    /\ \A u \in Users : edit[u].pc # "write"
    /\ now' = now + 1
    /\ UNCHANGED <<db, turns, sched, edit, failures>>

-----------------------------------------------------------------------------
Init ==
    /\ now = 0
    /\ crons = [c \in Crons |-> Unborn]
    /\ fires = [c \in Crons |-> [t \in Instants |-> "absent"]]
    /\ turns = [c \in Crons |-> [t \in Instants |-> 0]]
    /\ deliveries = {}
    /\ sched = [w \in Workers |-> Idle]
    /\ edit = [u \in Users |-> NoEdit]
    /\ failures = 0

WorkerStep(w) ==
    \/ Tick(w)
    \/ Claim(w)
    \/ SkipFire(w)
    \/ RunTurn(w)
    \/ CompleteFire(w)
    \/ Enqueue(w)

UserStep(u) ==
    \/ \E c \in Crons : ToggleRead(u, c)
    \/ SetEnabledRead(u)
    \/ SetEnabledWrite(u)

Next ==
    \/ \E w \in Workers : WorkerStep(w) \/ LoseTick(w)
    \/ \E u \in Users : UserStep(u)
    \/ \E c \in Crons : Create(c) \/ Delete(c)
    \/ AdvanceClock

Spec == Init /\ [][Next]_vars

\* The loop of `run` never ends, a turn is bounded by the step limit and the
\* sandbox and HTTP timeouts, and a store call returns.
Fairness ==
    /\ \A w \in Workers : WF_vars(WorkerStep(w))
    /\ \A u \in Users : WF_vars(SetEnabledRead(u) \/ SetEnabledWrite(u))
FairSpec == Spec /\ Fairness

-----------------------------------------------------------------------------
(* Correctness *)

TypeOK ==
    /\ now \in 0..MaxTime
    /\ crons \in [Crons -> Row]
    /\ fires \in [Crons -> [Instants -> FireStatus]]
    /\ turns \in [Crons -> [Instants -> Nat]]
    /\ deliveries \subseteq (Crons \X Instants)
    /\ sched \in [Workers -> Loop]
    /\ edit \in [Users -> Edit]
    /\ failures \in 0..MaxFailures

\* Exactly one of "crons fire exactly once": the unique index on (cron_id,
\* fire_key) lets no instant start a second turn, whatever ticks overlap,
\* processes die, schedules are rewound or people switch the cron meanwhile.
RunsOnce == \A c \in Crons, t \in Instants : turns[c][t] <= 1

\* What the list of fires shows a person is what happened: a fire recorded as
\* done ran its turn, and one recorded as skipped, or never claimed, did not.
OutcomeMatchesTurn ==
    \A c \in Crons, t \in Instants :
        /\ fires[c][t] = "done" => turns[c][t] = 1
        /\ fires[c][t] = "skipped" => turns[c][t] = 0
        /\ fires[c][t] = "absent" /\ crons[c].state # "deleted" => turns[c][t] = 0

\* Deleting a cron during its own turn leaves no orphan: the UPDATEs that end
\* the turn find no row, so no fire of a deleted cron exists.
DeletedLeavesNothing ==
    \A c \in Crons :
        crons[c].state = "deleted" => \A t \in Instants : fires[c][t] = "absent"

\* With one process and no lost tick, an armed cron can always fire again:
\* unless its fire is being worked on right now, the instant the row is armed
\* for is unclaimed.  An armed instant already claimed is a cron that every
\* later tick finds due and no tick ever runs.
InFlight(c) == \E w \in Workers : sched[w].pc \in {"skip", "turn", "complete"} /\ sched[w].fire.cron = c
ArmedIsClaimable ==
    \A c \in Crons :
        Live(c) /\ crons[c].enabled /\ crons[c].next # Never /\ ~InFlight(c)
            => fires[c][crons[c].next] = "absent"

\* A due cron does not stay due: the schedule advances whatever the outcome of
\* the turn (scheduler.rs:128), however the crons before it in the tick fare.
DueIsServed == \A c \in Crons : IsDue(c, now) ~> ~IsDue(c, now)

\* The scheduler implements the contract: exactly-once, never early, replies
\* after turns.
Contract == INSTANCE CronContract WITH clock <- now, replies <- deliveries
ImplementsContract == Contract!Spec
-----------------------------------------------------------------------------
(* The inductive invariant behind RunsOnce, OutcomeMatchesTurn and Contract *)

Working(w) == sched[w].pc \in Holding

\* A fire a loop works on is a fire of a cron that was created, was due when
\* the tick started, and whose row says `claimed` until the loop records the
\* outcome; its turn has run exactly when the loop is past it.
HoldsRightly(w) ==
    LET f == sched[w].fire IN
    /\ f.key <= sched[w].at
    /\ crons[f.cron].state # "unborn"
    /\ sched[w].pc \in {"skip", "turn"} => turns[f.cron][f.key] = 0
    /\ sched[w].pc \in {"complete", "enqueue"} => turns[f.cron][f.key] = 1
    /\ sched[w].pc # "enqueue" /\ Live(f.cron) => fires[f.cron][f.key] = "claimed"
HeldFire == \A w \in Workers : Working(w) => HoldsRightly(w)

\* Two loops never hold one fire.
FireHeldOnce ==
    \A v, w \in Workers : Working(v) /\ Working(w) /\ v # w => sched[v].fire # sched[w].fire

\* What is left of a snapshot was due when the tick started, in the past.
SnapshotIsDue ==
    \A w \in Workers :
        /\ sched[w].at <= now
        /\ \A d \in sched[w].due : d.key <= sched[w].at /\ crons[d.cron].state # "unborn"

RepliesFollowTurns == \A c \in Crons, t \in Instants : <<c, t>> \in deliveries => turns[c][t] = 1

IndInv ==
    /\ TypeOK
    /\ HeldFire
    /\ FireHeldOnce
    /\ SnapshotIsDue
    /\ RepliesFollowTurns
    /\ DeletedLeavesNothing
    /\ OutcomeMatchesTurn
    /\ RunsOnce
=============================================================================
