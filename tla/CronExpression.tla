--------------------------- MODULE CronExpression ---------------------------
(***************************************************************************)
(* The schedules of cron/schedule.rs, from the request that saves a cron -  *)
(* the agent's cron tool or the crons page - to the instants it is armed    *)
(* for: which instants an expression names in a time zone with daylight     *)
(* saving, and how a cron is armed when it is created, enabled, or has      *)
(* fired.                                                                   *)
(*                                                                          *)
(* Instants are minutes of UTC; a wall-clock time is a minute count too,    *)
(* `day * DayLength + minute of the day`.  A zone is the offset in force at *)
(* each instant, so that a fall-back gives one wall-clock time two instants *)
(* and a spring-forward gives some none.  What may be missing is a set of   *)
(* at most one element.                                                     *)
(***************************************************************************)
EXTENDS CronFields

CONSTANTS
    Month,          \* Month[d], DayOfMonth[d], DayOfWeek[d]: the calendar
    DayOfMonth,
    DayOfWeek,
    Offset,         \* Offset[z][t]: what zone z adds to the instant t
    DefaultZone,    \* [cron].default_timezone
    MinInterval,    \* MIN_INTERVAL_SECS
    Horizon,        \* bound: the last instant of the model
    MaxNow,         \* bound: the clock stops here
    MaxSearchDays,  \* MAX_SEARCH_DAYS
    Requests        \* bound: what people and agents ask for

Instants == 0..Horizon
Days == DOMAIN Month
Zones == DOMAIN Offset      \* the IANA names; any other name is refused

Never == -1
The(s) == CHOOSE x \in s : TRUE

\* The tool's arguments, and the form: there a field may be blank, <<>> or "",
\* and the interval any text (`whole` when it is a whole number).
Blank == <<>>
AtMostOne(s) == \A a, b \in s : a = b
Request(r) ==
    /\ r.by \in {"tool", "page"}
    /\ AtMostOne(r.cron) /\ AtMostOne(r.timezone)
    /\ r.every \subseteq Int /\ AtMostOne(r.every) /\ r.whole \in BOOLEAN

\* A clock that is set back shows only times it has shown before.
SetBackRepeats(clock) ==
    \A u, v \in Instants : u < v /\ v + clock[v] < u + clock[u] =>
        \E w \in Instants : w < v /\ w + clock[w] = v + clock[v]

\* The calendar and the zones cover the window of the model.
CalendarFits ==
    /\ DayLength \in Nat \ {0} /\ HourLength \in Nat \ {0} /\ MaxSearchDays \in Nat
    /\ Horizon \in Nat /\ MaxNow \in Nat /\ MinInterval \in Nat \ {0}
    /\ \A r \in Requests : Request(r)
    /\ \A z \in Zones : Offset[z] \in [Instants -> Int] /\ SetBackRepeats(Offset[z])
    /\ \A z \in Zones, t \in Instants : t <= MaxNow + (MaxSearchDays + 1) * DayLength =>
          (t + Offset[z][t]) \div DayLength \in Days
    /\ MaxNow + (MaxSearchDays + 1) * DayLength < Horizon
    /\ \A r \in Requests : \A n \in r.every : MaxNow + n <= Horizon
ASSUME CalendarAssumption == CalendarFits

VARIABLES
    schedule,     \* the column `schedule` of a cron
    now,          \* Utc::now(), in minutes
    next          \* next_fire_at
vars == <<schedule, now, next>>

\* CronSchedule; with nothing in it, that of a cron not created yet.
Schedule(cron, zone, every, first) ==
    [cron |-> cron, timezone |-> zone, every_secs |-> every, first_fire_at |-> first]
Unscheduled == Schedule({}, {}, {}, {})

-----------------------------------------------------------------------------
(* Expressions *)

\* When both day fields are restricted either will do; otherwise both must.
DayMatches(e, day) ==
    LET domHit == DayOfMonth[day] \in e.daysOfMonth
        dowHit == DayOfWeek[day] \in e.daysOfWeek
    IN  IF e.domRestricted /\ e.dowRestricted THEN domHit \/ dowHit ELSE domHit /\ dowHit

DateMatches(e, day) == Month[day] \in e.months /\ DayMatches(e, day)

Day(local) == local \div DayLength
Matches(e, local) ==
    /\ DateMatches(e, Day(local))
    /\ (local % DayLength) \div HourLength \in e.hours
    /\ local % HourLength \in e.minutes

-----------------------------------------------------------------------------
(* Zones *)

Local(z, t) == t + Offset[z][t]
InstantsOf(z, local) == {t \in Instants : Local(z, t) = local}
Earlier(instants) == CHOOSE t \in instants : \A u \in instants : t <= u

\* `resolve_local`: the earlier instant of a repeated time; Never in the gap.
Resolve(z, local) ==
    IF InstantsOf(z, local) = {} THEN Never ELSE Earlier(InstantsOf(z, local))

\* Mutants of NextAfter: the minute of `after` itself is looked at; the search
\* goes by instants, and finds the repeated hour twice.
NextFrom(e, after, z) ==
    LET start == Local(z, after)
        found == {n \in start .. (Day(start) + MaxSearchDays) * DayLength - 1 :
                      Matches(e, n) /\ Resolve(z, n) # Never}
    IN  IF found = {} THEN Never ELSE Resolve(z, Earlier(found))

NextInstant(e, after, z) ==
    LET found == {t \in after + 1 .. after + MaxSearchDays * DayLength : Matches(e, Local(z, t))}
    IN  IF found = {} THEN Never ELSE Earlier(found)

\* `next_after`: the days of the window in order, and their wall-clock times in
\* order, from one minute past `after`, until one exists.
NextAfter(e, after, z) ==
    LET start == Local(z, after) + 1
        found == {n \in start .. (Day(start) + MaxSearchDays) * DayLength - 1 :
                      Matches(e, n) /\ Resolve(z, n) # Never}
    IN  IF found = {} THEN Never ELSE Resolve(z, Earlier(found))

-----------------------------------------------------------------------------
(* Saving a cron *)

\* The cron tool: an expression wins over an interval, and a timezone alone
\* cannot pass for a calendar.
ScheduleOfTool(r) ==
    IF r.cron # {}
    THEN Schedule(r.cron, IF r.timezone # {} THEN r.timezone ELSE {DefaultZone}, {}, {})
    ELSE Schedule({}, {}, r.every, {})

\* `create_cron` of the page: blank fields count as missing; both an expression
\* and an interval reach `normalize`.
ScheduleOfForm(r) ==
    LET expression == r.cron \ {Blank}
        zone == r.timezone \ {""}
    IN  Schedule(expression,
                 IF expression = {} THEN {} ELSE IF zone # {} THEN zone ELSE {DefaultZone},
                 r.every, {})

\* `normalize`: the schedule as it is saved and its first fire; nothing when it
\* is refused.
NormalizeCalendar(s, at) ==
    LET first == {NextAfter(e, at, z) : e \in Parse(The(s.cron)), z \in s.timezone \cap Zones}
    IN  {[schedule |-> Schedule(s.cron, s.timezone, {}, {}), next |-> f] : f \in first \ {Never}}

NormalizeInterval(s, at) ==
    {[schedule |-> Schedule({}, {}, {secs}, {at + secs}), next |-> at + secs] :
        secs \in {n \in s.every_secs : n >= MinInterval}}

Normalize(s, at) ==
    CASE s.cron # {} /\ s.every_secs # {} -> {}
      [] s.cron = {} /\ s.every_secs = {} -> {}
      [] s.cron # {} /\ s.every_secs = {} -> NormalizeCalendar(s, at)
      [] s.cron = {} /\ s.every_secs # {} -> NormalizeInterval(s, at)

\* `next_fire_after`.  An interval advances in whole steps from its anchor.
IntervalAfter(secs, anchor, after) ==
    IF anchor > after THEN anchor ELSE anchor + ((after - anchor) \div secs + 1) * secs

\* Mutant of NextFireAfter: an interval starts again at the clock.
NextFireFromNow(s, after) ==
    IF s.cron # {}
    THEN NextAfter(The(Parse(The(s.cron))), after, The(s.timezone))
    ELSE after + The(s.every_secs)

NextFireAfter(s, after) ==
    IF s.cron # {}
    THEN NextAfter(The(Parse(The(s.cron))), after, The(s.timezone))
    ELSE IntervalAfter(The(s.every_secs), The(s.first_fire_at), after)

-----------------------------------------------------------------------------
(* A cron *)

Init ==
    /\ schedule = Unscheduled
    /\ now \in 0..MaxNow
    /\ next = Never

\* The page refuses an interval that is no number before it reads the rest.
Create(r) ==
    LET asked == IF r.by = "tool" THEN ScheduleOfTool(r) ELSE ScheduleOfForm(r) IN
    /\ schedule = Unscheduled
    /\ r.by = "page" => r.whole
    /\ \E saved \in Normalize(asked, now) :
          /\ schedule' = saved.schedule
          /\ next' = saved.next
    /\ UNCHANGED now

\* A tick that serves or skips the cron, and `set_enabled`, arm it anew.
Serve ==
    /\ next # Never /\ next <= now
    /\ next' = NextFireAfter(schedule, now)
    /\ UNCHANGED <<schedule, now>>

Enable ==
    /\ schedule # Unscheduled
    /\ next' = NextFireAfter(schedule, now)
    /\ UNCHANGED <<schedule, now>>

Minute ==
    /\ now < MaxNow
    /\ now' = now + 1
    /\ UNCHANGED <<schedule, next>>

Next == (\E r \in Requests : Create(r)) \/ Serve \/ Enable \/ Minute

Spec == Init /\ [][Next]_vars

-----------------------------------------------------------------------------
(* Properties *)

IsCalendar == schedule.cron # {}
Expression == The(Parse(The(schedule.cron)))
Zone == The(schedule.timezone)

\* A cron that is saved can be read back: its expression parses, its zone
\* exists, and it is armed for an instant whose wall-clock time the expression
\* names - a job set for 02:30 never runs at 03:30 on the day 02:30 is skipped.
TypeOK ==
    /\ now \in 0..MaxNow
    /\ next \in Instants \cup {Never}
    /\ IsCalendar => /\ Parse(The(schedule.cron)) # {} /\ Zone \in Zones
                     /\ schedule.every_secs = {}
                     /\ next # Never => Matches(Expression, Local(Zone, next))

Arming == now' = now /\ next' # next /\ schedule' = schedule
Repeated(z, t) == \E u \in InstantsOf(z, Local(z, t)) : u < t

\* Seen as instants: as long as the clock itself is not in the second pass of a
\* repeated hour, a cron is armed for the first instant later than the clock, on
\* the MaxSearchDays days from the next minute on, whose wall-clock time the
\* expression names, not counting the second pass of a repeated hour; for none
\* when those days have none.
FirstMatch(e, z, t) ==
    LET searched == Day(Local(z, t) + 1) + MaxSearchDays
        found == {u \in Instants : u > t /\ Day(Local(z, u)) < searched
                                   /\ Matches(e, Local(z, u)) /\ ~Repeated(z, u)}
    IN  IF found = {} THEN Never ELSE Earlier(found)
ArmedForFirstMatch ==
    [][Arming /\ IsCalendar /\ ~Repeated(Zone, now)
          => next' = FirstMatch(Expression, Zone, now)]_vars

\* "A daily job runs once, not twice" (schedule.rs:268): serving a cron never
\* arms it for a wall-clock time that is not later than the one it now is.
LocalTimeMovesOn ==
    [][Arming /\ IsCalendar /\ next' # Never => Local(Zone, next') > Local(Zone, now)]_vars

\* "A slow tick does not drift the schedule" (schedule.rs:148): however late a
\* cron is served, and however often it is switched, an interval cron is armed
\* for the first instant later than the clock that is whole intervals away from
\* the instant it was first armed for.
IntervalKeepsItsBeat ==
    [][Arming /\ ~IsCalendar =>
          LET secs == The(schedule.every_secs)
              beats == {t \in Instants : t % secs = The(schedule.first_fire_at) % secs}
          IN  next' = Earlier({t \in beats : t > now /\ t >= The(schedule.first_fire_at)})]_vars
=============================================================================
