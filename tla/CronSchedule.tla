----------------------------- MODULE CronSchedule -----------------------------
(***************************************************************************)
(* When a cron fires next: `normalize` and `next_fire_after` of            *)
(* cron/schedule.rs.  A schedule is either an interval (`every_secs` with  *)
(* the anchor `first_fire_at` that `normalize` always stores) or a         *)
(* calendar (`cron` expression), here the set of instants the expression   *)
(* resolves to.  How an expression resolves, daylight saving included, is  *)
(* the subject of module CronExpression; this module takes a calendar whose*)
(* instants are already resolved.                                          *)
(*                                                                         *)
(* Instants are natural numbers; the unit is whatever the instance likes.  *)
(***************************************************************************)
EXTENDS Integers

\* `next_fire_at` is NULL: the schedule never fires again.
Never == -1

Interval(secs, anchor) == [kind |-> "interval", secs |-> secs, anchor |-> anchor]
Calendar(instants) == [kind |-> "calendar", instants |-> instants]

\* Mutant of IntervalAfter: counts seconds where it must count intervals.
IntervalAfterInSeconds(secs, anchor, after) ==
    IF anchor > after
    THEN anchor
    ELSE anchor + (after - anchor + 1) * secs

\* Whole intervals from the anchor, so that a slow tick does not drift.
IntervalAfter(secs, anchor, after) ==
    IF anchor > after
    THEN anchor
    ELSE anchor + ((after - anchor) \div secs + 1) * secs

\* Mutant of CalendarAfter: the search starts at `after` itself.
CalendarFrom(instants, after) ==
    LET later == {t \in instants : t >= after} IN
    IF later = {}
    THEN Never
    ELSE CHOOSE t \in later : \A u \in later : t <= u

\* The least matching instant later than `after`; Never when the search finds none.
CalendarAfter(instants, after) ==
    LET later == {t \in instants : t > after} IN
    IF later = {}
    THEN Never
    ELSE CHOOSE t \in later : \A u \in later : t <= u

NextFireAfter(s, after) ==
    IF s.kind = "interval"
    THEN IntervalAfter(s.secs, s.anchor, after)
    ELSE CalendarAfter(s.instants, after)
=============================================================================
