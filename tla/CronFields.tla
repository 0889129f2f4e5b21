------------------------------ MODULE CronFields ------------------------------
(***************************************************************************)
(* The text of a cron expression and what `CronExpression::parse` of        *)
(* cron/schedule.rs makes of it.  A text is the sequence of its fields, a   *)
(* field the sequence of the parts its commas separate, a part a range of   *)
(* values with a step; `Star` is the text "*".  A parser here returns the   *)
(* values a text stands for, and none when the code refuses the text.       *)
(***************************************************************************)
EXTENDS Integers, Sequences

CONSTANTS
    DayLength,      \* minutes in a day
    HourLength,     \* minutes in an hour
    MonthLength,    \* days in the longest month
    YearLength,     \* months in a year; each has a name
    WeekLength      \* days in a week; each has a name, day 0 and day WeekLength are one

\* A value is written as a number or as a name, the n-th of the field's names.
Number(n) == [spelt |-> "number", n |-> n]
Name(n) == [spelt |-> "name", n |-> n]

\* `a-b/s`, `a/s` (a value alone has the step 1), `*/s`, and the entry between
\* two commas that follow each other.
Span(a, b, s) == [kind |-> "range", from |-> a, to |-> b, step |-> s]
Value(a, s) == [kind |-> "value", from |-> a, to |-> a, step |-> s]
Every(s) == [kind |-> "star", from |-> Number(0), to |-> Number(0), step |-> s]
Empty == [kind |-> "empty", from |-> Number(0), to |-> Number(0), step |-> 1]
Star == <<[Every(1) EXCEPT !.kind = "all"]>>

\* What a field may hold: its least and greatest value, how many names it knows.
Field(min, max, names) == [min |-> min, max |-> max, names |-> names]

\* `parse_value`: names count from the least value.
Spelt(token, f) == IF token.spelt = "number" THEN token.n ELSE token.n + f.min
ParseValue(token, f) ==
    {v \in {Spelt(token, f)} :
        /\ token.spelt = "name" => token.n < f.names
        /\ v \in f.min..f.max}

\* Where a part starts and ends.  A value with a step goes "from here to the top".
Ends(part, f) ==
    CASE part.kind \in {"all", "star"} -> {<<f.min, f.max>>}
      [] part.kind = "range" -> ParseValue(part.from, f) \X ParseValue(part.to, f)
      [] part.kind = "value" /\ part.step > 1 -> ParseValue(part.from, f) \X {f.max}
      [] part.kind = "value" /\ part.step <= 1 -> {<<v, v>> : v \in ParseValue(part.from, f)}
      [] part.kind = "empty" -> {}

Refused(part, f) == part.step = 0 \/ Ends(part, f) = {} \/ \E e \in Ends(part, f) : e[1] > e[2]
Steps(part, f) ==
    UNION {{v \in e[1]..e[2] : (v - e[1]) % part.step = 0} : e \in Ends(part, f)}

\* `parse_field`: one bad part refuses the field.
ParseField(field, f) ==
    IF \E i \in DOMAIN field : Refused(field[i], f)
    THEN {}
    ELSE UNION {Steps(field[i], f) : i \in DOMAIN field}

ParseDayOfWeek(field) ==
    {v % WeekLength : v \in ParseField(field, Field(0, WeekLength, WeekLength))}

\* `CronExpression::parse`.  A day field other than "*" is restricted, even when
\* it lists every value.
Parsed(text) ==
    [minutes |-> ParseField(text[1], Field(0, HourLength - 1, 0)),
     hours |-> ParseField(text[2], Field(0, DayLength \div HourLength - 1, 0)),
     daysOfMonth |-> ParseField(text[3], Field(1, MonthLength, 0)),
     months |-> ParseField(text[4], Field(1, YearLength, YearLength)),
     daysOfWeek |-> ParseDayOfWeek(text[5]),
     domRestricted |-> text[3] # Star,
     dowRestricted |-> text[5] # Star]

Parse(text) ==
    {e \in IF Len(text) = 5 THEN {Parsed(text)} ELSE {} :
        {} \notin {e.minutes, e.hours, e.daysOfMonth, e.months, e.daysOfWeek}}
=============================================================================
