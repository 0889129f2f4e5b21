-------------------------- MODULE MCCronExpression --------------------------
(***************************************************************************)
(* Days of three hours of two minutes, two months of four days, weeks of    *)
(* three; the zone "local" springs forward an hour on day 2 and falls back  *)
(* on day 4.                                                                *)
(***************************************************************************)
EXTENDS CronExpression

MCMonth == [d \in 0..13 |-> ((d \div 4) % 2) + 1]
MCDayOfMonth == [d \in 0..13 |-> (d % 4) + 1]
MCDayOfWeek == [d \in 0..13 |-> d % 3]
MCOffset ==
    [z \in {"utc", "local"} |->
        [t \in 0..Horizon |-> IF z = "local" /\ t \in 12..25 THEN 2 ELSE 0]]

N(n) == <<Value(Number(n), 1)>>
MCMinutes == {Star, N(1)}
MCHours == {N(0), <<Value(Number(1), 2)>>, <<Span(Number(1), Number(2), 1)>>, Star}
MCDaysOfMonth == {Star, <<Every(2)>>, <<Span(Number(2), Number(4), 2), Value(Number(1), 1)>>}
MCMonths == {Star, <<Value(Name(0), 1)>>}
MCDaysOfWeek == {Star, N(3), <<Span(Name(1), Name(2), 1)>>}

\* Refused: a step of zero, a range that runs backwards, an empty entry, a value
\* out of range, an unknown name, a field too few, a date that never comes.
MCRefused ==
    {<<m, Star, Star, Star, Star>> : m \in
        {<<Every(0)>>, <<Span(Number(1), Number(0), 1)>>, <<Value(Number(1), 1), Empty>>,
         N(2), <<Value(Name(0), 1)>>}}
    \cup {<<Star, Star, N(5), Star, Star>>, <<Star, Star, Star, Star, N(4)>>,
          <<Star, Star, Star, Star>>, Blank}

MCTexts == MCMinutes \X MCHours \X MCDaysOfMonth \X MCMonths \X MCDaysOfWeek

Ask(by, cron, zone, every) ==
    [by |-> by, cron |-> cron, timezone |-> zone, every |-> every, whole |-> TRUE]
MCRequests ==
    {Ask("tool", {c}, {"local"}, {}) : c \in MCTexts}
    \cup {Ask(by, {c}, {}, every) :
              by \in {"tool", "page"}, every \in {{}, {4}}, 
              c \in MCRefused \cup {<<N(1), N(1), Star, Star, Star>>,
                               <<N(1), Star, <<Every(1)>>, Star, N(1)>>}}
    \cup {Ask(by, {<<N(0), N(1), Star, Star, Star>>}, {z}, {}) :
              by \in {"tool", "page"}, z \in {"utc", "local", "nowhere", ""}}
    \cup {Ask(by, {}, {"local"}, {n}) : by \in {"tool", "page"}, n \in {-1, 1, 4, 5}}
    \cup {[Ask("page", {}, {}, {4}) EXCEPT !.whole = FALSE], Ask("tool", {}, {}, {})}
=============================================================================
