------------------------------ MODULE Notebook ------------------------------
(***************************************************************************)
(* The notebook grammar of memory.rs and the marks of onboarding.rs.        *)
(*                                                                          *)
(* A notebook is a sequence of lines.  A line is a bullet or prose, with    *)
(* the number of `(YYYY-MM-DD)` it starts with and the rest; a fact is a    *)
(* line before it gets its marker and its stamp.  The rest is a value of    *)
(* which only the words a query looks for and the mark it makes matter.     *)
(***************************************************************************)
EXTENDS Integers, SequencesExt

CONSTANTS
    Texts,          \* what a line says, without its stamps
    Words,          \* Words[t]: the terms a query finds in a text
    Mark,           \* Mark[t]: "completed", "dismissed", "pending", or "" (no mark)
    MaxFacts,       \* MAX_FACTS
    MaxRecall       \* RECALL_MAX_CHARS, in lines

Line == [bullet : BOOLEAN, stamps : Nat, text : Texts]
Fact == {line \in Line : line.bullet}
Document == Seq(Line)

ASSUME NotebookAssumption ==
    /\ "header" \in Texts
    /\ MaxFacts \in Nat \ {0}
    /\ MaxRecall \in Nat \ {0}
    /\ Mark \in [Texts -> {"completed", "dismissed", "pending", ""}]

Header == [bullet |-> FALSE, stamps |-> 0, text |-> "header"]
EmptyDocument == <<Header>>

\* The lines that are in S, in their order.
Only(lines, S) ==
    LET Keep(kept, line) == IF line \in S THEN Append(kept, line) ELSE kept
    IN  FoldLeft(Keep, <<>>, lines)

IsBullet(line) == line.bullet
Bullets(body) == Only(body, Fact)
Prose(body) == Only(body, Line \ Fact)

\* `normalize`: the dedupe key, without the marker and one leading stamp.
Key(line) == [line EXCEPT !.stamps = IF @ = 0 THEN 0 ELSE @ - 1]

Stamped(fact) == [fact EXCEPT !.stamps = @ + 1]

\* Mutant of Trim: the excess is counted over all the lines.
TrimAnyLine(lines) ==
    LET start == [drop |-> Len(lines) - MaxFacts, kept |-> <<>>]
        Take(acc, line) == IF acc.drop > 0
                           THEN [acc EXCEPT !.drop = @ - 1]
                           ELSE [acc EXCEPT !.kept = Append(@, line)]
    IN  FoldLeft(Take, start, lines).kept

\* `trim_to_max_facts`: the oldest bullets over the limit are dropped.
Trim(lines) ==
    LET start == [drop |-> Len(Bullets(lines)) - MaxFacts, kept |-> <<>>]
        Take(acc, line) == IF acc.drop > 0 /\ IsBullet(line)
                           THEN [acc EXCEPT !.drop = @ - 1]
                           ELSE [acc EXCEPT !.kept = Append(@, line)]
    IN  FoldLeft(Take, start, lines).kept

\* `fold_capture`, trusted: the facts whose key is new are appended in order.
FoldCapture(existing, facts) ==
    LET start == [seen |-> {Key(line) : line \in ToSet(Bullets(existing))}, lines |-> existing]
        Add(acc, fact) == IF Key(fact) \in acc.seen THEN acc
                          ELSE [seen |-> acc.seen \union {Key(fact)},
                                lines |-> Append(acc.lines, Stamped(fact))]
        folded == FoldLeft(Add, start, facts).lines
    IN  IF folded = existing THEN existing ELSE Trim(folded)

-----------------------------------------------------------------------------
(* Reading *)

\* `recall_body`: the tail, as recent facts beat old ones.
RecallBody(body) == SubSeq(body, Max({1, Len(body) - MaxRecall + 1}), Len(body))

\* `query_bullets`: the bullets with every term, the newest first.
QueryBullets(body, terms, limit) ==
    LET hits == {line \in ToSet(body) : terms \subseteq Words[line.text]}
        newest == Reverse(Only(Bullets(body), hits))
    IN  IF terms = {} THEN <<>> ELSE SubSeq(newest, 1, Min({limit, Len(newest)}))

\* `marker_state`: a mark behind a second date is not one.
MarkerState(line) == IF line.stamps <= 1 THEN Mark[line.text] ELSE ""

\* `detect_status`: a mark that onboarding ended is final.
DetectStatus(body) ==
    LET ended == {i \in DOMAIN body : MarkerState(body[i]) \in {"completed", "dismissed"}}
    IN  IF ended # {} THEN MarkerState(body[Min(ended)])
        ELSE IF "pending" \in {MarkerState(line) : line \in ToSet(body)} THEN "pending"
        ELSE "not_started"

IsOutstanding(status) == status \in {"pending", "not_started"}
=============================================================================
