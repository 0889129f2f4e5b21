----------------------------- MODULE ShellCommand -----------------------------
(***************************************************************************)
(* From the text of a shell command to the text that rules match against:   *)
(* `scannable_command` of policy/command.rs, which takes words out of their *)
(* quotes and looks into what is handed to an interpreter; what an          *)
(* operator's row of rules is read as; and the rules every deployment has.  *)
(*                                                                          *)
(* A text is a sequence of characters.  The two scans over characters are   *)
(* folds whose accumulator is the loop's state.                             *)
(***************************************************************************)
EXTENDS CommandPolicy, SequencesExt, FiniteSetsExt

CONSTANTS
    Interpreters,    \* CODE_ARG_BINARIES, as texts
    LongFlags,       \* "--command" and the like, as texts
    MaxNestDepth     \* MAX_NEST_DEPTH

Letters == {"r", "m", "k", "f", "s", "l", "h", "c", "t", "x"}
Bare(c) == c \in Letters \cup {"_", "@", "%", "+", "=", ":", ",", ".", "/", "-"}
Blanks == {" ", "\t", "\n", "\r"}
Quotes == {"'", "\""}
Tick == "backtick"

\* The first place of c in text from i on; one past the end when there is none.
Find(text, c, i) ==
    LET at == {j \in i..Len(text) : text[j] = c}
    IN  IF at = {} THEN Len(text) + 1 ELSE Min(at)

-----------------------------------------------------------------------------
(* Quotes and escapes *)

\* $(...) and backtick substitutions of a text, in order; none is nested.
Substitutions(text) ==
    LET n == Len(text)
        from[i \in 1..n + 1] ==
            IF i > n THEN <<>>
            ELSE LET opens == text[i] = "$" /\ i < n /\ text[i + 1] = "("
                     paren == Find(text, ")", i + 2)
                     tick  == Find(text, Tick, i + 1)
                 IN  IF opens /\ paren <= n
                     THEN <<SubSeq(text, i + 2, paren - 1)>> \o from[paren + 1]
                     ELSE IF text[i] = Tick /\ tick <= n
                     THEN <<SubSeq(text, i + 1, tick - 1)>> \o from[tick + 1]
                     ELSE from[i + 1]
    IN  from[1]

\* What a closed quote leaves: a bare word, else the substitutions in it.
Unquoted(inner) ==
    IF \A i \in DOMAIN inner : Bare(inner[i]) THEN inner
    ELSE FlattenSeq([i \in DOMAIN Substitutions(inner) |-> Append(Substitutions(inner)[i], " ")])

Keep(s, c) == IF s.quote = "" THEN [s EXCEPT !.out = Append(@, c)] ELSE [s EXCEPT !.inner = Append(@, c)]

\* One character of `unwrap_quoting`: `quote` is the quote the scan is in, and
\* `escape` says that a backslash came before.
UnwrapChar(s, c) ==
    IF s.escape THEN Keep([s EXCEPT !.escape = FALSE], c)
    ELSE IF c = "\\" /\ s.quote # "'" THEN [s EXCEPT !.escape = TRUE]
    ELSE IF s.quote = "" /\ c \in Quotes THEN [s EXCEPT !.quote = c, !.inner = <<>>]
    ELSE IF c = s.quote THEN [s EXCEPT !.quote = "", !.out = @ \o Unquoted(s.inner)]
    ELSE Keep(s, c)

\* `unwrap_quoting`; a quote that is never closed keeps its text.
UnwrapQuoting(text) ==
    LET end == FoldLeft(UnwrapChar, [out |-> <<>>, quote |-> "", escape |-> FALSE, inner |-> <<>>], text)
        dangling == IF end.escape THEN <<"\\">> ELSE <<>>
    IN  IF end.quote = "" THEN end.out ELSE end.out \o end.inner \o dangling

-----------------------------------------------------------------------------
(* Tokens *)

Token(text, quoted) == [text |-> text, quoted |-> quoted]
Separators == {<<"|">>, <<"|", "|">>, <<"&", "&">>, <<";">>, <<"&">>}
IsSeparator(token) == ~token.quoted /\ token.text \in Separators

Flush(s) ==
    IF s.current = <<>> /\ ~s.quoted THEN s
    ELSE [s EXCEPT !.tokens = Append(@, Token(s.current, s.quoted)), !.current = <<>>, !.quoted = FALSE]

Doubled(s, c) == [s EXCEPT !.tokens = Append(Front(@), Token(<<c, c>>, FALSE)), !.half = ""]
Operator(s, c) ==
    [Flush(s) EXCEPT !.tokens = Append(@, Token(<<c>>, FALSE)), !.half = IF c = ";" THEN "" ELSE c]

\* One character of `tokenize`.  `half` is the operator before, which the same
\* character doubles.
TokenizeChar(s, c) ==
    LET t == [s EXCEPT !.half = ""] IN
    IF s.escape THEN [t EXCEPT !.escape = FALSE, !.current = Append(@, c)]
    ELSE IF c = "\\" /\ s.quote # "'" THEN [t EXCEPT !.escape = TRUE]
    ELSE IF c = s.quote THEN [t EXCEPT !.quote = ""]
    ELSE IF s.quote # "" THEN [t EXCEPT !.current = Append(@, c)]
    ELSE IF c \in Quotes THEN [t EXCEPT !.quote = c, !.quoted = TRUE]
    ELSE IF c \in Blanks THEN Flush(t)
    ELSE IF c \in {"|", "&", ";"} THEN (IF s.half = c THEN Doubled(s, c) ELSE Operator(t, c))
    ELSE [t EXCEPT !.current = Append(@, c)]

Tokenize(text) ==
    LET start == [tokens |-> <<>>, current |-> <<>>, quoted |-> FALSE, quote |-> "",
                  escape |-> FALSE, half |-> ""]
        end   == FoldLeft(TokenizeChar, start, text)
    IN  Flush(IF end.escape /\ end.quote # "" THEN [end EXCEPT !.current = Append(@, "\\")] ELSE end).tokens

-----------------------------------------------------------------------------
(* Payloads *)

\* The binary of a path.
Binary(text) == SubSeq(text, Max({0} \cup {i \in DOMAIN text : text[i] = "/"}) + 1, Len(text))

\* `-c`, `-lc`, `--command`: a program follows.
IsExecuteFlag(token) ==
    /\ ~token.quoted
    /\ \/ token.text \in LongFlags
       \/ /\ Len(token.text) > 1 /\ token.text[1] = "-" /\ token.text[2] # "-"
          /\ \E i \in 2..Len(token.text) : token.text[i] \in {"c", "e"}

\* What the interpreter before place j is handed, up to the separator at `end`.
\* The token after a flag is taken whatever it is.
Arguments(tokens) ==
    LET n == Len(tokens)
        from[j \in 1..n + 2] ==
            IF j > n THEN [found |-> <<>>, end |-> j]
            ELSE IF IsSeparator(tokens[j]) THEN [found |-> <<>>, end |-> j]
            ELSE IF IsExecuteFlag(tokens[j])
            THEN [from[j + 2] EXCEPT !.found = (IF j < n THEN <<tokens[j + 1].text>> ELSE <<>>) \o @]
            ELSE [from[j + 1] EXCEPT !.found = (IF tokens[j].quoted THEN <<tokens[j].text>> ELSE <<>>) \o @]
    IN  from

\* Mutant of ExecutedPayloads: only the first command of the line is looked at.
ExecutedPayloadsFirst(text) ==
    LET tokens == Tokenize(text)
    IN  IF tokens # <<>> /\ Binary(tokens[1].text) \in Interpreters
        THEN Arguments(tokens)[2].found ELSE <<>>

\* `executed_payloads`: the words of a simple command after one that is not an
\* interpreter are passed over.
ExecutedPayloads(text) ==
    LET tokens == Tokenize(text)
        n == Len(tokens)
        next(i) == Min({j \in i..n : IsSeparator(tokens[j])} \cup {n + 1})
        from[i \in 1..n + 2] ==
            IF i > n THEN <<>>
            ELSE IF IsSeparator(tokens[i]) THEN from[i + 1]
            ELSE IF Binary(tokens[i].text) \notin Interpreters THEN from[next(i + 1)]
            ELSE LET handed == Arguments(tokens)[i + 1]
                 IN  handed.found \o from[handed.end]
    IN  from[1]

\* `scannable_at_depth`
RECURSIVE ScannableAt(_, _)
ScannableAt(text, depth) ==
    LET nested == IF depth >= MaxNestDepth THEN <<>> ELSE ExecutedPayloads(text)
        line(payload) == <<"\n">> \o ScannableAt(payload, depth + 1)
    IN  UnwrapQuoting(text) \o FlattenSeq([i \in DOMAIN nested |-> line(nested[i])])
Scannable(text) == ScannableAt(text, 0)

-----------------------------------------------------------------------------
(* Rules *)

WordChar(c) == c \in Letters \cup {"_"}
Boundary(text, i) ==      \* \b before place i
    (i > 1 /\ WordChar(text[i - 1])) # (i <= Len(text) /\ WordChar(text[i]))
WordAt(text, word, i) ==
    /\ i + Len(word) <= Len(text) + 1
    /\ SubSeq(text, i, i + Len(word) - 1) = word
    /\ Boundary(text, i) /\ Boundary(text, i + Len(word))

\* \bmkfs\b
Mentions(text, word) == \E i \in DOMAIN text : WordAt(text, word, i)

\* \brm\b[^\n]*-[a-zA-Z]*r
RemovesRecursively(text) ==
    \E i \in DOMAIN text : /\ WordAt(text, <<"r", "m">>, i)
        /\ \E d \in i + 2..Len(text), r \in i + 3..Len(text) :
              /\ text[d] = "-" /\ text[r] = "r" /\ d < r
              /\ \A j \in i + 2..d : text[j] # "\n"
              /\ \A j \in d + 1..r : text[j] \in Letters

\* `is_match`, on the scannable form of a command.
Matching(Match(_)) == {command \in Commands : Match(Scannable(command))}

\* Two of the five rules of `default_org_policy`; the others are of their kind.
DefaultOrgPolicy ==
    [mode |-> "denylist",
     rules |-> <<[pattern |-> Matching(RemovesRecursively), decision |-> "require_approval"],
                 [pattern |-> Matching(LAMBDA text : Mentions(text, <<"m", "k", "f", "s">>)),
                  decision |-> "deny"]>>]

\* `parse_command_policy`: a mode that is none, or one rule that cannot be read,
\* and the whole row is as if it were not there.
Unreadable == [pattern |-> {}, decision |-> "unreadable"]
ParseCommandPolicy(row) ==
    IF row.mode \in Modes /\ \A i \in DOMAIN row.rules : row.rules[i].decision \in Decisions
    THEN row ELSE NoRules
=============================================================================
