------------------------------ MODULE PolicyTexts ------------------------------
(***************************************************************************)
(* PolicyStages over the texts of commands: what the stages decide for a    *)
(* command and for the same command written in another way.                 *)
(***************************************************************************)
EXTENDS PolicyStages, ShellCommand

CONSTANTS
    Bases,     \* commands, as sequences of bare words
    Nested,    \* those that are handed to interpreters, too
    Shell      \* the words that hand a text to an interpreter

Written(words) == FlattenSeq([i \in DOMAIN words |-> (IF i = 1 THEN <<>> ELSE <<" ">>) \o words[i]])
Between(q, text) == <<q>> \o text \o <<q>>

\* The ways to write one word.
WordSpellings(word) ==
    {word, Between("'", word), Between("\"", word), <<word[1], "\\">> \o Tail(word),
     <<word[1]>> \o Between("'", Tail(word)), Between("\"", <<word[1]>>) \o Tail(word)}

\* One word of a command written in another way, or all of them in quotes.
Spellings(words) ==
    {Written([words EXCEPT ![i] = w]) : <<i, w>> \in
        UNION {{i} \X WordSpellings(words[i]) : i \in DOMAIN words}}
    \cup {Written([i \in DOMAIN words |-> Between("'", words[i])])}

\* A text in double quotes, as a shell reads it.
InDouble(text) ==
    Between("\"", FlattenSeq([i \in DOMAIN text |->
        IF text[i] \in {"\"", "\\"} THEN <<"\\", text[i]>> ELSE <<text[i]>>]))

\* The ways to hand a text to a shell: quoted in one way or the other, alone or
\* after another command; and that line handed to a shell again.
Quoted(text) == {InDouble(text)} \cup (IF "'" \in Range(text) THEN {} ELSE {Between("'", text)})
Handed(text) ==
    UNION {{Written(Shell) \o <<" ">> \o q, <<"l", "s", ";">> \o Written(Shell) \o <<" ">> \o q} :
               q \in Quoted(text)}
HandedOver(words) ==
    LET once == UNION {Handed(text) : text \in Spellings(words)}
    IN  once \cup {Written(Shell) \o <<" ">> \o InDouble(text) : text \in once}

\* "rm -rf / cannot be smuggled past a rule by quoting, escaping, or nesting"
\* (policy/command.rs): with whatever rules of an operator, a command gets the
\* verdict and the key that it gets in plain words, and one that is denied is
\* denied when it is handed to a shell, MAX_NEST_DEPTH times over.
VerdictOfTheWords ==
    \A s \in Scopes, words \in Bases :
        LET plain == Evaluate(policy[s], Written(words))
        IN  /\ \A text \in Spellings(words) : Evaluate(policy[s], text) = plain
            /\ plain.decision = "deny" /\ words \in Nested =>
                   \A text \in HandedOver(words) : Evaluate(policy[s], text).decision = "deny"
=============================================================================
