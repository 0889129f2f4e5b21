------------------------------ MODULE MCMemory ------------------------------
(***************************************************************************)
(* Small instances of Memory: the organisation's notebook and ann's own.    *)
(***************************************************************************)
EXTENDS Memory

Bullet(stamps, text) == [bullet |-> TRUE, stamps |-> stamps, text |-> text]

MCTexts == {"header", "tea", "oslo", "cats", "done", "later"}
MCWords == [t \in MCTexts |-> IF t \in {"tea", "oslo"} THEN {t, "green"} ELSE {t}]
MCMark == [t \in MCTexts |->
              CASE t = "done" -> "completed" [] t = "later" -> "pending" [] OTHER -> ""]

\* One fact, two facts, a repeated one, one with a date of its own, the marks.
MCCaptures == [s \in Scopes |->
    IF s = Org THEN {<<Bullet(0, "oslo")>>}
    ELSE {<<Bullet(0, "tea"), Bullet(0, "tea")>>,
          <<Bullet(1, "cats")>>,
          <<Bullet(0, "done")>>,
          <<Bullet(0, "later")>>}]

\* Facts over the limit with the prose between them.
MCDrafts == [s \in Scopes |->
    IF s = Org THEN {<<>>}
    ELSE {<<Bullet(0, "tea"), Bullet(1, "done"), Header, Bullet(1, "cats"), Bullet(1, "tea")>>}]
MCQueries == {{"green"}}

\* A row that cannot be read counts as the default, whatever the file says; a row
\* that says "off" counts before a file that says nothing.
Conf == INSTANCE Configuration
MemoryOf(sections) == Conf!Loaded(Conf!Toml(sections), <<>>).memory
Rows(recall, capture) == [s \in Scopes |->
    IF s = Org THEN [recall |-> "", capture |-> ""] ELSE [recall |-> recall, capture |-> capture]]
MCSettings ==
    {[memory |-> MemoryOf([memory |-> [recall |-> "off"]]), rows |-> Rows("typo", "")],
     [memory |-> MemoryOf([memory |-> [recall |-> "writable"]]), rows |-> Rows("", "typo")],
     [memory |-> MemoryOf(<<>>), rows |-> Rows("off", "off")]}
=============================================================================
