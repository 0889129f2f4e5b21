------------------------------- MODULE Memory -------------------------------
(***************************************************************************)
(* The memory notebooks: the store of store/memory.rs, what a turn recalls  *)
(* (orchestrator.rs), the agent's `memory` tool and the web editor.         *)
(*                                                                          *)
(* A revision token is the hash of the content, so the model takes the      *)
(* content itself for the token.  Only the write is a transaction:          *)
(* `capture`, `replace_if_revision` and `restore` read the head on one      *)
(* connection and write on another, recall and query read one scope after   *)
(* another, and other requests run in between.  The agent is the only       *)
(* caller of `capture`, always with trusted provenance; `replace` has no    *)
(* caller outside its tests.                                                *)
(***************************************************************************)
EXTENDS Notebook

CONSTANTS
    Scopes,
    Org,            \* the organisation's scope
    Personal,       \* the scopes of one person
    Agents,         \* turns that call the `memory` tool
    Editors,        \* browsers on the page of a notebook
    Settings,       \* the memory settings a deployment may have
    Captures,       \* Captures[s]: the lists of facts an agent may capture in s
    Drafts,         \* Drafts[s]: the documents an editor may submit
    Queries,        \* the sets of terms an agent may look for
    QueryLimit,     \* hits of one scope
    MaxRevisions    \* bound: writes, over all the scopes

\* The setting of [memory] and, for a scope, the row of scope_configs; "" is none.
Setting == [memory : [recall : STRING, capture : STRING],
            rows : [Scopes -> [recall : STRING, capture : STRING]]]

ASSUME MemoryAssumption ==
    /\ Org \in Scopes /\ Personal \subseteq Scopes \ {Org}
    /\ Agents \intersect Editors = {}
    /\ \A setting \in Settings : DOMAIN setting.rows = Scopes
    /\ \A s \in Scopes : Captures[s] \subseteq Seq(Fact) /\ Drafts[s] \subseteq Document
    /\ QueryLimit \in Nat
    /\ MaxRevisions \in Nat

VARIABLES
    setting,     \* the configuration
    docs,        \* docs[s]: the content of memory_docs, or a fresh document
    revisions,   \* revisions[s]: the rows of memory_revisions, oldest first
    writers      \* writers[w]: where an agent's turn or an editor's page is
vars == <<setting, docs, revisions, writers>>

Writers == Agents \union Editors

-----------------------------------------------------------------------------
(* Resolution *)

\* A scope's row counts before the configuration, whatever it says.
Configured(s, key) ==
    IF setting.rows[s][key] # "" THEN setting.rows[s][key] ELSE setting.memory[key]

\* `MemoryRecall::parse`, `MemoryCapture::parse`: what cannot be read is the default.
ParseRecall(value) == IF value \in {"off", "writable"} THEN value ELSE "visible"
ParseCapture(value) == IF value = "off" THEN value ELSE "writable"
RecallOf(s) == ParseRecall(Configured(s, "recall"))
CaptureOf(s) == ParseCapture(Configured(s, "capture"))

\* Mutant of RecallScopes: every layer is recalled, whatever the setting says.
RecallScopesAll(s) == IF s = Org THEN <<s>> ELSE <<s, Org>>

\* The notebooks a turn recalls, the nearest first.
RecallScopes(s) ==
    IF RecallOf(s) = "off" THEN <<>>
    ELSE IF RecallOf(s) = "writable" \/ s = Org THEN <<s>> ELSE <<s, Org>>

-----------------------------------------------------------------------------
(* The writers *)

\* `heard` is history: the lines of notebooks the model of a turn was given.
Idle == [pc |-> "idle", scope |-> "", base |-> <<>>, content |-> <<>>, operation |-> "",
         unread |-> <<>>, terms |-> {}, heard |-> {}, onboards |-> FALSE]
At(w, pc) == writers[w].pc = pc
End(w) == writers' = [writers EXCEPT ![w] = Idle]
Contents(s) == {row.content : row \in ToSet(revisions[s])}

\* Revisions written or about to be.
Spent ==
    LET total[S \in SUBSET Scopes] == IF S = {} THEN 0
            ELSE LET s == CHOOSE s \in S : TRUE IN Len(revisions[s]) + total[S \ {s}]
    IN  total[Scopes] + Cardinality({w \in Writers : At(w, "write")})

Room == Spent < MaxRevisions

Init ==
    /\ setting \in Settings
    /\ docs = [s \in Scopes |-> EmptyDocument]
    /\ revisions = [s \in Scopes |-> <<>>]
    /\ writers = [w \in Writers |-> Idle]

-----------------------------------------------------------------------------
(* A turn *)

StartTurn(w, s) ==
    /\ At(w, "idle")
    /\ writers' = [writers EXCEPT ![w] =
          [Idle EXCEPT !.pc = "prompt", !.scope = s, !.unread = RecallScopes(s)]]
    /\ UNCHANGED <<setting, docs, revisions>>

Hear(w, lines) == [writers[w] EXCEPT !.heard = @ \union lines]

\* `memory_block`: what the prompt shows of a notebook; without a bullet, nothing.
RecallScope(w) ==
    LET body == RecallBody(docs[Head(writers[w].unread)]) IN
    /\ At(w, "prompt")
    /\ writers[w].unread # <<>>
    /\ writers' = [writers EXCEPT ![w] =
          [Hear(w, IF Bullets(body) = <<>> THEN {} ELSE ToSet(body)) EXCEPT !.unread = Tail(@)]]
    /\ UNCHANGED <<setting, docs, revisions>>

\* `onboarding_block`: a person whose notebook has no mark of an end is shown around.
Onboard(w) ==
    LET s == writers[w].scope IN
    /\ At(w, "prompt")
    /\ writers[w].unread = <<>>
    /\ writers' = [writers EXCEPT ![w].pc = "run",
          ![w].onboards = s \in Personal /\ IsOutstanding(DetectStatus(docs[s]))]
    /\ UNCHANGED <<setting, docs, revisions>>

\* `capture`, up to the write: nothing is written when nothing is new.
Capture(w, facts) ==
    LET s == writers[w].scope
        body == FoldCapture(docs[s], facts)
    IN
    /\ CaptureOf(s) # "off"
    /\ Room
    /\ body # docs[s]
    /\ writers' = [writers EXCEPT ![w] =
          [@ EXCEPT !.pc = "write", !.base = docs[s], !.content = body, !.operation = "capture"]]

\* The `memory` tool.  To read, the turn needs no recall setting.
MemoryTool(w) ==
    /\ At(w, "run")
    /\ \/ \E facts \in Captures[writers[w].scope] : Capture(w, facts)
       \/ \E terms \in Queries :
             writers' = [writers EXCEPT ![w].pc = "query", ![w].terms = terms,
                                        ![w].unread = RecallScopes(writers[w].scope)]
       \/ writers' = [writers EXCEPT ![w] = Hear(w, ToSet(RecallBody(docs[writers[w].scope])))]
    /\ UNCHANGED <<setting, docs, revisions>>

\* `query`, one notebook after the other.
QueryScope(w) ==
    LET writer == writers[w] IN
    /\ At(w, "query")
    /\ writers' = [writers EXCEPT ![w] =
          IF writer.unread = <<>> THEN [writer EXCEPT !.pc = "run", !.terms = {}]
          ELSE [Hear(w, ToSet(QueryBullets(docs[Head(writer.unread)], writer.terms, QueryLimit)))
                   EXCEPT !.unread = Tail(@)]]
    /\ UNCHANGED <<setting, docs, revisions>>

\* The turn ends: with an answer, paused or failed.
EndTurn(w) ==
    /\ At(w, "run")
    /\ End(w)
    /\ UNCHANGED <<setting, docs, revisions>>

-----------------------------------------------------------------------------
(* The page *)

\* `memory_edit`: the page holds the content and its revision token.
OpenPage(w, s) ==
    /\ At(w, "idle")
    /\ writers' = [writers EXCEPT ![w] =
          [Idle EXCEPT !.pc = "page", !.scope = s, !.base = docs[s]]]
    /\ UNCHANGED <<setting, docs, revisions>>

\* The editor leaves the page.
ClosePage(w) ==
    /\ At(w, "page")
    /\ End(w)
    /\ UNCHANGED <<setting, docs, revisions>>

Goto(w, pc, content, operation) ==
    writers' = [writers EXCEPT ![w].pc = pc, ![w].content = content, ![w].operation = operation]

\* `replace_if_revision`, up to the write; a stale page is refused.
Save(w, draft) ==
    LET writer == writers[w] IN
       \/ /\ docs[writer.scope] = writer.base
          /\ Room
          /\ Goto(w, "write", draft, "replace")
       \/ /\ docs[writer.scope] # writer.base
          /\ End(w)

\* Mutant of Restorable: the query forgets the scope.
RestorableAnywhere(s) == UNION {Contents(r) : r \in Scopes}

\* The revisions the query of `restore` finds: those of the scope.
Restorable(s) == Contents(s)

\* `restore`, up to the write.  The form may name a revision of any notebook.
Restore(w, revision) ==
    LET writer == writers[w] IN
       \/ /\ docs[writer.scope] = writer.base
          /\ revision \in Restorable(writer.scope)
          /\ Room
          /\ Goto(w, "write", revision, "restore")
       \/ /\ docs[writer.scope] # writer.base \/ revision \notin Restorable(writer.scope)
          /\ End(w)

\* `memory_save`: the form restores when it names a revision.
Submit(w) ==
    /\ At(w, "page")
    /\ \/ \E draft \in Drafts[writers[w].scope] : Save(w, draft)
       \/ \E s \in Scopes : \E revision \in Contents(s) : Restore(w, revision)
    /\ UNCHANGED <<setting, docs, revisions>>

Row(content, operation) == [content |-> content, operation |-> operation]

\* A turn goes on; a page is left for the answer.
Written(w) ==
    writers' = [writers EXCEPT ![w] =
        IF w \in Agents THEN [@ EXCEPT !.pc = "run", !.base = <<>>, !.content = <<>>, !.operation = ""]
        ELSE Idle]

\* Mutant of WriteRevision: the tool's writes keep no revision.
WriteRevisionOfEditors(w) ==
    LET writer == writers[w] IN
    /\ At(w, "write")
    /\ docs' = [docs EXCEPT ![writer.scope] = writer.content]
    /\ revisions' = IF w \in Agents THEN revisions
                    ELSE [revisions EXCEPT ![writer.scope] =
                              Append(@, Row(writer.content, writer.operation))]
    /\ Written(w)
    /\ UNCHANGED setting

\* `write`: the document and its revision, in one transaction.
WriteRevision(w) ==
    LET writer == writers[w] IN
    /\ At(w, "write")
    /\ docs' = [docs EXCEPT ![writer.scope] = writer.content]
    /\ revisions' = [revisions EXCEPT ![writer.scope] =
                         Append(@, Row(writer.content, writer.operation))]
    /\ Written(w)
    /\ UNCHANGED setting

Next ==
    \/ \E w \in Agents :
          \/ \E s \in Scopes : StartTurn(w, s)
          \/ RecallScope(w) \/ Onboard(w) \/ MemoryTool(w) \/ QueryScope(w) \/ EndTurn(w)
    \/ \E w \in Editors :
          \/ \E s \in Scopes : OpenPage(w, s)
          \/ ClosePage(w) \/ Submit(w)
    \/ \E w \in Writers : WriteRevision(w)

Spec == Init /\ [][Next]_vars

-----------------------------------------------------------------------------
(* Properties *)

\* Documents are lines, revisions name the operation that made them, and a
\* writer waits on a prompt, a query, a page or the write of a whole document.
TypeOK ==
    /\ setting \in Settings
    /\ docs \in [Scopes -> Document]
    /\ \A s \in Scopes :
          revisions[s] \in Seq([content : Document, operation : {"capture", "replace", "restore"}])
    /\ \A w \in Writers :
          /\ writers[w].pc \in {"idle", "prompt", "run", "query", "page", "write"}
          /\ writers[w].pc # "idle" => writers[w].scope \in Scopes
          /\ {writers[w].base, writers[w].content} \subseteq Document
          /\ writers[w].unread \in Seq(Scopes)
          /\ writers[w].heard \subseteq Line

\* Whatever a turn folded or an editor was shown stays within reach of
\* `restore`, also when a write that raced it has hidden it: "Every write is a
\* revision" (README.md:290).
SeenIsRecoverable ==
    \A w \in Writers : writers[w].pc \in {"page", "write"} =>
        \/ writers[w].base = EmptyDocument
        \/ writers[w].base \in Contents(writers[w].scope)

\* A restore brings back what this notebook once said, and never the text of
\* another scope's notebook.
RestoresItsOwnPast ==
    \A s \in Scopes : \A i \in DOMAIN revisions[s] :
        revisions[s][i].operation = "restore" =>
            \E j \in 1..i-1 : revisions[s][j].content = revisions[s][i].content

\* What a capture makes of the notebook it read, however large an editor made
\* that: the prose is untouched; the facts are at most MAX_FACTS, forgotten only
\* from the front and only when the notebook is full; a fact that is captured
\* twice, in one call or two, is one line; and unless the notebook is full, a
\* person who was shown around is not shown around again.  A fact that starts
\* with a date of its own is stored behind a second, of which `normalize` strips
\* one: it is left out of the third.
Times(line, body) == Cardinality({i \in DOMAIN body : body[i] = line})
Folds(base, body) ==
    /\ Prose(body) = Prose(base)
    /\ Len(Bullets(body)) <= MaxFacts
    /\ \E n \in 0..Len(Bullets(base)) :
          /\ n > 0 => Len(Bullets(body)) = MaxFacts
          /\ IsPrefix(SubSeq(Bullets(base), n + 1, Len(Bullets(base))), Bullets(body))
    /\ \A line \in ToSet(Bullets(body)) :
          line.stamps = 1 => Times(line, body) <= Max({1, Times(line, base)})
    /\ ~IsOutstanding(DetectStatus(base)) /\ Len(Bullets(body)) < MaxFacts =>
          ~IsOutstanding(DetectStatus(body))
CapturesFold ==
    \A w \in Agents : writers[w].pc = "write" => Folds(writers[w].base, writers[w].content)

\* Whatever a turn is told by its prompt, a query or a read was captured by a
\* turn of its own scope or written on the page of its notebook, or those of the
\* organisation's when the scope recalls what is visible: not in any other scope,
\* by whatever captures, edits and restores it came to stand where it was read.
\* And only a person is shown around.
LinesOf(s) ==
    {Header} \union (UNION {ToSet(draft) : draft \in Drafts[s]})
             \union {Stamped(fact) : fact \in UNION {ToSet(facts) : facts \in Captures[s]}}
HeardFrom(s) == LinesOf(s) \union (IF RecallOf(s) = "visible" THEN LinesOf(Org) ELSE {})
HearsItsOwnScopes ==
    \A w \in Agents :
        /\ writers[w].heard \subseteq (IF At(w, "idle") THEN {} ELSE HeardFrom(writers[w].scope))
        /\ writers[w].onboards => writers[w].scope \in Personal
=============================================================================
