---------------------------- MODULE MemoryProofs ----------------------------
(***************************************************************************)
(* What Memory promises, proved for every set of scopes, turns and pages,    *)
(* every setting and every text: nothing that a turn folded or an editor was *)
(* shown is lost, a restore brings back nothing but the past of its own      *)
(* notebook, a turn hears no other scope's, and what an agent is about to    *)
(* write is a fold of the notebook it read.                                  *)
(*                                                                         *)
(* The first two rest on what a head, and a writer that has read one, may    *)
(* hold: a document of the notebook's own revisions, which only grow.  The   *)
(* others rest on what stands in a notebook, the lines that were captured or *)
(* drafted for it, and on what Only, Trim and FoldCapture make of lines.     *)
(* All of them together say what the tables and the writers hold.            *)
(***************************************************************************)
EXTENDS Memory, SequenceTheorems, FiniteSetTheorems, WellFoundedInduction, TLAPS

-----------------------------------------------------------------------------
(* The inductive invariant *)

\* Somebody of notebook s has read the document, or nothing was ever written there.
Known(s, document) == document = EmptyDocument \/ document \in Contents(s)

\* A turn or a page: what it read is known to its notebook, and what it is about
\* to restore is one of the notebook's revisions.
WriterOK(writer) ==
    /\ DOMAIN writer = {"pc", "scope", "base", "content", "operation", "unread", "terms",
                        "heard", "onboards"}
    /\ writer.pc \in {"idle", "prompt", "run", "query", "page", "write"}
    /\ writer.pc # "idle" => writer.scope \in Scopes
    /\ writer.pc \in {"page", "write"} => Known(writer.scope, writer.base)
    /\ writer.pc = "write" /\ writer.operation = "restore" =>
          writer.content \in Contents(writer.scope)

\* The rows of a notebook, whatever they hold.
IsHistory(rows) == rows \in Seq({rows[i] : i \in DOMAIN rows})

\* A row of a restore stands behind one with the same content.
RestoresThePast(rows) ==
    \A i \in DOMAIN rows :
        rows[i].operation = "restore" => \E j \in 1..i-1 : rows[j].content = rows[i].content

TablesOK ==
    /\ DOMAIN docs = Scopes
    /\ DOMAIN revisions = Scopes
    /\ revisions = [s \in Scopes |-> revisions[s]]
    /\ DOMAIN writers = Writers
    /\ writers = [w \in Writers |-> writers[w]]
    /\ docs = [s \in Scopes |-> docs[s]]

MemInv ==
    /\ TablesOK
    /\ \A s \in Scopes : IsHistory(revisions[s]) /\ RestoresThePast(revisions[s])
    /\ \A s \in Scopes : Known(s, docs[s])
    /\ \A w \in Writers : WriterOK(writers[w])

-----------------------------------------------------------------------------
(* Lemmas *)

\* A revision more: the others stay where they are.
LEMMA AppendHistory ==
    ASSUME NEW rows, IsHistory(rows), NEW row
    PROVE  /\ IsHistory(Append(rows, row))
           /\ Len(rows) \in Nat
           /\ DOMAIN rows = 1..Len(rows)
           /\ DOMAIN Append(rows, row) = 1..Len(rows) + 1
           /\ \A i \in 1..Len(rows) : Append(rows, row)[i] = rows[i]
           /\ Append(rows, row)[Len(rows) + 1] = row
<1> DEFINE All == {rows[i] : i \in DOMAIN rows} \union {row}
<1>1. rows \in Seq(All)
    <2>1. rows \in Seq({rows[i] : i \in DOMAIN rows})
        BY DEF IsHistory
    <2> QED  BY <2>1
<1>2. /\ Append(rows, row) \in Seq(All)
      /\ Len(rows) \in Nat
      /\ DOMAIN rows = 1..Len(rows)
      /\ DOMAIN Append(rows, row) = 1..Len(rows) + 1
      /\ \A i \in 1..Len(rows) : Append(rows, row)[i] = rows[i]
      /\ Append(rows, row)[Len(rows) + 1] = row
    <2> HIDE DEF All
    <2>1. row \in All
        BY DEF All
    <2> QED  BY <1>1, <2>1
<1> DEFINE longer == Append(rows, row)
<1>3. longer \in Seq({longer[i] : i \in DOMAIN longer})
    <2>1. longer \in Seq(All)
        BY <1>2
    <2> HIDE DEF longer, All
    <2> QED  BY <2>1
<1> QED  BY <1>2, <1>3 DEF IsHistory

\* The contents of a notebook, by the rows.
LEMMA ContentsAre ==
    ASSUME NEW s, NEW content
    PROVE  content \in Contents(s) <=> \E i \in DOMAIN revisions[s] : revisions[s][i].content = content
BY DEF Contents, ToSet

\* A step that reads notebooks and moves one writer on.
LEMMA Moves ==
    ASSUME MemInv, NEW w \in Writers, NEW writer, WriterOK(writer),
           writers' = [writers EXCEPT ![w] = writer], UNCHANGED <<docs, revisions>>
    PROVE  MemInv'
<1>1. TablesOK'
    BY DEF MemInv, TablesOK
<1>2. \A s, document : Known(s, document)' <=> Known(s, document)
    BY DEF Known, Contents
<1>3. \A v \in Writers : writers'[v] = IF v = w THEN writer ELSE writers[v]
    BY DEF MemInv, TablesOK
<1>4. \A v \in Writers : WriterOK(writers[v])'
    <2> TAKE v \in Writers
    <2>1. WriterOK(writers'[v])
        BY <1>3 DEF MemInv
    <2> QED  BY <2>1, <1>2 DEF WriterOK, Contents
<1>5. (\A s \in Scopes : IsHistory(revisions[s]) /\ RestoresThePast(revisions[s]))'
    BY DEF MemInv
<1>6. (\A s \in Scopes : Known(s, docs[s]))'
    BY <1>2 DEF MemInv
<1> QED  BY <1>1, <1>4, <1>5, <1>6 DEF MemInv

-----------------------------------------------------------------------------
(* The steps *)

LEMMA InitInv == Init => MemInv
<1> SUFFICES ASSUME Init PROVE MemInv
    OBVIOUS
<1>1. TablesOK
    BY DEF Init, TablesOK
<1>2. \A s \in Scopes : IsHistory(revisions[s]) /\ RestoresThePast(revisions[s])
    <2> TAKE s \in Scopes
    <2>1. revisions[s] = <<>>
        BY DEF Init
    <2>2. IsHistory(<<>>) /\ RestoresThePast(<<>>)
        BY DEF IsHistory, RestoresThePast
    <2> QED  BY <2>1, <2>2
<1>3. \A s \in Scopes : Known(s, docs[s])
    BY DEF Init, Known
<1>4. \A w \in Writers : WriterOK(writers[w])
    BY DEF Init, WriterOK, Idle
<1> QED  BY <1>1, <1>2, <1>3, <1>4 DEF MemInv

\* A writer is idle again.
LEMMA Ends ==
    ASSUME MemInv, NEW w \in Writers, End(w), UNCHANGED <<docs, revisions>>
    PROVE  MemInv'
<1>1. WriterOK(Idle)
    BY DEF WriterOK, Idle
<1> QED  BY <1>1, Moves DEF End

\* Everything of a turn but the write.
LEMMA TurnStep ==
    ASSUME MemInv, NEW w \in Agents,
           \/ \E s \in Scopes : StartTurn(w, s)
           \/ RecallScope(w) \/ Onboard(w) \/ MemoryTool(w) \/ QueryScope(w) \/ EndTurn(w)
    PROVE  MemInv'
<1> w \in Writers
    BY DEF Writers
<1> DEFINE writer == writers[w]
<1>0. WriterOK(writer)
    BY DEF MemInv
<1>1. ASSUME NEW s \in Scopes, StartTurn(w, s) PROVE MemInv'
    <2> DEFINE started == [Idle EXCEPT !.pc = "prompt", !.scope = s, !.unread = RecallScopes(s)]
    <2>1. WriterOK(started)
        BY DEF WriterOK, Idle
    <2>2. writers' = [writers EXCEPT ![w] = started] /\ UNCHANGED <<docs, revisions>>
        BY <1>1 DEF StartTurn
    <2> HIDE DEF started
    <2> QED  BY <2>1, <2>2, Moves
<1>2. CASE RecallScope(w)
    <2> DEFINE body == RecallBody(docs[Head(writers[w].unread)])
               lines == IF Bullets(body) = <<>> THEN {} ELSE ToSet(body)
               told == [Hear(w, lines) EXCEPT !.unread = Tail(@)]
    <2>1. writers' = [writers EXCEPT ![w] = told] /\ UNCHANGED <<docs, revisions>>
        BY <1>2 DEF RecallScope
    <2> HIDE DEF lines
    <2>2. WriterOK(told)
        BY <1>0, <1>2 DEF WriterOK, Hear, RecallScope, At
    <2> HIDE DEF told
    <2> QED  BY <2>1, <2>2, Moves
<1>3. CASE Onboard(w)
    <2> DEFINE onboards == writers[w].scope \in Personal /\ IsOutstanding(DetectStatus(docs[writers[w].scope]))
               told == [writers[w] EXCEPT !.pc = "run", !.onboards = onboards]
    <2>1. writers' = [writers EXCEPT ![w] = told] /\ UNCHANGED <<docs, revisions>>
        BY <1>3 DEF Onboard, MemInv, TablesOK
    <2> HIDE DEF onboards
    <2>2. WriterOK(told)
        BY <1>0, <1>3 DEF WriterOK, Onboard, At
    <2> HIDE DEF told
    <2> QED  BY <2>1, <2>2, Moves
<1>4. CASE MemoryTool(w)
    <2>0. /\ writers[w].pc = "run" /\ UNCHANGED <<docs, revisions>>
          /\ \/ \E facts \in Captures[writers[w].scope] : Capture(w, facts)
             \/ \E terms \in Queries :
                   writers' = [writers EXCEPT ![w].pc = "query", ![w].terms = terms,
                                              ![w].unread = RecallScopes(writers[w].scope)]
             \/ writers' = [writers EXCEPT ![w] = Hear(w, ToSet(RecallBody(docs[writers[w].scope])))]
        BY <1>4 DEF MemoryTool, At
    <2>1. ASSUME NEW facts, Capture(w, facts) PROVE MemInv'
        <3> DEFINE body == FoldCapture(docs[writers[w].scope], facts)
                   captured == [writers[w] EXCEPT !.pc = "write", !.base = docs[writers[w].scope],
                                                  !.content = body, !.operation = "capture"]
        <3>1. writers' = [writers EXCEPT ![w] = captured]
            BY <2>1 DEF Capture
        <3> HIDE DEF body
        <3>2. Known(writers[w].scope, docs[writers[w].scope])
            BY <1>0, <2>0 DEF MemInv, WriterOK
        <3>3. WriterOK(captured)
            BY <1>0, <2>0, <3>2 DEF WriterOK
        <3> HIDE DEF captured
        <3> QED  BY <2>0, <3>1, <3>3, Moves
    <2>2. ASSUME NEW terms, writers' = [writers EXCEPT ![w].pc = "query", ![w].terms = terms,
                                               ![w].unread = RecallScopes(writers[w].scope)]
          PROVE  MemInv'
        <3> DEFINE unread == RecallScopes(writers[w].scope)
                   asked == [writers[w] EXCEPT !.pc = "query", !.terms = terms, !.unread = unread]
        <3> HIDE DEF unread
        <3>1. writers' = [writers EXCEPT ![w] = asked]
            BY <2>2 DEF unread, MemInv, TablesOK
        <3>2. WriterOK(asked)
            BY <1>0, <2>0 DEF WriterOK
        <3> HIDE DEF asked
        <3> QED  BY <2>0, <3>1, <3>2, Moves
    <2>3. CASE writers' = [writers EXCEPT ![w] = Hear(w, ToSet(RecallBody(docs[writers[w].scope])))]
        <3> DEFINE lines == ToSet(RecallBody(docs[writers[w].scope]))
        <3> HIDE DEF lines
        <3>1. WriterOK(Hear(w, lines))
            BY <1>0, <2>0 DEF WriterOK, Hear
        <3> QED  BY <2>0, <2>3, <3>1, Moves DEF lines
    <2> QED  BY <2>0, <2>1, <2>2, <2>3
<1>5. CASE QueryScope(w)
    <2> DEFINE lines == ToSet(QueryBullets(docs[Head(writers[w].unread)], writers[w].terms, QueryLimit))
               over == [writers[w] EXCEPT !.pc = "run", !.terms = {}]
               told == [Hear(w, lines) EXCEPT !.unread = Tail(@)]
    <2>1. /\ writers' = [writers EXCEPT ![w] = IF writers[w].unread = <<>> THEN over ELSE told]
          /\ UNCHANGED <<docs, revisions>>
        BY <1>5 DEF QueryScope
    <2> HIDE DEF lines
    <2>2. WriterOK(over) /\ WriterOK(told)
        BY <1>0, <1>5 DEF WriterOK, Hear, QueryScope, At
    <2> HIDE DEF over, told
    <2> QED  BY <2>1, <2>2, Moves
<1>6. CASE EndTurn(w)
    BY <1>6, Ends DEF EndTurn
<1> QED  BY <1>1, <1>2, <1>3, <1>4, <1>5, <1>6

\* Everything of a page but the write.
LEMMA PageStep ==
    ASSUME MemInv, NEW w \in Editors,
           (\E s \in Scopes : OpenPage(w, s)) \/ ClosePage(w) \/ Submit(w)
    PROVE  MemInv'
<1> w \in Writers
    BY DEF Writers
<1>0. WriterOK(writers[w])
    BY DEF MemInv
<1>1. ASSUME NEW s \in Scopes, OpenPage(w, s) PROVE MemInv'
    <2> DEFINE opened == [Idle EXCEPT !.pc = "page", !.scope = s, !.base = docs[s]]
    <2>1. WriterOK(opened)
        BY DEF WriterOK, Idle, MemInv
    <2>2. writers' = [writers EXCEPT ![w] = opened] /\ UNCHANGED <<docs, revisions>>
        BY <1>1 DEF OpenPage
    <2> HIDE DEF opened
    <2> QED  BY <2>1, <2>2, Moves
<1>2. CASE ClosePage(w)
    BY <1>2, Ends DEF ClosePage
<1>3. CASE Submit(w)
    <2>0. /\ writers[w].pc = "page" /\ UNCHANGED <<docs, revisions>>
          /\ \/ \E draft \in Drafts[writers[w].scope] : Save(w, draft)
             \/ \E s \in Scopes : \E revision \in Contents(s) : Restore(w, revision)
        BY <1>3 DEF Submit, At
    <2>1. ASSUME NEW content, NEW operation, Goto(w, "write", content, operation),
                 operation = "restore" => content \in Contents(writers[w].scope)
          PROVE  MemInv'
        <3> DEFINE submitted ==
                [writers[w] EXCEPT !.pc = "write", !.content = content, !.operation = operation]
        <3>1. writers' = [writers EXCEPT ![w] = submitted]
            BY <2>1 DEF Goto, MemInv, TablesOK
        <3>2. WriterOK(submitted)
            BY <1>0, <2>0, <2>1 DEF WriterOK
        <3> HIDE DEF submitted
        <3> QED  BY <2>0, <3>1, <3>2, Moves
    <2>2. ASSUME NEW draft, Save(w, draft) PROVE MemInv'
        <3>1. Goto(w, "write", draft, "replace") \/ End(w)
            BY <2>2 DEF Save
        <3>2. CASE Goto(w, "write", draft, "replace")
            BY <3>2, <2>1
        <3> QED  BY <2>0, <3>1, <3>2, Ends
    <2>3. ASSUME NEW revision, Restore(w, revision) PROVE MemInv'
        <3>1. \/ revision \in Contents(writers[w].scope) /\ Goto(w, "write", revision, "restore")
              \/ End(w)
            BY <2>3 DEF Restore, Restorable
        <3> QED  BY <2>0, <2>1, <3>1, Ends
    <2> QED  BY <2>0, <2>2, <2>3
<1> QED  BY <1>1, <1>2, <1>3

\* The write of a document and of its revision.
LEMMA WriteStep ==
    ASSUME MemInv, NEW w \in Writers, WriteRevision(w)
    PROVE  MemInv'
<1> PICK t : t = writers[w].scope
    OBVIOUS
<1> DEFINE row == Row(writers[w].content, writers[w].operation)
<1>0. /\ WriterOK(writers[w]) /\ writers[w].pc = "write" /\ t \in Scopes
      /\ docs' = [docs EXCEPT ![t] = writers[w].content]
      /\ revisions' = [revisions EXCEPT ![t] = Append(revisions[t], row)]
      /\ Written(w)
    BY DEF MemInv, WriterOK, WriteRevision, At
<1>1. /\ row.content = writers[w].content
      /\ row.operation = writers[w].operation
    BY DEF Row
<1> HIDE DEF row
<1>2. TablesOK'
    BY <1>0 DEF MemInv, TablesOK, Written
<1>3. /\ revisions'[t] = Append(revisions[t], row)
      /\ \A s \in Scopes \ {t} : revisions'[s] = revisions[s]
      /\ docs'[t] = writers[w].content
      /\ \A s \in Scopes \ {t} : docs'[s] = docs[s]
    BY <1>0 DEF MemInv, TablesOK
<1> DEFINE n == Len(revisions[t])
<1>4. /\ IsHistory(revisions'[t])
      /\ n \in Nat
      /\ DOMAIN revisions[t] = 1..n
      /\ DOMAIN revisions'[t] = 1..n + 1
      /\ \A i \in 1..n : revisions'[t][i] = revisions[t][i]
      /\ revisions'[t][n + 1] = row
    BY <1>0, <1>3, AppendHistory DEF MemInv
<1> HIDE DEF n
<1>5. \A s \in Scopes : \A document : document \in Contents(s) => document \in Contents(s)'
    <2> SUFFICES ASSUME NEW s \in Scopes, NEW document, document \in Contents(s)
                 PROVE  document \in Contents(s)'
        OBVIOUS
    <2>1. CASE s # t
        BY <2>1, <1>3 DEF Contents
    <2>2. CASE s = t
        <3>1. PICK i \in 1..n : revisions[t][i].content = document
            BY <2>2, <1>4, ContentsAre
        <3>2. i \in DOMAIN revisions'[t] /\ revisions'[t][i].content = document
            BY <1>4, <3>1
        <3> QED  BY <3>2, <2>2 DEF Contents, ToSet
    <2> QED  BY <2>1, <2>2
<1>6. writers[w].content \in Contents(t)'
    <2>1. n + 1 \in DOMAIN revisions'[t] /\ revisions'[t][n + 1].content = writers[w].content
        BY <1>1, <1>4
    <2> QED  BY <2>1 DEF Contents, ToSet
<1>7. \A s \in Scopes : \A document : Known(s, document) => Known(s, document)'
    BY <1>5 DEF Known
<1>8. (\A s \in Scopes : Known(s, docs[s]))'
    BY <1>3, <1>6, <1>7 DEF Known, MemInv
<1>9. RestoresThePast(revisions'[t])
    <2> SUFFICES ASSUME NEW i \in 1..n + 1, revisions'[t][i].operation = "restore"
                 PROVE  \E j \in 1..i-1 : revisions'[t][j].content = revisions'[t][i].content
        BY <1>4 DEF RestoresThePast
    <2>1. CASE i \in 1..n
        <3>1. PICK j \in 1..i-1 : revisions[t][j].content = revisions[t][i].content
            BY <1>0, <1>4, <2>1 DEF MemInv, RestoresThePast
        <3>2. j \in 1..n
            BY <1>4, <2>1
        <3> QED  BY <1>4, <2>1, <3>1, <3>2
    <2>2. CASE i = n + 1
        <3>1. writers[w].content \in Contents(t)
            BY <1>0, <1>1, <1>4, <2>2 DEF WriterOK
        <3>2. PICK j \in 1..n : revisions[t][j].content = writers[w].content
            BY <3>1, <1>4, ContentsAre
        <3> QED  BY <1>1, <1>4, <2>2, <3>2
    <2> QED  BY <1>4, <2>1, <2>2
<1>10. (\A s \in Scopes : IsHistory(revisions[s]) /\ RestoresThePast(revisions[s]))'
    BY <1>3, <1>4, <1>9 DEF MemInv
<1>11. ASSUME NEW v \in Writers PROVE WriterOK(writers[v])'
    <2> DEFINE after == [writers[w] EXCEPT !.pc = "run", !.base = <<>>, !.content = <<>>, !.operation = ""]
    <2>1. writers'[v] = writers[v] \/ writers'[v] = after \/ writers'[v] = Idle
        BY <1>0 DEF Written, MemInv, TablesOK
    <2>2. CASE writers'[v] = after
        <3>1. /\ DOMAIN after = DOMAIN writers[w] /\ after.pc = "run" /\ after.scope = t
            BY <1>0 DEF WriterOK
        <3> HIDE DEF after
        <3> QED  BY <3>1, <2>2, <1>0 DEF WriterOK
    <2>3. CASE writers'[v] = Idle
        <3>1. /\ DOMAIN Idle = {"pc", "scope", "base", "content", "operation", "unread", "terms",
                                "heard", "onboards"}
              /\ Idle.pc = "idle"
            BY DEF Idle
        <3> QED  BY <3>1, <2>3 DEF WriterOK
    <2>4. CASE writers'[v] = writers[v]
        <3>1. WriterOK(writers[v])
            BY DEF MemInv
        <3> QED  BY <3>1, <2>4, <1>5, <1>7 DEF WriterOK
    <2> QED  BY <2>1, <2>2, <2>3, <2>4
<1> QED  BY <1>2, <1>8, <1>10, <1>11 DEF MemInv

LEMMA StepInv == MemInv /\ [Next]_vars => MemInv'
<1> SUFFICES ASSUME MemInv, [Next]_vars PROVE MemInv'
    OBVIOUS
<1>1. CASE Next
    BY <1>1, TurnStep, PageStep, WriteStep DEF Next
<1>2. CASE UNCHANGED vars
    BY <1>2 DEF vars, MemInv, TablesOK, WriterOK, Known, Contents
<1> QED  BY <1>1, <1>2

LEMMA InvHolds == Spec => []MemInv
BY InitInv, StepInv, PTL DEF Spec

-----------------------------------------------------------------------------
(* Folds.  What the notebook grammar computes it folds over lines, and the    *)
(* induction behind a fold is the least length at which it would fail.       *)

\* Some naturals have a least one.
LEMMA LeastElement ==
    ASSUME NEW S \in SUBSET Nat, S # {}
    PROVE  \E t \in S : \A u \in S : t <= u
<1> DEFINE R == {p \in Nat \X Nat : p[1] < p[2]}
<1>1. OpToRel(<, Nat) = R
  BY DEF OpToRel
<1>2. IsWellFoundedOn(R, Nat)
  BY <1>1, NatLessThanWellFounded
<1> HIDE DEF R
<1>3. PICK t \in S : \A u \in S : ~ (<<u, t>> \in R)
  BY <1>2, WFMin
<1>4. \A u \in S : ~ (u < t)
  BY <1>3 DEF R
<1> QED BY <1>4

\* The greatest of some numbers up to k.
LEMMA Greatest ==
    ASSUME NEW k \in Nat, NEW T \in SUBSET (1..k), T # {}
    PROVE  Max(T) \in T /\ \A u \in T : u <= Max(T)
<1> DEFINE S == {k - t : t \in T}
<1>1. S \in SUBSET Nat /\ S # {}
  <2>1. \A t \in T : k - t \in Nat
    OBVIOUS
  <2>2. PICK t : t \in T
    OBVIOUS
  <2>3. k - t \in S
    BY <2>2
  <2> QED BY <2>1, <2>3
<1> HIDE DEF S
<1>2. PICK d \in S : \A u \in S : d <= u
  BY <1>1, LeastElement
<1>3. PICK t \in T : d = k - t
  BY <1>2 DEF S
<1>4. ASSUME NEW u \in T PROVE t >= u
  <2>1. k - u \in S
    BY DEF S
  <2>2. d <= k - u
    BY <1>2, <2>1
  <2> QED BY <2>2, <1>3
<1>5. \E x \in T : \A y \in T : x >= y
  BY <1>4
<1>6. /\ Max(T) \in T
      /\ \A y \in T : Max(T) >= y
  BY <1>5 DEF Max
<1> QED BY <1>6

\* A step of a fold over n elements stays in X.
Closed(n, X, step) == \A i \in 1..n, x \in X : step[<<i, x>>] \in X

\* A fold over 1..n, as the community modules define it: the value of a set of
\* positions is that of the set without its greatest, and one step more.
FoldOf(it, n, base, step) ==
    it = [t \in SUBSET (1..n) |->
             IF t = {} THEN base ELSE step[<<Max(t), it[t \ {Max(t)}]>>]]

\* What is defined for n elements is defined for one more.
LEMMA FoldGrows ==
    ASSUME NEW n \in Nat, NEW X, NEW base \in X, NEW step,
           Closed(n + 1, X, step),
           NEW f \in [SUBSET (1..n) -> X],
           FoldOf(f, n, base, step)
    PROVE  \E g \in [SUBSET (1..(n + 1)) -> X] : FoldOf(g, n+1, base, step)
<1> USE DEF Closed
<1> DEFINE g == [t \in SUBSET (1..(n+1)) |->
                    IF n + 1 \in t THEN step[<<n + 1, f[t \ {n + 1}]>>] ELSE f[t]]
<1>1. ASSUME NEW t \in SUBSET (1..(n+1)), n+1 \in t
      PROVE  /\ Max(t) = n + 1 /\ t # {} /\ t \ {n + 1} \in SUBSET (1..n)
             /\ g[t] = step[<<Max(t), g[t \ {Max(t)}]>>] /\ g[t] \in X
  <2>1. Max(t) \in t /\ \A u \in t : u <= Max(t)
    BY <1>1, Greatest, n + 1 \in Nat
  <2>2. Max(t) = n + 1
    <3>1. Max(t) \in 1..(n+1) /\ n + 1 <= Max(t)
      BY <2>1, <1>1
    <3> QED BY <3>1
  <2>3. t \ {n + 1} \in SUBSET (1..n)
    OBVIOUS
  <2>4. t \ {n + 1} \in SUBSET (1..(n+1)) /\ g[t \ {n + 1}] = f[t \ {n + 1}]
    BY <2>3
  <2> QED BY <1>1, <2>2, <2>3, <2>4
<1>2. ASSUME NEW t \in SUBSET (1..(n+1)), n+1 \notin t
      PROVE  /\ t \in SUBSET (1..n)
             /\ g[t] = f[t] /\ g[t] \in X
             /\ t # {} => t \ {Max(t)} \in SUBSET (1..n) /\ g[t \ {Max(t)}] = f[t \ {Max(t)}]
  <2>1. t \in SUBSET (1..n)
    BY <1>2
  <2>2. ASSUME t # {} PROVE t \ {Max(t)} \in SUBSET (1..n) /\ n + 1 \notin t \ {Max(t)}
    <3> DEFINE rest == t \ {Max(t)}
    <3>1. rest \subseteq t
      OBVIOUS
    <3> HIDE DEF rest
    <3>2. rest \in SUBSET (1..n) /\ n + 1 \notin rest
      BY <3>1, <2>1
    <3> QED BY <3>2 DEF rest
  <2> QED BY <1>2, <2>1, <2>2
<1>3. ASSUME NEW t \in SUBSET (1..(n+1))
      PROVE  g[t] \in X /\ g[t] = IF t = {} THEN base ELSE step[<<Max(t), g[t \ {Max(t)}]>>]
  <2>1. CASE n + 1 \in t
    BY <2>1, <1>1
  <2>2. CASE n + 1 \notin t
    <3>1. f[t] = IF t = {} THEN base ELSE step[<<Max(t), f[t \ {Max(t)}]>>]
      BY <1>2, <2>2 DEF FoldOf
    <3> QED BY <3>1, <1>2, <2>2
  <2> QED BY <2>1, <2>2
<1>4. g \in [SUBSET (1..(n+1)) -> X] /\ DOMAIN g = SUBSET (1..(n+1))
  BY <1>3
<1>5. g = [t \in SUBSET (1..(n+1)) |-> g[t]]
  BY <1>4
<1> HIDE DEF g
<1>6. FoldOf(g, n + 1, base, step)
  BY <1>3, <1>5 DEF FoldOf
<1> QED BY <1>4, <1>6

\* A fold over any number of elements is defined.
LEMMA FoldExists ==
    ASSUME NEW n \in Nat, NEW X, NEW base \in X, NEW step,
           Closed(n, X, step)
    PROVE  \E f \in [SUBSET (1..n) -> X] : FoldOf(f, n, base, step)
<1> USE DEF Closed
<1> DEFINE None == {k \in 0..n : ~ \E f \in [SUBSET (1..k) -> X] : FoldOf(f, k, base, step)}
<1> SUFFICES ASSUME None # {} PROVE FALSE
  <2>1. n \in 0..n
    OBVIOUS
  <2> QED BY <2>1
<1>1. None \in SUBSET Nat
  OBVIOUS
<1> HIDE DEF None
<1>2. PICK k \in None : \A u \in None : k <= u
  BY <1>1, LeastElement
<1>3. k \in 0..n
  BY <1>2 DEF None
<1>4. CASE k = 0
  <2> DEFINE f == [t \in SUBSET (1..0) |-> base]
  <2>1. SUBSET (1..0) = {{}}
    OBVIOUS
  <2>2. f \in [SUBSET (1..0) -> X]
    OBVIOUS
  <2>3. FoldOf(f, 0, base, step)
    BY <2>1 DEF FoldOf
  <2> QED BY <2>2, <2>3, <1>2, <1>4 DEF None
<1>5. CASE k # 0
  <2>1. k - 1 \in 0..n /\ k - 1 \in Nat /\ k - 1 < k /\ (k - 1) + 1 = k
    BY <1>3, <1>5
  <2>2. k - 1 \notin None
    BY <2>1, <1>1, <1>2
  <2>3. PICK f \in [SUBSET (1..(k-1)) -> X] : FoldOf(f, k - 1, base, step)
    BY <2>1, <2>2 DEF None
  <2>4. \E g \in [SUBSET (1..((k - 1) + 1)) -> X] : FoldOf(g, (k - 1) + 1, base, step)
    <3> DEFINE m == k - 1
    <3>1. m \in Nat /\ Closed(m + 1, X, step)
      BY <2>1, <1>3
    <3>2. FoldOf(f, m, base, step) /\ f \in [SUBSET (1..m) -> X]
      BY <2>3
    <3> HIDE DEF m
    <3>3. \E g \in [SUBSET (1..(m + 1)) -> X] : FoldOf(g, m + 1, base, step)
      BY <3>1, <3>2, FoldGrows
    <3> QED BY <3>3 DEF m
  <2>5. k \notin None
    BY <2>1, <2>4 DEF None
  <2> QED BY <2>5, <1>2
<1> QED BY <1>4, <1>5

\* The same, of a function of which only the values in X are known.
Stepwise(it, n, X, base, step) ==
    /\ it[{}] = base
    /\ \A t \in SUBSET (1..n) : t # {} /\ it[t \ {Max(t)}] \in X =>
           it[t] = step[<<Max(t), it[t \ {Max(t)}]>>]

\* The values of a fold after each element.
Partial(it, n) == [k \in 0..n |-> it[1..k]]
Unfolds(r, n, base, step) ==
    /\ r[0] = base
    /\ \A i \in 1..n : r[i] = step[<<i, r[i - 1]>>]

\* A fold takes the elements one after the other.
LEMMA FoldUnfolds ==
    ASSUME NEW n \in Nat, NEW X, NEW base \in X, NEW step, Closed(n, X, step),
           NEW it, Stepwise(it, n, X, base, step)
    PROVE  /\ Partial(it, n) \in [0..n -> X]
           /\ Unfolds(Partial(it, n), n, base, step)
           /\ Partial(it, n)[n] = it[1..n]
<1> USE DEF Closed, Stepwise
<1> DEFINE Odd == {k \in 0..n : it[1..k] \notin X}
           r == [k \in 0..n |-> it[1..k]]
<1>1. 1..0 = {}
  OBVIOUS
<1>2. ASSUME NEW i \in 1..n
      PROVE  /\ 1..i \in SUBSET (1..n) /\ 1..i # {}
             /\ Max(1..i) = i /\ (1..i) \ {i} = 1..(i - 1)
  <2>1. i \in Nat /\ i \in 1..i /\ 1..i \in SUBSET (1..i)
    OBVIOUS
  <2>2. Max(1..i) \in 1..i /\ \A u \in 1..i : u <= Max(1..i)
    BY <2>1, Greatest
  <2>3. Max(1..i) = i
    <3>1. i <= Max(1..i)
      BY <2>1, <2>2
    <3> QED BY <2>2, <3>1
  <2>4. (1..i) \ {i} = 1..(i - 1)
    OBVIOUS
  <2>5. 1..i \in SUBSET (1..n) /\ 1..i # {}
    BY <2>1
  <2> QED BY <2>3, <2>4, <2>5
<1>3. \A i \in 1..n : it[1..(i-1)] \in X => it[1..i] = step[<<i, it[1..(i-1)]>>]
  BY <1>2
<1>4. Odd = {}
  <2> SUFFICES ASSUME Odd # {} PROVE FALSE
    OBVIOUS
  <2>1. Odd \in SUBSET Nat
    OBVIOUS
  <2> HIDE DEF Odd
  <2>2. PICK k \in Odd : \A u \in Odd : k <= u
    BY <2>1, LeastElement
  <2>3. k \in 0..n /\ it[1..k] \notin X
    BY <2>2 DEF Odd
  <2>4. k # 0
    BY <2>3, <1>1
  <2>5. k \in 1..n /\ k - 1 \in 0..n /\ k - 1 < k /\ k - 1 \in Nat
    BY <2>3, <2>4
  <2>6. k - 1 \notin Odd
    BY <2>1, <2>2, <2>5
  <2>7. it[1..(k-1)] \in X
    BY <2>5, <2>6 DEF Odd
  <2> QED BY <2>3, <2>5, <2>7, <1>3
<1>5. r \in [0..n -> X]
  BY <1>4
<1>6. \A i \in 1..n : r[i] = step[<<i, r[i - 1]>>]
  <2> TAKE i \in 1..n
  <2>1. i \in 0..n /\ i - 1 \in 0..n
    OBVIOUS
  <2>2. it[1..(i-1)] \in X
    BY <2>1, <1>4
  <2> QED BY <2>1, <2>2, <1>3
<1>7. r[0] = base /\ r[n] = it[1..n]
  BY <1>1
<1> QED BY <1>5, <1>6, <1>7 DEF Unfolds, Partial

-----------------------------------------------------------------------------
(* The lines of a kind *)

\* r[i] is what Only keeps of the first i lines.
Keeps(r, s, S) ==
    /\ r[0] = <<>>
    /\ \A i \in 1..Len(s) : r[i] = IF s[i] \in S THEN Append(r[i-1], s[i]) ELSE r[i-1]

LEMMA OnlyExists ==
    ASSUME NEW A, NEW s \in Seq(A), NEW S
    PROVE  \E r \in [0..Len(s) -> Seq(A \intersect S)] : Keeps(r, s, S) /\ r[Len(s)] = Only(s, S)
<1>1. PICK len \in Nat : len = Len(s) /\ DOMAIN s = 1..len
    OBVIOUS
<1> DEFINE X == Seq(A \intersect S)
           Adds(f) == f = [t \in SUBSET DOMAIN s |->
                              IF t = {} THEN <<>>
                              ELSE LET x == Max(t)
                                   IN  IF s[x] \in S THEN Append(f[t \ {x}], s[x]) ELSE f[t \ {x}]]
           all == CHOOSE f : Adds(f)
           add == [p \in (1..len) \X X |-> IF s[p[1]] \in S THEN Append(p[2], s[p[1]]) ELSE p[2]]
<1>2. Only(s, S) = all[1..len]
    BY <1>1 DEF Only, FoldLeft, MapThenFoldSet
<1>3. \A i \in 1..len : s[i] \in A
    BY <1>1
<1>4. \A i \in 1..len, x \in X :
         /\ add[<<i, x>>] = IF s[i] \in S THEN Append(x, s[i]) ELSE x
         /\ add[<<i, x>>] \in X
    <2> TAKE i \in 1..len, x \in X
    <2>1. add[<<i, x>>] = IF s[i] \in S THEN Append(x, s[i]) ELSE x
        OBVIOUS
    <2>2. CASE s[i] \in S
        <3>1. s[i] \in A \intersect S
            BY <1>3, <2>2
        <3> QED  BY <2>1, <3>1
    <2> QED  BY <2>1, <2>2
<1>5. <<>> \in X
    OBVIOUS
<1> HIDE DEF add, X
<1>7. Closed(len, X, add)
    BY <1>4 DEF Closed
<1>8. \A t \in SUBSET (1..len) : t # {} => Max(t) \in 1..len /\ t \ {Max(t)} \in SUBSET (1..len)
    BY Greatest
<1>9. \E f : Adds(f)
    <2>1. PICK f \in [SUBSET (1..len) -> X] : FoldOf(f, len, <<>>, add)
        BY <1>5, <1>7, FoldExists
    <2>2. \A t \in SUBSET (1..len) : t # {} =>
             f[t] = IF s[Max(t)] \in S THEN Append(f[t \ {Max(t)}], s[Max(t)]) ELSE f[t \ {Max(t)}]
        <3> TAKE t \in SUBSET (1..len)
        <3> HAVE t # {}
        <3>1. Max(t) \in 1..len /\ t \ {Max(t)} \in SUBSET (1..len)
            BY <1>8
        <3>2. f[t] = add[<<Max(t), f[t \ {Max(t)}]>>] /\ f[t \ {Max(t)}] \in X
            BY <2>1, <3>1 DEF FoldOf
        <3> QED  BY <3>1, <3>2, <1>4
    <2>3. f[{}] = <<>>
        BY <2>1 DEF FoldOf
    <2>4. f = [t \in SUBSET DOMAIN s |-> f[t]]
        BY <2>1, <1>1
    <2>5. Adds(f)
        BY <2>2, <2>3, <2>4, <1>1
    <2> QED  BY <2>5
<1>10. Adds(all)
    BY <1>9
<1> HIDE DEF all
<1>11. /\ all[{}] = <<>>
       /\ \A t \in SUBSET (1..len) : t # {} =>
             all[t] = IF s[Max(t)] \in S THEN Append(all[t \ {Max(t)}], s[Max(t)]) ELSE all[t \ {Max(t)}]
    BY <1>1, <1>10
<1>12. Stepwise(all, len, X, <<>>, add)
    BY <1>4, <1>8, <1>11 DEF Stepwise
<1> DEFINE r == Partial(all, len)
<1>13. r \in [0..len -> X]
    BY <1>5, <1>7, <1>12, FoldUnfolds
<1>14. Unfolds(r, len, <<>>, add)
    BY <1>5, <1>7, <1>12, FoldUnfolds
<1>15. r[len] = all[1..len]
    BY <1>5, <1>7, <1>12, FoldUnfolds
<1> HIDE DEF r
<1>16. Keeps(r, s, S)
    <2>1. ASSUME NEW i \in 1..len PROVE r[i] = IF s[i] \in S THEN Append(r[i-1], s[i]) ELSE r[i-1]
        <3>1. i - 1 \in 0..len /\ r[i-1] \in X
            BY <1>13
        <3> QED  BY <3>1, <1>4, <1>14 DEF Unfolds
    <2> QED  BY <2>1, <1>1, <1>14 DEF Keeps, Unfolds
<1> QED  BY <1>1, <1>2, <1>13, <1>15, <1>16 DEF X

\* There is one such r.
LEMMA OnlyIs ==
    ASSUME NEW A, NEW s \in Seq(A), NEW S, NEW r, Keeps(r, s, S)
    PROVE  Only(s, S) = r[Len(s)]
<1>1. PICK u : Keeps(u, s, S) /\ u[Len(s)] = Only(s, S)
    BY OnlyExists
<1> DEFINE Odd == {k \in 0..Len(s) : r[k] # u[k]}
<1>2. Odd = {}
    <2> SUFFICES ASSUME Odd # {} PROVE FALSE
        OBVIOUS
    <2>1. Odd \in SUBSET Nat
        OBVIOUS
    <2> HIDE DEF Odd
    <2>2. PICK k \in Odd : \A j \in Odd : k <= j
        BY <2>1, LeastElement
    <2>3. k \in 0..Len(s) /\ r[k] # u[k]
        BY <2>2 DEF Odd
    <2>4. k # 0
        BY <2>3, <1>1 DEF Keeps
    <2>5. k \in 1..Len(s) /\ k - 1 \in 0..Len(s) /\ k - 1 < k /\ k - 1 \in Nat
        BY <2>3, <2>4
    <2>6. k - 1 \notin Odd
        BY <2>1, <2>2, <2>5
    <2>7. r[k-1] = u[k-1]
        BY <2>5, <2>6 DEF Odd
    <2> QED  BY <2>3, <2>5, <2>7, <1>1 DEF Keeps
<1>3. Len(s) \in 0..Len(s)
    OBVIOUS
<1> QED  BY <1>1, <1>2, <1>3

\* Nothing is kept of nothing.
LEMMA OnlyOfNone == ASSUME NEW S PROVE Only(<<>>, S) = <<>>
<1> DEFINE r == [k \in 0..0 |-> <<>>]
<1>1. <<>> \in Seq({}) /\ Len(<<>>) = 0 /\ r[0] = <<>>
    OBVIOUS
<1> HIDE DEF r
<1>2. Keeps(r, <<>>, S)
    BY <1>1 DEF Keeps
<1> QED  BY <1>1, <1>2, OnlyIs

\* The kept lines are lines, and of the kind.
LEMMA OnlySome ==
    ASSUME NEW A, NEW s \in Seq(A), NEW S
    PROVE  Only(s, S) \in Seq(A \intersect S)
<1>1. Len(s) \in 0..Len(s)
    OBVIOUS
<1> QED  BY <1>1, OnlyExists

\* A line more.
LEMMA OnlyOfAppend ==
    ASSUME NEW A, NEW s \in Seq(A), NEW x \in A, NEW S
    PROVE  Only(Append(s, x), S) = IF x \in S THEN Append(Only(s, S), x) ELSE Only(s, S)
<1>1. PICK r \in [0..Len(s) -> Seq(A \intersect S)] : Keeps(r, s, S) /\ r[Len(s)] = Only(s, S)
    BY OnlyExists
<1>2. PICK len \in Nat : len = Len(s)
    OBVIOUS
<1>3. PICK t : t = Append(s, x)
    OBVIOUS
<1>4. /\ t \in Seq(A) /\ Len(t) = len + 1 /\ t[len + 1] = x
      /\ \A i \in 1..len : t[i] = s[i]
    BY <1>2, <1>3
<1> DEFINE u == [k \in 0..(len + 1) |->
                    IF k = len + 1 THEN (IF x \in S THEN Append(r[len], x) ELSE r[len]) ELSE r[k]]
<1>5. r[0] = <<>> /\ \A i \in 1..len : r[i] = IF s[i] \in S THEN Append(r[i-1], s[i]) ELSE r[i-1]
    BY <1>1, <1>2 DEF Keeps
<1>6. u[0] = <<>> /\ u[len + 1] = IF x \in S THEN Append(r[len], x) ELSE r[len]
    BY <1>5
<1>7. ASSUME NEW i \in 1..(len+1) PROVE u[i] = IF t[i] \in S THEN Append(u[i-1], t[i]) ELSE u[i-1]
    <2>1. CASE i = len + 1
        BY <2>1, <1>4
    <2>2. CASE i # len + 1
        <3>1. i \in 1..len /\ i # len + 1 /\ i - 1 \in 0..len /\ i - 1 # len + 1
            BY <2>2
        <3>2. u[i] = r[i] /\ u[i-1] = r[i-1] /\ t[i] = s[i]
            BY <3>1, <1>4
        <3> QED  BY <3>1, <3>2, <1>5
    <2> QED  BY <2>1, <2>2
<1> HIDE DEF u
<1>8. Keeps(u, t, S)
    BY <1>4, <1>6, <1>7 DEF Keeps
<1>9. Only(t, S) = u[Len(t)]
    BY <1>4, <1>8, OnlyIs
<1> QED  BY <1>1, <1>2, <1>3, <1>4, <1>6, <1>9

-----------------------------------------------------------------------------
(* Trim and FoldCapture, step by step *)

\* What Trim makes of the lines taken so far.
TrimStart(lines) == [drop |-> Len(Bullets(lines)) - MaxFacts, kept |-> <<>>]
Taken(acc, line) == IF acc.drop > 0 /\ IsBullet(line)
                    THEN [acc EXCEPT !.drop = @ - 1]
                    ELSE [acc EXCEPT !.kept = Append(@, line)]
Trimming(A) == [drop : Int, kept : Seq(A)]

LEMMA TakenKeeps ==
    ASSUME NEW A, NEW acc \in Trimming(A), NEW line \in A
    PROVE  Taken(acc, line) \in Trimming(A)
<1>1. acc.drop \in Int /\ acc.drop - 1 \in Int /\ Append(acc.kept, line) \in Seq(A)
    BY DEF Trimming
<1>2. /\ [acc EXCEPT !.drop = @ - 1] \in Trimming(A)
      /\ [acc EXCEPT !.kept = Append(@, line)] \in Trimming(A)
    BY <1>1 DEF Trimming
<1> QED  BY <1>2 DEF Taken

LEMMA TrimUnfolds ==
    ASSUME NEW A, NEW s \in Seq(A)
    PROVE  \E r \in [0..Len(s) -> Trimming(A)] :
              /\ r[0] = TrimStart(s)
              /\ \A i \in 1..Len(s) : r[i] = Taken(r[i-1], s[i])
              /\ r[Len(s)].kept = Trim(s)
<1>1. PICK len \in Nat : len = Len(s) /\ DOMAIN s = 1..len
    OBVIOUS
<1>0. PICK start : start = TrimStart(s)
    OBVIOUS
<1> DEFINE X == Trimming(A)
           Adds(f) == f = [t \in SUBSET DOMAIN s |->
                              IF t = {} THEN start
                              ELSE LET x == Max(t) IN Taken(f[t \ {x}], s[x])]
           all == CHOOSE f : Adds(f)
           add == [p \in (1..len) \X X |-> Taken(p[2], s[p[1]])]
<1>2. Trim(s) = all[1..len].kept
    BY <1>0, <1>1 DEF Trim, TrimStart, Taken, FoldLeft, MapThenFoldSet
<1>3. \A i \in 1..len : s[i] \in A
    BY <1>1
<1>4. \A i \in 1..len, x \in X : add[<<i, x>>] = Taken(x, s[i]) /\ add[<<i, x>>] \in X
    BY <1>3, TakenKeeps
<1>5. start \in X
    <2>1. Bullets(s) \in Seq(A \intersect Fact)
        BY OnlySome DEF Bullets
    <2>2. PICK bullets : bullets = Bullets(s)
        OBVIOUS
    <2>3. Len(Bullets(s)) \in Nat
        BY <2>1, <2>2
    <2>4. MaxFacts \in Nat
        BY NotebookAssumption
    <2> QED  BY <1>0, <2>3, <2>4 DEF TrimStart, Trimming
<1> HIDE DEF add, X
<1>7. Closed(len, X, add)
    BY <1>4 DEF Closed
<1>8. \A t \in SUBSET (1..len) : t # {} => Max(t) \in 1..len /\ t \ {Max(t)} \in SUBSET (1..len)
    BY Greatest
<1>9. \E f : Adds(f)
    <2>1. PICK f \in [SUBSET (1..len) -> X] : FoldOf(f, len, start, add)
        BY <1>5, <1>7, FoldExists
    <2>2. \A t \in SUBSET (1..len) : t # {} => f[t] = Taken(f[t \ {Max(t)}], s[Max(t)])
        BY <2>1, <1>8, <1>4 DEF FoldOf
    <2>3. f[{}] = start
        BY <2>1 DEF FoldOf
    <2>4. f = [t \in SUBSET DOMAIN s |-> f[t]]
        BY <2>1, <1>1
    <2>5. Adds(f)
        BY <2>2, <2>3, <2>4, <1>1
    <2> QED  BY <2>5
<1>10. Adds(all)
    BY <1>9
<1> HIDE DEF all
<1>11. /\ all[{}] = start
       /\ \A t \in SUBSET (1..len) : t # {} => all[t] = Taken(all[t \ {Max(t)}], s[Max(t)])
    BY <1>1, <1>10
<1>12. Stepwise(all, len, X, start, add)
    BY <1>4, <1>8, <1>11 DEF Stepwise
<1> DEFINE r == Partial(all, len)
<1>13. r \in [0..len -> X]
    BY <1>5, <1>7, <1>12, FoldUnfolds
<1>14. Unfolds(r, len, start, add)
    BY <1>5, <1>7, <1>12, FoldUnfolds
<1>15. r[len] = all[1..len]
    BY <1>5, <1>7, <1>12, FoldUnfolds
<1> HIDE DEF r
<1>16. ASSUME NEW i \in 1..len PROVE r[i] = Taken(r[i-1], s[i])
    <2>1. i - 1 \in 0..len /\ r[i-1] \in X
        BY <1>13
    <2> QED  BY <2>1, <1>4, <1>14 DEF Unfolds
<1> QED  BY <1>0, <1>1, <1>2, <1>13, <1>14, <1>15, <1>16 DEF X, Unfolds

\* What FoldCapture makes of the facts added so far.
AddStart(existing) == [seen |-> {Key(line) : line \in ToSet(Bullets(existing))}, lines |-> existing]
Added(acc, fact) == IF Key(fact) \in acc.seen THEN acc
                    ELSE [seen |-> acc.seen \union {Key(fact)},
                          lines |-> Append(acc.lines, Stamped(fact))]
KeysOf(existing, facts) == AddStart(existing).seen \union {Key(fact) : fact \in ToSet(facts)}
Capturing(existing, facts, A) == [seen : SUBSET KeysOf(existing, facts), lines : Seq(A)]

LEMMA AddUnfolds ==
    ASSUME NEW A, NEW existing \in Seq(A), NEW B, NEW facts \in Seq(B),
           \A i \in 1..Len(facts) : Stamped(facts[i]) \in A
    PROVE  \E r \in [0..Len(facts) -> Capturing(existing, facts, A)] :
              /\ r[0] = AddStart(existing)
              /\ \A i \in 1..Len(facts) : r[i] = Added(r[i-1], facts[i])
              /\ FoldCapture(existing, facts) =
                    IF r[Len(facts)].lines = existing THEN existing ELSE Trim(r[Len(facts)].lines)
<1>1. PICK len \in Nat : len = Len(facts) /\ DOMAIN facts = 1..len
    OBVIOUS
<1>0. PICK start : start = AddStart(existing)
    OBVIOUS
<1> DEFINE X == Capturing(existing, facts, A)
           Adds(f) == f = [t \in SUBSET DOMAIN facts |->
                              IF t = {} THEN start
                              ELSE LET x == Max(t) IN Added(f[t \ {x}], facts[x])]
           all == CHOOSE f : Adds(f)
           add == [p \in (1..len) \X X |-> Added(p[2], facts[p[1]])]
<1>2. FoldCapture(existing, facts) =
         IF all[1..len].lines = existing THEN existing ELSE Trim(all[1..len].lines)
    BY <1>0, <1>1 DEF FoldCapture, AddStart, Added, FoldLeft, MapThenFoldSet
<1>3. \A i \in 1..len : Stamped(facts[i]) \in A /\ Key(facts[i]) \in KeysOf(existing, facts)
    BY <1>1 DEF KeysOf, ToSet
<1>4. \A i \in 1..len, x \in X : add[<<i, x>>] = Added(x, facts[i]) /\ add[<<i, x>>] \in X
    <2> TAKE i \in 1..len, x \in X
    <2>1. add[<<i, x>>] = Added(x, facts[i])
        OBVIOUS
    <2>2. /\ Append(x.lines, Stamped(facts[i])) \in Seq(A)
          /\ x.seen \union {Key(facts[i])} \in SUBSET KeysOf(existing, facts)
        BY <1>3 DEF Capturing
    <2> HIDE DEF add
    <2>3. [seen |-> x.seen \union {Key(facts[i])}, lines |-> Append(x.lines, Stamped(facts[i]))] \in X
        BY <2>2 DEF Capturing
    <2> QED  BY <2>1, <2>3 DEF Added
<1>5. start \in X
    BY <1>0 DEF AddStart, KeysOf, Capturing
<1> HIDE DEF add, X
<1>7. Closed(len, X, add)
    BY <1>4 DEF Closed
<1>8. \A t \in SUBSET (1..len) : t # {} => Max(t) \in 1..len /\ t \ {Max(t)} \in SUBSET (1..len)
    BY Greatest
<1>9. \E f : Adds(f)
    <2>1. PICK f \in [SUBSET (1..len) -> X] : FoldOf(f, len, start, add)
        BY <1>5, <1>7, FoldExists
    <2>2. \A t \in SUBSET (1..len) : t # {} => f[t] = Added(f[t \ {Max(t)}], facts[Max(t)])
        BY <2>1, <1>8, <1>4 DEF FoldOf
    <2>3. f[{}] = start
        BY <2>1 DEF FoldOf
    <2>4. f = [t \in SUBSET DOMAIN facts |-> f[t]]
        BY <2>1, <1>1
    <2>5. Adds(f)
        BY <2>2, <2>3, <2>4, <1>1
    <2> QED  BY <2>5
<1>10. Adds(all)
    BY <1>9
<1> HIDE DEF all
<1>11. /\ all[{}] = start
       /\ \A t \in SUBSET (1..len) : t # {} => all[t] = Added(all[t \ {Max(t)}], facts[Max(t)])
    BY <1>1, <1>10
<1>12. Stepwise(all, len, X, start, add)
    BY <1>4, <1>8, <1>11 DEF Stepwise
<1> DEFINE r == Partial(all, len)
<1>13. r \in [0..len -> X]
    BY <1>5, <1>7, <1>12, FoldUnfolds
<1>14. Unfolds(r, len, start, add)
    BY <1>5, <1>7, <1>12, FoldUnfolds
<1>15. r[len] = all[1..len]
    BY <1>5, <1>7, <1>12, FoldUnfolds
<1> HIDE DEF r
<1>16. ASSUME NEW i \in 1..len PROVE r[i] = Added(r[i-1], facts[i])
    <2>1. i - 1 \in 0..len /\ r[i-1] \in X
        BY <1>13
    <2> QED  BY <2>1, <1>4, <1>14 DEF Unfolds
<1>17. FoldCapture(existing, facts) = IF r[len].lines = existing THEN existing ELSE Trim(r[len].lines)
    BY <1>2, <1>15
<1>18. r[0] = start
    BY <1>14 DEF Unfolds
<1> QED  BY <1>0, <1>1, <1>13, <1>16, <1>17, <1>18 DEF X

-----------------------------------------------------------------------------
(* What is read and written keeps to the lines of a set *)

\* The greater, and the lesser, of two.
LEMMA MaxOfTwo ==
    ASSUME NEW a \in Int, NEW b \in Int
    PROVE  Max({a, b}) \in {a, b} /\ Max({a, b}) >= a /\ Max({a, b}) >= b
<1>1. \E x \in {a, b} : \A y \in {a, b} : x >= y
    <2>1. CASE a >= b
        BY <2>1
    <2>2. CASE b >= a
        BY <2>2
    <2> QED  BY <2>1, <2>2
<1>2. Max({a, b}) \in {a, b} /\ \A y \in {a, b} : Max({a, b}) >= y
    BY <1>1 DEF Max
<1> QED  BY <1>2

LEMMA MinOfTwo ==
    ASSUME NEW a \in Int, NEW b \in Int
    PROVE  Min({a, b}) \in {a, b} /\ Min({a, b}) <= a /\ Min({a, b}) <= b
<1>1. \E x \in {a, b} : \A y \in {a, b} : x <= y
    <2>1. CASE a >= b
        BY <2>1
    <2>2. CASE b >= a
        BY <2>2
    <2> QED  BY <2>1, <2>2
<1>2. Min({a, b}) \in {a, b} /\ \A y \in {a, b} : Min({a, b}) <= y
    BY <1>1 DEF Min
<1> QED  BY <1>2

\* A part of a text says nothing that the text does not.
LEMMA PartSays ==
    ASSUME NEW A, NEW s \in Seq(A), NEW m \in Int, NEW n \in Int, m >= 1, n <= Len(s)
    PROVE  ToSet(SubSeq(s, m, n)) \subseteq A
<1>1. SubSeq(s, m, n) \in Seq(A)
    BY SubSeqProperties
<1>2. PICK t : t = SubSeq(s, m, n)
    OBVIOUS
<1>3. \A i \in DOMAIN t : t[i] \in A
    BY <1>1, <1>2
<1> QED  BY <1>2, <1>3 DEF ToSet

LEMMA RecallKeeps ==
    ASSUME NEW A, NEW body \in Seq(A)
    PROVE  ToSet(RecallBody(body)) \subseteq A
<1>1. PICK len \in Nat : len = Len(body)
    OBVIOUS
<1>2. PICK least \in Int : least = len - MaxRecall + 1
    <2>1. MaxRecall \in Nat
        BY NotebookAssumption
    <2> QED  BY <2>1
<1>3. PICK from \in Int : from = Max({1, least}) /\ from >= 1
    <2>0. PICK one \in Int : one = 1
        OBVIOUS
    <2>1. Max({one, least}) \in {one, least} /\ Max({one, least}) >= one
        BY MaxOfTwo
    <2> QED  BY <2>0, <2>1
<1>4. ToSet(SubSeq(body, from, len)) \subseteq A
    BY <1>1, <1>3, PartSays
<1> QED  BY <1>1, <1>2, <1>3, <1>4 DEF RecallBody

LEMMA QueryKeeps ==
    ASSUME NEW A, NEW body \in Seq(A), NEW terms
    PROVE  ToSet(QueryBullets(body, terms, QueryLimit)) \subseteq A
<1> DEFINE H == {line \in ToSet(body) : terms \subseteq Words[line.text]}
<1> HIDE DEF H
<1>1. Bullets(body) \in Seq(A \intersect Fact)
    BY OnlySome DEF Bullets
<1>2. Only(Bullets(body), H) \in Seq((A \intersect Fact) \intersect H)
    BY <1>1, OnlySome
<1>3. PICK hits : hits = Only(Bullets(body), H)
    OBVIOUS
<1>4. hits \in Seq(A)
    BY <1>2, <1>3
<1>5. PICK newest : newest = Reverse(hits)
    OBVIOUS
<1>6. newest \in Seq(A)
    <2>1. PICK len \in Nat : len = Len(hits) /\ DOMAIN hits = 1..len
        BY <1>4
    <2>2. \A i \in 1..len : len - i + 1 \in 1..len
        BY <2>1
    <2>3. \A i \in 1..len : hits[len - i + 1] \in A
        BY <1>4, <2>1, <2>2
    <2>4. newest = [i \in 1..len |-> hits[len - i + 1]]
        BY <1>5, <2>1 DEF Reverse
    <2> QED  BY <2>1, <2>3, <2>4
<1>7. PICK len \in Int : len = Len(newest)
    BY <1>6
<1>8. QueryLimit \in Int
    BY MemoryAssumption
<1>9. PICK to \in Int : to = Min({QueryLimit, len}) /\ to <= len
    BY <1>7, <1>8, MinOfTwo
<1>10. ToSet(SubSeq(newest, 1, to)) \subseteq A
    BY <1>6, <1>7, <1>9, PartSays
<1>11. ToSet(<<>>) \subseteq A
    BY DEF ToSet
<1>12. QueryBullets(body, terms, QueryLimit) = IF terms = {} THEN <<>> ELSE SubSeq(newest, 1, to)
    BY <1>3, <1>5, <1>7, <1>9 DEF QueryBullets, H
<1> QED  BY <1>10, <1>11, <1>12

LEMMA CaptureKeeps ==
    ASSUME NEW A, NEW existing \in Seq(A), NEW B, NEW facts \in Seq(B),
           \A i \in 1..Len(facts) : Stamped(facts[i]) \in A
    PROVE  FoldCapture(existing, facts) \in Seq(A)
<1>1. PICK r \in [0..Len(facts) -> Capturing(existing, facts, A)] :
         FoldCapture(existing, facts) =
             IF r[Len(facts)].lines = existing THEN existing ELSE Trim(r[Len(facts)].lines)
    BY AddUnfolds
<1>2. r[Len(facts)] \in Capturing(existing, facts, A)
    <2>1. Len(facts) \in 0..Len(facts)
        OBVIOUS
    <2> QED  BY <2>1
<1>3. PICK folded \in Seq(A) : folded = r[Len(facts)].lines
    BY <1>2 DEF Capturing
<1>4. PICK u \in [0..Len(folded) -> Trimming(A)] : u[Len(folded)].kept = Trim(folded)
    BY TrimUnfolds
<1>5. u[Len(folded)] \in Trimming(A)
    <2>1. Len(folded) \in 0..Len(folded)
        OBVIOUS
    <2> QED  BY <2>1
<1>6. Trim(folded) \in Seq(A)
    BY <1>4, <1>5 DEF Trimming
<1> QED  BY <1>1, <1>3, <1>6

-----------------------------------------------------------------------------
(* What is heard *)

\* The notebooks that a turn of s recalls.
Near(s) == {s} \union (IF RecallOf(s) = "visible" THEN {Org} ELSE {})

\* What an agent is about to write is its fold of the document it read.
Captured(writer) ==
    /\ writer.base \in Seq(LinesOf(writer.scope))
    /\ \E facts \in Captures[writer.scope] : writer.content = FoldCapture(writer.base, facts)
    /\ writer.content # writer.base

\* A writer was told the lines of its own notebooks, will be told no others, and
\* writes lines of the notebook.
Heeds(w, writer) ==
    /\ writer.heard \subseteq (IF writer.pc = "idle" THEN {} ELSE HeardFrom(writer.scope))
    /\ writer.onboards => writer.scope \in Personal
    /\ writer.unread \in Seq(Near(writer.scope))
    /\ writer.pc = "write" => writer.content \in Seq(LinesOf(writer.scope))
    /\ w \in Agents => writer.pc # "page" /\ (writer.pc = "write" => Captured(writer))

HeardInv ==
    /\ \A s \in Scopes : docs[s] \in Seq(LinesOf(s))
    /\ \A s \in Scopes : \A content \in Contents(s) : content \in Seq(LinesOf(s))
    /\ \A w \in Writers : Heeds(w, writers[w])

\* What may stand in a notebook: lines.
LEMMA LinesAreLines == ASSUME NEW s \in Scopes PROVE LinesOf(s) \subseteq Line
<1>1. Header \in Line
    BY NotebookAssumption DEF Header, Line
<1>2. ASSUME NEW draft \in Drafts[s] PROVE ToSet(draft) \subseteq Line
    <2>1. draft \in Seq(Line)
        BY MemoryAssumption DEF Document
    <2>2. \A i \in DOMAIN draft : draft[i] \in Line
        BY <2>1
    <2> QED  BY <2>2 DEF ToSet
<1>3. ASSUME NEW facts \in Captures[s], NEW fact \in ToSet(facts) PROVE Stamped(fact) \in Line
    <2>1. facts \in Seq(Fact)
        BY MemoryAssumption
    <2>2. \A i \in DOMAIN facts : facts[i] \in Fact
        BY <2>1
    <2>3. fact \in Line
        BY <2>2 DEF ToSet, Fact
    <2> QED  BY <2>3 DEF Stamped, Line
<1> QED  BY <1>1, <1>2, <1>3 DEF LinesOf

LEMMA HeaderIsALine == ASSUME NEW s PROVE EmptyDocument \in Seq(LinesOf(s))
<1>1. Header \in LinesOf(s)
    BY DEF LinesOf
<1> QED  BY <1>1 DEF EmptyDocument

\* A draft says lines of its notebook.
LEMMA DraftsSay == ASSUME NEW s \in Scopes, NEW draft \in Drafts[s] PROVE draft \in Seq(LinesOf(s))
<1>1. draft \in Seq(Line)
    BY MemoryAssumption DEF Document
<1>2. \A i \in DOMAIN draft : draft[i] \in LinesOf(s)
    BY DEF LinesOf, ToSet
<1> QED  BY <1>1, <1>2

\* So does a capture.
LEMMA CapturesSay ==
    ASSUME NEW s \in Scopes, NEW facts \in Captures[s], NEW existing \in Seq(LinesOf(s))
    PROVE  FoldCapture(existing, facts) \in Seq(LinesOf(s))
<1>1. facts \in Seq(Fact)
    BY MemoryAssumption
<1>2. ASSUME NEW i \in 1..Len(facts) PROVE Stamped(facts[i]) \in LinesOf(s)
    <2>1. facts[i] \in ToSet(facts)
        BY <1>1 DEF ToSet
    <2> QED  BY <2>1 DEF LinesOf
<1> QED  BY <1>1, <1>2, CaptureKeeps

\* The notebooks near a scope are recalled, and may be heard.
LEMMA NearIsHeard ==
    ASSUME NEW s \in Scopes
    PROVE  /\ RecallScopes(s) \in Seq(Near(s))
           /\ Near(s) \subseteq Scopes
           /\ \A t \in Near(s) : LinesOf(t) \subseteq HeardFrom(s)
<1>1. RecallOf(s) \in {"off", "writable", "visible"}
    BY DEF RecallOf, ParseRecall
<1>2. Org \in Scopes
    BY MemoryAssumption
<1>3. RecallScopes(s) \in Seq(Near(s))
    <2>1. CASE RecallOf(s) = "off"
        <3>1. RecallScopes(s) = <<>>
            BY <2>1 DEF RecallScopes
        <3> QED  BY <3>1
    <2>2. CASE RecallOf(s) # "off" /\ (RecallOf(s) = "writable" \/ s = Org)
        <3>1. RecallScopes(s) = <<s>>
            BY <2>2 DEF RecallScopes
        <3>2. s \in Near(s)
            BY DEF Near
        <3> QED  BY <3>1, <3>2
    <2>3. CASE RecallOf(s) = "visible" /\ s # Org
        <3>1. RecallScopes(s) = <<s, Org>>
            BY <2>3 DEF RecallScopes
        <3>2. s \in Near(s) /\ Org \in Near(s)
            BY <2>3 DEF Near
        <3> QED  BY <3>1, <3>2
    <2> QED  BY <1>1, <2>1, <2>2, <2>3
<1> QED  BY <1>2, <1>3 DEF Near, HeardFrom

\* A step that reads notebooks and moves one writer on.
LEMMA HeardMoves ==
    ASSUME MemInv, HeardInv, NEW w \in Writers, NEW writer, Heeds(w, writer),
           writers' = [writers EXCEPT ![w] = writer], UNCHANGED <<setting, docs, revisions>>
    PROVE  HeardInv'
<1>1. \A s : Near(s)' = Near(s) /\ HeardFrom(s)' = HeardFrom(s)
    BY DEF Near, HeardFrom, RecallOf, Configured
<1>2. \A v, row : Heeds(v, row)' <=> Heeds(v, row)
    BY <1>1 DEF Heeds
<1>3. \A v \in Writers : writers'[v] = IF v = w THEN writer ELSE writers[v]
    BY DEF MemInv, TablesOK
<1>4. \A v \in Writers : Heeds(v, writers'[v])
    BY <1>3 DEF HeardInv
<1>5. \A v \in Writers : Heeds(v, writers[v])'
    BY <1>2, <1>4 DEF Heeds, Near, HeardFrom, RecallOf, Configured
<1>6. (\A s \in Scopes : \A content \in Contents(s) : content \in Seq(LinesOf(s)))'
    BY DEF HeardInv, Contents
<1>7. (\A s \in Scopes : docs[s] \in Seq(LinesOf(s)))'
    BY DEF HeardInv
<1> QED  BY <1>5, <1>6, <1>7 DEF HeardInv

\* An idle writer was told nothing.
LEMMA IdleHeeds == ASSUME NEW w PROVE Heeds(w, Idle)
BY DEF Heeds, Idle

LEMMA InitHeard == Init => HeardInv
<1> SUFFICES ASSUME Init PROVE HeardInv
    OBVIOUS
<1>1. \A s \in Scopes : docs[s] \in Seq(LinesOf(s))
    BY HeaderIsALine DEF Init
<1>2. \A s \in Scopes : \A content \in Contents(s) : content \in Seq(LinesOf(s))
    <2> TAKE s \in Scopes
    <2>1. revisions[s] = <<>>
        BY DEF Init
    <2>2. Contents(s) = {}
        BY <2>1 DEF Contents, ToSet
    <2> QED  BY <2>2
<1>3. \A w \in Writers : Heeds(w, writers[w])
    BY IdleHeeds DEF Init
<1> QED  BY <1>1, <1>2, <1>3 DEF HeardInv

LEMMA HeardEnds ==
    ASSUME MemInv, HeardInv, NEW w \in Writers, End(w), UNCHANGED <<setting, docs, revisions>>
    PROVE  HeardInv'
BY IdleHeeds, HeardMoves DEF End

\* A writer is told lines that it may be told.
LEMMA Told ==
    ASSUME MemInv, HeardInv, NEW w \in Writers, NEW lines,
           writers[w].pc \in {"prompt", "run", "query"},
           lines \subseteq HeardFrom(writers[w].scope)
    PROVE  Heeds(w, Hear(w, lines))
<1>1. WriterOK(writers[w]) /\ Heeds(w, writers[w])
    BY DEF MemInv, HeardInv
<1> DEFINE told == Hear(w, lines)
<1>2. /\ told.pc = writers[w].pc /\ told.scope = writers[w].scope /\ told.onboards = writers[w].onboards
      /\ told.unread = writers[w].unread /\ told.heard = writers[w].heard \union lines
    BY <1>1 DEF Hear, WriterOK
<1> HIDE DEF told
<1> QED  BY <1>1, <1>2 DEF Heeds, told

\* And goes on to the next notebook.
LEMMA ToldOf ==
    ASSUME MemInv, HeardInv, NEW w \in Writers, NEW lines,
           writers[w].pc \in {"prompt", "run", "query"},
           lines \subseteq HeardFrom(writers[w].scope),
           writers[w].unread # <<>>
    PROVE  Heeds(w, [Hear(w, lines) EXCEPT !.unread = Tail(@)])
<1>1. WriterOK(writers[w]) /\ Heeds(w, writers[w])
    BY DEF MemInv, HeardInv
<1> DEFINE told == [Hear(w, lines) EXCEPT !.unread = Tail(@)]
<1>2. /\ told.pc = writers[w].pc /\ told.scope = writers[w].scope /\ told.onboards = writers[w].onboards
      /\ told.unread = Tail(writers[w].unread) /\ told.heard = writers[w].heard \union lines
    BY <1>1 DEF Hear, WriterOK
<1> HIDE DEF told
<1>3. Tail(writers[w].unread) \in Seq(Near(writers[w].scope))
    <2>1. ASSUME NEW A, NEW q \in Seq(A), q # <<>> PROVE Tail(q) \in Seq(A)
        BY <2>1
    <2>2. writers[w].unread \in Seq(Near(writers[w].scope))
        BY <1>1 DEF Heeds
    <2> QED  BY <2>1, <2>2
<1> QED  BY <1>1, <1>2, <1>3 DEF Heeds, told

\* Everything of a turn but the write.
LEMMA TurnHeeds ==
    ASSUME MemInv, HeardInv, NEW w \in Agents,
           \/ \E s \in Scopes : StartTurn(w, s)
           \/ RecallScope(w) \/ Onboard(w) \/ MemoryTool(w) \/ QueryScope(w) \/ EndTurn(w)
    PROVE  HeardInv'
<1> w \in Writers
    BY DEF Writers
<1>0. WriterOK(writers[w]) /\ Heeds(w, writers[w])
    BY DEF MemInv, HeardInv
<1>a. PICK s0 : s0 = writers[w].scope
    OBVIOUS
\* The notebook on which a turn is next is one it may hear.
<1>b. ASSUME writers[w].pc # "idle", writers[w].unread # <<>>
      PROVE  LinesOf(Head(writers[w].unread)) \subseteq HeardFrom(s0)
             /\ docs[Head(writers[w].unread)] \in Seq(LinesOf(Head(writers[w].unread)))
    <2>1. ASSUME NEW A, NEW q \in Seq(A), q # <<>> PROVE Head(q) \in A
        BY <2>1
    <2>2. writers[w].unread \in Seq(Near(s0)) /\ s0 \in Scopes
        BY <1>0, <1>a, <1>b DEF Heeds, WriterOK
    <2>3. Head(writers[w].unread) \in Near(s0)
        BY <1>b, <2>1, <2>2
    <2> QED  BY <2>2, <2>3, NearIsHeard DEF HeardInv
<1>1. ASSUME NEW s \in Scopes, StartTurn(w, s) PROVE HeardInv'
    <2> DEFINE started == [Idle EXCEPT !.pc = "prompt", !.scope = s, !.unread = RecallScopes(s)]
    <2>1. /\ started.pc = "prompt" /\ started.scope = s /\ started.unread = RecallScopes(s)
          /\ started.heard = {} /\ started.onboards = FALSE
        BY DEF Idle
    <2>2. writers' = [writers EXCEPT ![w] = started] /\ UNCHANGED <<setting, docs, revisions>>
        BY <1>1 DEF StartTurn
    <2> HIDE DEF started
    <2>3. Heeds(w, started)
        BY <2>1, NearIsHeard DEF Heeds
    <2> QED  BY <2>2, <2>3, HeardMoves
<1>2. CASE RecallScope(w)
    <2> DEFINE body == RecallBody(docs[Head(writers[w].unread)])
               lines == IF Bullets(body) = <<>> THEN {} ELSE ToSet(body)
               told == [Hear(w, lines) EXCEPT !.unread = Tail(@)]
    <2>1. /\ writers' = [writers EXCEPT ![w] = told] /\ UNCHANGED <<setting, docs, revisions>>
          /\ writers[w].pc = "prompt" /\ writers[w].unread # <<>>
        BY <1>2 DEF RecallScope, At
    <2>2. ToSet(body) \subseteq HeardFrom(s0)
        BY <1>b, <2>1, RecallKeeps
    <2>3. lines \subseteq HeardFrom(writers[w].scope)
        BY <1>a, <2>2
    <2> HIDE DEF lines
    <2>4. Heeds(w, told)
        BY <2>1, <2>3, ToldOf
    <2> HIDE DEF told
    <2> QED  BY <2>1, <2>4, HeardMoves
<1>3. CASE Onboard(w)
    <2> DEFINE outstanding == IsOutstanding(DetectStatus(docs[writers[w].scope]))
               onboards == writers[w].scope \in Personal /\ outstanding
               shown == [writers[w] EXCEPT !.pc = "run", !.onboards = onboards]
    <2>1. /\ writers' = [writers EXCEPT ![w] = shown] /\ UNCHANGED <<setting, docs, revisions>>
          /\ writers[w].pc = "prompt"
        BY <1>3 DEF Onboard, At, MemInv, TablesOK
    <2>2. onboards => writers[w].scope \in Personal
        OBVIOUS
    <2> HIDE DEF onboards
    <2>3. /\ shown.pc = "run" /\ shown.scope = writers[w].scope /\ shown.unread = writers[w].unread
          /\ shown.heard = writers[w].heard /\ shown.onboards = onboards
        BY <1>0 DEF WriterOK
    <2> HIDE DEF shown
    <2>4. Heeds(w, shown)
        BY <1>0, <2>1, <2>2, <2>3 DEF Heeds
    <2> QED  BY <2>1, <2>4, HeardMoves
<1>4. CASE MemoryTool(w)
    <2>0. /\ writers[w].pc = "run" /\ UNCHANGED <<setting, docs, revisions>>
          /\ \/ \E facts \in Captures[writers[w].scope] : Capture(w, facts)
             \/ \E terms \in Queries :
                   writers' = [writers EXCEPT ![w].pc = "query", ![w].terms = terms,
                                              ![w].unread = RecallScopes(writers[w].scope)]
             \/ writers' = [writers EXCEPT ![w] = Hear(w, ToSet(RecallBody(docs[writers[w].scope])))]
        BY <1>4 DEF MemoryTool, At
    <2>a. s0 \in Scopes /\ docs[s0] \in Seq(LinesOf(s0))
        BY <1>0, <1>a, <2>0 DEF WriterOK, HeardInv
    <2>1. ASSUME NEW facts \in Captures[writers[w].scope], Capture(w, facts) PROVE HeardInv'
        <3>0. PICK body : body = FoldCapture(docs[s0], facts)
            OBVIOUS
        <3> DEFINE captured == [writers[w] EXCEPT !.pc = "write", !.base = docs[s0],
                                                  !.content = body, !.operation = "capture"]
        <3>1. writers' = [writers EXCEPT ![w] = captured] /\ body # docs[s0]
            BY <2>1, <3>0, <1>a DEF Capture
        <3>2. /\ captured.pc = "write" /\ captured.scope = s0 /\ captured.unread = writers[w].unread
              /\ captured.heard = writers[w].heard /\ captured.onboards = writers[w].onboards
              /\ captured.base = docs[s0] /\ captured.content = body
            BY <1>0, <1>a DEF WriterOK
        <3> HIDE DEF captured
        <3>3. body \in Seq(LinesOf(s0))
            BY <1>a, <2>a, <3>0, CapturesSay
        <3>4. Captured(captured)
            BY <1>a, <2>a, <3>0, <3>1, <3>2 DEF Captured
        <3>5. Heeds(w, captured)
            BY <1>0, <1>a, <2>0, <3>2, <3>3, <3>4 DEF Heeds
        <3> QED  BY <2>0, <3>1, <3>5, HeardMoves
    <2>2. ASSUME NEW terms, writers' = [writers EXCEPT ![w].pc = "query", ![w].terms = terms,
                                               ![w].unread = RecallScopes(writers[w].scope)]
          PROVE  HeardInv'
        <3>0. PICK unread : unread = RecallScopes(writers[w].scope)
            OBVIOUS
        <3> DEFINE asked == [writers[w] EXCEPT !.pc = "query", !.terms = terms, !.unread = unread]
        <3>1. writers' = [writers EXCEPT ![w] = asked]
            BY <2>2, <3>0 DEF MemInv, TablesOK
        <3>2. /\ asked.pc = "query" /\ asked.scope = s0 /\ asked.unread = unread
              /\ asked.heard = writers[w].heard /\ asked.onboards = writers[w].onboards
            BY <1>0, <1>a DEF WriterOK
        <3> HIDE DEF asked
        <3>3. unread \in Seq(Near(s0))
            BY <1>a, <2>a, <3>0, NearIsHeard
        <3>4. Heeds(w, asked)
            BY <1>0, <1>a, <2>0, <3>2, <3>3 DEF Heeds
        <3> QED  BY <2>0, <3>1, <3>4, HeardMoves
    <2>3. CASE writers' = [writers EXCEPT ![w] = Hear(w, ToSet(RecallBody(docs[writers[w].scope])))]
        <3> DEFINE lines == ToSet(RecallBody(docs[writers[w].scope]))
        <3>1. lines \subseteq LinesOf(s0)
            BY <1>a, <2>a, RecallKeeps
        <3> HIDE DEF lines
        <3>2. lines \subseteq HeardFrom(writers[w].scope)
            BY <1>a, <3>1 DEF HeardFrom
        <3>3. writers[w].pc \in {"prompt", "run", "query"}
            BY <2>0
        <3>4. Heeds(w, Hear(w, lines))
            BY <3>2, <3>3, Told
        <3> QED  BY <2>0, <2>3, <3>4, HeardMoves DEF lines
    <2> QED  BY <2>0, <2>1, <2>2, <2>3
<1>5. CASE QueryScope(w)
    <2> DEFINE lines == ToSet(QueryBullets(docs[Head(writers[w].unread)], writers[w].terms, QueryLimit))
               over == [writers[w] EXCEPT !.pc = "run", !.terms = {}]
               told == [Hear(w, lines) EXCEPT !.unread = Tail(@)]
    <2>1. /\ writers' = [writers EXCEPT ![w] = IF writers[w].unread = <<>> THEN over ELSE told]
          /\ UNCHANGED <<setting, docs, revisions>> /\ writers[w].pc = "query"
        BY <1>5 DEF QueryScope, At
    <2>2. ASSUME writers[w].unread # <<>> PROVE Heeds(w, told)
        <3>1. lines \subseteq HeardFrom(s0)
            BY <1>b, <2>1, <2>2, QueryKeeps
        <3> HIDE DEF lines
        <3> QED  BY <1>a, <2>1, <2>2, <3>1, ToldOf
    <2> HIDE DEF lines
    <2>3. Heeds(w, over)
        <3>1. /\ over.pc = "run" /\ over.scope = writers[w].scope /\ over.unread = writers[w].unread
              /\ over.heard = writers[w].heard /\ over.onboards = writers[w].onboards
            BY <1>0 DEF WriterOK
        <3> HIDE DEF over
        <3> QED  BY <1>0, <2>1, <3>1 DEF Heeds
    <2> HIDE DEF over, told
    <2> QED  BY <2>1, <2>2, <2>3, HeardMoves
<1>6. CASE EndTurn(w)
    BY <1>6, HeardEnds DEF EndTurn
<1> QED  BY <1>1, <1>2, <1>3, <1>4, <1>5, <1>6

\* Everything of a page but the write.
LEMMA PageHeeds ==
    ASSUME MemInv, HeardInv, NEW w \in Editors,
           (\E s \in Scopes : OpenPage(w, s)) \/ ClosePage(w) \/ Submit(w)
    PROVE  HeardInv'
<1> w \in Writers
    BY DEF Writers
<1>0. WriterOK(writers[w]) /\ Heeds(w, writers[w]) /\ w \notin Agents
    BY MemoryAssumption DEF MemInv, HeardInv
<1>1. ASSUME NEW s \in Scopes, OpenPage(w, s) PROVE HeardInv'
    <2> DEFINE opened == [Idle EXCEPT !.pc = "page", !.scope = s, !.base = docs[s]]
    <2>1. /\ opened.pc = "page" /\ opened.scope = s /\ opened.unread = <<>>
          /\ opened.heard = {} /\ opened.onboards = FALSE
        BY DEF Idle
    <2>2. writers' = [writers EXCEPT ![w] = opened] /\ UNCHANGED <<setting, docs, revisions>>
        BY <1>1 DEF OpenPage
    <2> HIDE DEF opened
    <2>3. Heeds(w, opened)
        BY <1>0, <2>1 DEF Heeds
    <2> QED  BY <2>2, <2>3, HeardMoves
<1>2. CASE ClosePage(w)
    BY <1>2, HeardEnds DEF ClosePage
<1>3. CASE Submit(w)
    <2>0. /\ writers[w].pc = "page" /\ UNCHANGED <<setting, docs, revisions>>
          /\ \/ \E draft \in Drafts[writers[w].scope] : Save(w, draft)
             \/ \E s \in Scopes : \E revision \in Contents(s) : Restore(w, revision)
        BY <1>3 DEF Submit, At
    <2>a. writers[w].scope \in Scopes
        BY <1>0, <2>0 DEF WriterOK
    <2>1. ASSUME NEW content, NEW operation, Goto(w, "write", content, operation),
                 content \in Seq(LinesOf(writers[w].scope))
          PROVE  HeardInv'
        <3> DEFINE submitted ==
                [writers[w] EXCEPT !.pc = "write", !.content = content, !.operation = operation]
        <3>1. writers' = [writers EXCEPT ![w] = submitted]
            BY <2>1 DEF Goto, MemInv, TablesOK
        <3>2. /\ submitted.pc = "write" /\ submitted.scope = writers[w].scope
              /\ submitted.unread = writers[w].unread /\ submitted.heard = writers[w].heard
              /\ submitted.onboards = writers[w].onboards /\ submitted.content = content
            BY <1>0 DEF WriterOK
        <3> HIDE DEF submitted
        <3>3. Heeds(w, submitted)
            BY <1>0, <2>0, <2>1, <3>2 DEF Heeds
        <3> QED  BY <2>0, <3>1, <3>3, HeardMoves
    <2>2. ASSUME NEW draft \in Drafts[writers[w].scope], Save(w, draft) PROVE HeardInv'
        <3>1. Goto(w, "write", draft, "replace") \/ End(w)
            BY <2>2 DEF Save
        <3>2. CASE Goto(w, "write", draft, "replace")
            BY <3>2, <2>1, <2>a, DraftsSay
        <3> QED  BY <2>0, <3>1, <3>2, HeardEnds
    <2>3. ASSUME NEW revision, Restore(w, revision) PROVE HeardInv'
        <3>1. \/ revision \in Contents(writers[w].scope) /\ Goto(w, "write", revision, "restore")
              \/ End(w)
            BY <2>3 DEF Restore, Restorable
        <3>2. CASE revision \in Contents(writers[w].scope) /\ Goto(w, "write", revision, "restore")
            BY <3>2, <2>1, <2>a DEF HeardInv
        <3> QED  BY <2>0, <3>1, <3>2, HeardEnds
    <2> QED  BY <2>0, <2>2, <2>3
<1> QED  BY <1>1, <1>2, <1>3

\* The write.
LEMMA WriteHeeds ==
    ASSUME MemInv, HeardInv, NEW w \in Writers, WriteRevision(w)
    PROVE  HeardInv'
<1> PICK t : t = writers[w].scope
    OBVIOUS
<1> DEFINE row == Row(writers[w].content, writers[w].operation)
<1>0. /\ WriterOK(writers[w]) /\ Heeds(w, writers[w])
      /\ writers[w].pc = "write" /\ t \in Scopes
      /\ docs' = [docs EXCEPT ![t] = writers[w].content]
      /\ revisions' = [revisions EXCEPT ![t] = Append(revisions[t], row)]
      /\ Written(w) /\ setting' = setting
    BY DEF MemInv, HeardInv, WriterOK, WriteRevision, At
<1>1. row.content = writers[w].content
    BY DEF Row
<1> HIDE DEF row
<1>2. writers[w].content \in Seq(LinesOf(t))
    BY <1>0 DEF Heeds
<1>3. (\A s \in Scopes : docs[s] \in Seq(LinesOf(s)))'
    BY <1>0, <1>2 DEF HeardInv, MemInv, TablesOK
<1>4. /\ revisions'[t] = Append(revisions[t], row)
      /\ \A s \in Scopes \ {t} : revisions'[s] = revisions[s]
    BY <1>0 DEF MemInv, TablesOK
<1>5. ASSUME NEW s \in Scopes, NEW content \in Contents(s)' PROVE content \in Seq(LinesOf(s))
    <2>1. CASE s # t
        BY <2>1, <1>4 DEF HeardInv, Contents
    <2>2. CASE s = t
        <3>1. PICK rows : rows = revisions[t]
            OBVIOUS
        <3>2. /\ DOMAIN rows = 1..Len(rows) /\ Len(rows) \in Nat
              /\ DOMAIN Append(rows, row) = 1..Len(rows) + 1
              /\ \A i \in 1..Len(rows) : Append(rows, row)[i] = rows[i]
              /\ Append(rows, row)[Len(rows) + 1] = row
            BY <1>0, <3>1, AppendHistory DEF MemInv
        <3>3. PICK longer : longer = revisions'[t]
            OBVIOUS
        <3>4. PICK i \in DOMAIN longer : longer[i].content = content
            BY <2>2, <3>3 DEF Contents, ToSet
        <3>5. CASE i \in 1..Len(rows)
            <4>1. i \in DOMAIN revisions[t] /\ revisions[t][i].content = content
                BY <3>1, <3>2, <3>3, <3>4, <3>5, <1>4
            <4>2. content \in Contents(t)
                BY <4>1, ContentsAre
            <4> QED  BY <4>2, <2>2 DEF HeardInv
        <3>6. CASE i = Len(rows) + 1
            BY <3>1, <3>2, <3>3, <3>4, <3>6, <1>1, <1>2, <1>4, <2>2
        <3> QED  BY <3>1, <3>2, <3>3, <3>4, <3>5, <3>6, <1>4
    <2> QED  BY <2>1, <2>2
<1>6. \A v, was : Heeds(v, was)' <=> Heeds(v, was)
    BY <1>0 DEF Heeds, Near, HeardFrom, RecallOf, Configured
<1>7. ASSUME NEW v \in Writers PROVE Heeds(v, writers'[v])
    <2> DEFINE after == [writers[w] EXCEPT !.pc = "run", !.base = <<>>, !.content = <<>>, !.operation = ""]
    <2>1. writers'[v] = writers[v] \/ (v = w /\ writers'[v] = after) \/ writers'[v] = Idle
        BY <1>0 DEF Written, MemInv, TablesOK
    <2>2. CASE v = w /\ writers'[v] = after
        <3>1. /\ after.pc = "run" /\ after.scope = t /\ after.unread = writers[w].unread
              /\ after.heard = writers[w].heard /\ after.onboards = writers[w].onboards
            BY <1>0 DEF WriterOK
        <3> HIDE DEF after
        <3> QED  BY <3>1, <2>2, <1>0 DEF Heeds
    <2>3. CASE writers'[v] = Idle
        BY <2>3, IdleHeeds
    <2>4. CASE writers'[v] = writers[v]
        BY <2>4 DEF HeardInv
    <2> QED  BY <2>1, <2>2, <2>3, <2>4
<1>8. ASSUME NEW v \in Writers PROVE Heeds(v, writers[v])'
    BY <1>0, <1>7 DEF Heeds, Near, HeardFrom, RecallOf, Configured
<1> QED  BY <1>3, <1>5, <1>8 DEF HeardInv

LEMMA StepHeard == MemInv /\ HeardInv /\ [Next]_vars => HeardInv'
<1> SUFFICES ASSUME MemInv, HeardInv, [Next]_vars PROVE HeardInv'
    OBVIOUS
<1>1. CASE Next
    BY <1>1, TurnHeeds, PageHeeds, WriteHeeds DEF Next
<1>2. CASE UNCHANGED vars
    <2>1. ASSUME NEW v \in Writers PROVE Heeds(v, writers[v])'
        BY <1>2 DEF HeardInv, vars, Heeds, Near, HeardFrom, RecallOf, Configured
    <2>2. (\A s \in Scopes : docs[s] \in Seq(LinesOf(s)))'
        BY <1>2 DEF HeardInv, vars
    <2>3. (\A s \in Scopes : \A content \in Contents(s) : content \in Seq(LinesOf(s)))'
        BY <1>2 DEF HeardInv, vars, Contents
    <2> QED  BY <2>1, <2>2, <2>3 DEF HeardInv
<1> QED  BY <1>1, <1>2

LEMMA HeardHolds == Spec => [](MemInv /\ HeardInv)
BY InitInv, StepInv, InitHeard, StepHeard, PTL DEF Spec

-----------------------------------------------------------------------------
(* What a fold makes of a notebook *)

\* Bullets and prose are lines.
LEMMA Parts ==
    ASSUME NEW s \in Seq(Line)
    PROVE  /\ Bullets(s) \in Seq(Line) /\ Prose(s) \in Seq(Line)
           /\ \A i \in DOMAIN Bullets(s) : Bullets(s)[i] \in Fact
<1>1. Bullets(s) \in Seq(Line \intersect Fact) /\ Prose(s) \in Seq(Line \intersect (Line \ Fact))
    BY OnlySome DEF Bullets, Prose
<1>2. ASSUME NEW A, NEW B, NEW q \in Seq(A \intersect B) PROVE q \in Seq(A) /\ \A i \in DOMAIN q : q[i] \in B
    BY <1>2
<1> QED  BY <1>1, <1>2

\* Nothing has neither.
LEMMA PartsOfNone == Bullets(<<>>) = <<>> /\ Prose(<<>>) = <<>>
BY OnlyOfNone DEF Bullets, Prose

\* A line more is one or the other.
LEMMA PartsOfAppend ==
    ASSUME NEW s \in Seq(Line), NEW x \in Line
    PROVE  /\ IsBullet(x) => Bullets(Append(s, x)) = Append(Bullets(s), x) /\ Prose(Append(s, x)) = Prose(s)
           /\ ~IsBullet(x) => Bullets(Append(s, x)) = Bullets(s) /\ Prose(Append(s, x)) = Append(Prose(s), x)
<1>1. Bullets(Append(s, x)) = IF x \in Fact THEN Append(Bullets(s), x) ELSE Bullets(s)
    BY OnlyOfAppend DEF Bullets
<1>2. Prose(Append(s, x)) = IF x \in Line \ Fact THEN Append(Prose(s), x) ELSE Prose(s)
    BY OnlyOfAppend DEF Prose
<1>3. IsBullet(x) <=> x \in Fact
    BY DEF IsBullet, Fact
<1> QED  BY <1>1, <1>2, <1>3

\* What holds of the lines of a text holds of the bullets, and every bullet is one.
LEMMA BulletsHaveAll ==
    ASSUME NEW s \in Seq(Line), NEW j \in 1..Len(s), IsBullet(s[j])
    PROVE  \E i \in DOMAIN Bullets(s) : Bullets(s)[i] = s[j]
<1>1. PICK r \in [0..Len(s) -> Seq(Line \intersect Fact)] : Keeps(r, s, Fact) /\ r[Len(s)] = Bullets(s)
    BY OnlyExists DEF Bullets
<1>2. PICK len \in Nat : len = Len(s)
    OBVIOUS
<1> DEFINE x == s[j]
           Has(k) == \E i \in DOMAIN r[k] : r[k][i] = x
           Without == {k \in j..len : ~Has(k)}
<1>3. x \in Fact
    BY DEF Fact, IsBullet
<1> HIDE DEF x
<1> PICK B : B = Line \intersect Fact
    OBVIOUS
<1>4. ASSUME NEW q \in Seq(B), NEW y \in B
      PROVE  /\ Append(q, y)[Len(q) + 1] = y /\ Len(q) + 1 \in DOMAIN Append(q, y)
             /\ \A i \in DOMAIN q : i \in DOMAIN Append(q, y) /\ Append(q, y)[i] = q[i]
    BY <1>4
<1>5. ASSUME NEW k \in 1..len
      PROVE  /\ r[k-1] \in Seq(B) /\ s[k] \in Line
             /\ s[k] \in Fact => r[k] = Append(r[k-1], s[k])
             /\ s[k] \notin Fact => r[k] = r[k-1]
    <2>1. k - 1 \in 0..len
        OBVIOUS
    <2>2. r[k-1] \in Seq(B) /\ s[k] \in Line
        BY <2>1, <1>1, <1>2
    <2>3. r[k] = IF s[k] \in Fact THEN Append(r[k-1], s[k]) ELSE r[k-1]
        BY <1>1, <1>2 DEF Keeps
    <2> QED  BY <2>2, <2>3
<1>6. Has(j)
    <2>1. r[j] = Append(r[j-1], x) /\ r[j-1] \in Seq(B) /\ x \in B
        BY <1>2, <1>3, <1>5 DEF x
    <2> QED  BY <2>1, <1>4
<1>7. ASSUME NEW k \in 1..len, Has(k-1) PROVE Has(k)
    <2>1. PICK i \in DOMAIN r[k-1] : r[k-1][i] = x
        BY <1>7
    <2>2. CASE s[k] \in Fact
        <3>1. s[k] \in B
            BY <2>2, <1>5
        <3>2. i \in DOMAIN Append(r[k-1], s[k]) /\ Append(r[k-1], s[k])[i] = r[k-1][i]
            BY <3>1, <1>4, <1>5
        <3> QED  BY <2>1, <2>2, <3>2, <1>5
    <2>3. CASE s[k] \notin Fact
        BY <2>1, <2>3, <1>5
    <2> QED  BY <2>2, <2>3
<1> HIDE DEF Has
<1>8. Without = {}
    <2> SUFFICES ASSUME Without # {} PROVE FALSE
        OBVIOUS
    <2>1. Without \in SUBSET Nat
        BY <1>2
    <2> HIDE DEF Without
    <2>2. PICK k \in Without : \A u \in Without : k <= u
        BY <2>1, LeastElement
    <2>3. k \in j..len /\ ~Has(k)
        BY <2>2 DEF Without
    <2>4. k # j
        BY <2>3, <1>6
    <2>5. k \in 1..len /\ k - 1 \in j..len /\ k - 1 < k /\ k - 1 \in Nat
        BY <2>3, <2>4, <1>2
    <2>6. k - 1 \notin Without
        BY <2>1, <2>2, <2>5
    <2>7. Has(k - 1)
        BY <2>5, <2>6 DEF Without
    <2> QED  BY <2>3, <2>5, <2>7, <1>7
<1>9. Has(len)
    <2>1. len \in j..len
        BY <1>2
    <2> QED  BY <2>1, <1>8
<1> QED  BY <1>1, <1>2, <1>9 DEF Has, x

\* How often a line stands in a text.
LEMMA TimesOfNone == ASSUME NEW line PROVE Times(line, <<>>) = 0
<1>1. {i \in DOMAIN <<>> : <<>>[i] = line} = {}
    OBVIOUS
<1> QED  BY <1>1, FS_EmptySet DEF Times

LEMMA TimesOfAppend ==
    ASSUME NEW s \in Seq(Line), NEW x \in Line, NEW line
    PROVE  /\ Times(line, s) \in Nat
           /\ x = line => Times(line, Append(s, x)) = Times(line, s) + 1
           /\ x # line => Times(line, Append(s, x)) = Times(line, s)
<1>1. PICK len \in Nat : len = Len(s) /\ DOMAIN s = 1..len
    OBVIOUS
<1>2. PICK t : t = Append(s, x)
    OBVIOUS
<1>3. /\ DOMAIN t = 1..(len + 1) /\ t[len + 1] = x
      /\ \A i \in 1..len : t[i] = s[i]
    BY <1>1, <1>2
<1>4. PICK P : P = {i \in DOMAIN s : s[i] = line}
    OBVIOUS
<1>5. IsFiniteSet(P) /\ Cardinality(P) \in Nat
    <2>1. IsFiniteSet(1..len)
        BY FS_Interval, <1>1
    <2>2. P \subseteq 1..len
        BY <1>1, <1>4
    <2>3. IsFiniteSet(P)
        BY <2>1, <2>2, FS_Subset
    <2> QED  BY <2>3, FS_CardinalityType
<1>6. ASSUME x = line PROVE Times(line, t) = Cardinality(P) + 1
    <2>1. {i \in DOMAIN t : t[i] = line} = P \union {len + 1}
        BY <1>1, <1>3, <1>4, <1>6
    <2>2. len + 1 \notin P
        BY <1>1, <1>4
    <2>3. Cardinality(P \union {len + 1}) = Cardinality(P) + 1
        BY <1>5, <2>2, FS_AddElement
    <2> QED  BY <2>1, <2>3 DEF Times
<1>7. ASSUME x # line PROVE Times(line, t) = Cardinality(P)
    <2>1. {i \in DOMAIN t : t[i] = line} = P
        BY <1>1, <1>3, <1>4, <1>7
    <2> QED  BY <2>1 DEF Times
<1>8. Times(line, s) = Cardinality(P)
    BY <1>4 DEF Times
<1> QED  BY <1>2, <1>5, <1>6, <1>7, <1>8

\* A line that is nowhere.
LEMMA TimesOfAbsent ==
    ASSUME NEW s \in Seq(Line), NEW line, \A i \in 1..Len(s) : s[i] # line
    PROVE  Times(line, s) = 0
<1>1. {i \in DOMAIN s : s[i] = line} = {}
    OBVIOUS
<1> QED  BY <1>1, FS_EmptySet DEF Times

\* The first lines of a text.
LEMMA Firsts ==
    ASSUME NEW s \in Seq(Line)
    PROVE  /\ SubSeq(s, 1, 0) = <<>>
           /\ SubSeq(s, 1, Len(s)) = s
           /\ \A i \in 1..Len(s) : /\ SubSeq(s, 1, i - 1) \in Seq(Line)
                                   /\ SubSeq(s, 1, i) = Append(SubSeq(s, 1, i - 1), s[i])
<1>1. SubSeq(s, 1, 0) = <<>>
    BY SubSeqEmpty
<1>2. SubSeq(s, 1, Len(s)) = s
    BY SubSeqFull
<1>3. ASSUME NEW i \in 1..Len(s)
      PROVE  SubSeq(s, 1, i - 1) \in Seq(Line) /\ SubSeq(s, 1, i) = Append(SubSeq(s, 1, i - 1), s[i])
    <2>1. PICK len \in Nat : len = Len(s) /\ \A j \in 1..len : s[j] \in Line
        OBVIOUS
    <2>2. i - 1 \in Int /\ i \in Int /\ 1 \in Int /\ (i - 1) - 1 + 1 = i - 1 /\ i - 1 + 1 = i
        OBVIOUS
    <2>3. /\ SubSeq(s, 1, i - 1) \in Seq(Line)
          /\ Len(SubSeq(s, 1, i - 1)) = i - 1
          /\ \A j \in 1..i-1 : SubSeq(s, 1, i - 1)[j] = s[j]
        BY <2>1, <2>2
    <2>4. /\ SubSeq(s, 1, i) \in Seq(Line)
          /\ Len(SubSeq(s, 1, i)) = i
          /\ \A j \in 1..i : SubSeq(s, 1, i)[j] = s[j]
        BY <2>1, <2>2
    <2> QED  BY <2>1, <2>3, <2>4
<1> QED  BY <1>1, <1>2, <1>3

\* What Trim has made of the lines p: acc.kept, of which the first m bullets were
\* dropped, of the `over` bullets that there are too many.
Trimmed(p, acc, m, over) ==
    /\ p \in Seq(Line) /\ acc \in Trimming(Line)
    /\ m \in 0..Len(Bullets(p))
    /\ acc.drop = over - m
    /\ m > 0 => m <= over
    /\ acc.drop > 0 => m = Len(Bullets(p))
    /\ Len(Bullets(acc.kept)) = Len(Bullets(p)) - m
    /\ \A j \in 1..Len(Bullets(p)) - m : Bullets(acc.kept)[j] = Bullets(p)[j + m]
    /\ Prose(acc.kept) = Prose(p)
    /\ \A line : Times(line, acc.kept) <= Times(line, p)
    /\ m = 0 => acc.kept = p

LEMMA TrimmedStep ==
    ASSUME NEW p, NEW acc, NEW m, NEW over \in Int, Trimmed(p, acc, m, over), NEW x \in Line
    PROVE  \E n : Trimmed(Append(p, x), Taken(acc, x), n, over)
<1>1. /\ p \in Seq(Line) /\ acc.kept \in Seq(Line) /\ acc.drop \in Int
      /\ Append(p, x) \in Seq(Line) /\ Append(acc.kept, x) \in Seq(Line)
      /\ Taken(acc, x) \in Trimming(Line)
    BY TakenKeeps DEF Trimmed, Trimming
<1>2. PICK c \in Seq(Line) : c = Bullets(p)
    BY <1>1, Parts
<1>3. PICK k \in Seq(Line) : k = Bullets(acc.kept)
    BY <1>1, Parts
<1>4. PICK lc \in Nat : lc = Len(c)
    OBVIOUS
<1>5. PICK lk \in Nat : lk = Len(k)
    OBVIOUS
<1>6. /\ m \in 0..lc /\ acc.drop = over - m /\ (m > 0 => m <= over) /\ (acc.drop > 0 => m = lc)
      /\ lk = lc - m /\ \A j \in 1..lc - m : k[j] = c[j + m]
      /\ Prose(acc.kept) = Prose(p)
      /\ \A line : Times(line, acc.kept) <= Times(line, p)
      /\ m = 0 => acc.kept = p
    BY <1>2, <1>3, <1>4, <1>5 DEF Trimmed
<1>7. \A line : Times(line, p) \in Nat /\ Times(line, acc.kept) \in Nat
    BY <1>1, TimesOfAppend
<1>8. \A line : Times(line, acc.kept) <= Times(line, Append(p, x))
    <2> TAKE line
    <2>1. Times(line, Append(p, x)) = Times(line, p) \/ Times(line, Append(p, x)) = Times(line, p) + 1
        BY <1>1, TimesOfAppend
    <2> QED  BY <2>1, <1>6, <1>7
<1>9. \A line : Times(line, Append(acc.kept, x)) <= Times(line, Append(p, x))
    <2> TAKE line
    <2>1. CASE x = line
        <3>1. /\ Times(line, Append(p, x)) = Times(line, p) + 1
              /\ Times(line, Append(acc.kept, x)) = Times(line, acc.kept) + 1
            BY <2>1, <1>1, TimesOfAppend
        <3> QED  BY <3>1, <1>6, <1>7
    <2>2. CASE x # line
        <3>1. /\ Times(line, Append(p, x)) = Times(line, p)
              /\ Times(line, Append(acc.kept, x)) = Times(line, acc.kept)
            BY <2>2, <1>1, TimesOfAppend
        <3> QED  BY <3>1, <1>6
    <2> QED  BY <2>1, <2>2
<1>a. /\ Append(c, x) \in Seq(Line) /\ Len(Append(c, x)) = lc + 1 /\ Append(c, x)[lc + 1] = x
      /\ \A j \in 1..lc : Append(c, x)[j] = c[j]
    BY <1>4
<1>b. /\ Append(k, x) \in Seq(Line) /\ Len(Append(k, x)) = lk + 1 /\ Append(k, x)[lk + 1] = x
      /\ \A j \in 1..lk : Append(k, x)[j] = k[j]
    BY <1>5
<1>10. CASE acc.drop > 0 /\ IsBullet(x)
    <2>1. PICK next : next = Taken(acc, x)
        OBVIOUS
    <2>2. next.drop = acc.drop - 1 /\ next.kept = acc.kept
        BY <1>10, <2>1 DEF Taken, Trimmed, Trimming
    <2>3. Bullets(Append(p, x)) = Append(c, x) /\ Prose(Append(p, x)) = Prose(p)
        BY <1>1, <1>2, <1>10, PartsOfAppend
    <2>4. /\ m + 1 \in 0..lc + 1 /\ next.drop = over - (m + 1) /\ m + 1 <= over
          /\ m + 1 = lc + 1 /\ lk = lc + 1 - (m + 1) /\ lc + 1 - (m + 1) = 0 /\ m + 1 # 0
        BY <1>4, <1>5, <1>6, <1>10, <2>2
    <2>5. \A j \in 1..lc + 1 - (m + 1) : k[j] = Append(c, x)[j + (m + 1)]
        BY <2>4
    <2>6. Trimmed(Append(p, x), next, m + 1, over)
        <3>1. PICK q : q = Append(p, x)
            OBVIOUS
        <3>2. q \in Seq(Line) /\ next \in Trimming(Line) /\ Prose(next.kept) = Prose(q)
            BY <1>1, <1>6, <2>1, <2>2, <2>3, <3>1
        <3>3. Bullets(q) = Append(c, x) /\ Bullets(next.kept) = k
            BY <1>3, <2>2, <2>3, <3>1
        <3>4. Len(Bullets(q)) = lc + 1 /\ Len(Bullets(next.kept)) = lk
            BY <3>3, <1>5, <1>a
        <3>5. \A line : Times(line, next.kept) <= Times(line, q)
            BY <1>8, <2>2, <3>1
        <3>6. \A j \in 1..lc + 1 - (m + 1) : Bullets(next.kept)[j] = Bullets(q)[j + (m + 1)]
            BY <2>5, <3>3
        <3>7. Trimmed(q, next, m + 1, over)
            BY <2>4, <3>2, <3>4, <3>5, <3>6 DEF Trimmed
        <3> QED  BY <3>1, <3>7
    <2> QED  BY <2>1, <2>6
<1>11. CASE ~(acc.drop > 0 /\ IsBullet(x))
    <2>1. PICK next : next = Taken(acc, x)
        OBVIOUS
    <2>2. next.drop = acc.drop /\ next.kept = Append(acc.kept, x)
        BY <1>11, <2>1 DEF Taken, Trimmed, Trimming
    <2>3. CASE IsBullet(x)
        <3>1. /\ Bullets(Append(p, x)) = Append(c, x) /\ Prose(Append(p, x)) = Prose(p)
              /\ Bullets(next.kept) = Append(k, x) /\ Prose(next.kept) = Prose(acc.kept)
            BY <1>1, <1>2, <1>3, <2>2, <2>3, PartsOfAppend
        <3>2. /\ m \in 0..lc + 1 /\ next.drop = over - m /\ ~(next.drop > 0)
              /\ lk + 1 = lc + 1 - m /\ (m = 0 => next.kept = Append(p, x))
            BY <1>4, <1>5, <1>6, <1>11, <2>2, <2>3
        <3>3. ASSUME NEW j \in 1..lc + 1 - m PROVE Append(k, x)[j] = Append(c, x)[j + m]
            <4>1. CASE j = lc + 1 - m
                <5>1. j = lk + 1 /\ j + m = lc + 1
                    BY <4>1, <1>4, <1>5, <1>6
                <5> QED  BY <5>1, <1>a, <1>b
            <4>2. CASE j # lc + 1 - m
                <5>1. j \in 1..lc - m /\ j \in 1..lk /\ j + m \in 1..lc
                    BY <4>2, <1>4, <1>5, <1>6
                <5> QED  BY <5>1, <1>6, <1>a, <1>b
            <4> QED  BY <4>1, <4>2
        <3>4. Trimmed(Append(p, x), next, m, over)
            <4>1. PICK q : q = Append(p, x)
                OBVIOUS
            <4>2. q \in Seq(Line) /\ next \in Trimming(Line) /\ Prose(next.kept) = Prose(q)
                BY <1>1, <1>6, <2>1, <3>1, <4>1
            <4>3. Bullets(q) = Append(c, x) /\ Bullets(next.kept) = Append(k, x)
                BY <3>1, <4>1
            <4>4. Len(Bullets(q)) = lc + 1 /\ Len(Bullets(next.kept)) = lk + 1
                BY <4>3, <1>a, <1>b
            <4>5. \A line : Times(line, next.kept) <= Times(line, q)
                BY <1>9, <2>2, <4>1
            <4>6. \A j \in 1..lc + 1 - m : Bullets(next.kept)[j] = Bullets(q)[j + m]
                BY <3>3, <4>3
            <4>7. (m > 0 => m <= over) /\ (m = 0 => next.kept = q)
                BY <1>6, <3>2, <4>1
            <4>8. Trimmed(q, next, m, over)
                BY <3>2, <4>2, <4>4, <4>5, <4>6, <4>7 DEF Trimmed
            <4> QED  BY <4>1, <4>8
        <3> QED  BY <2>1, <3>4
    <2>4. CASE ~IsBullet(x)
        <3>1. /\ Bullets(Append(p, x)) = c /\ Prose(Append(p, x)) = Append(Prose(p), x)
              /\ Bullets(next.kept) = k /\ Prose(next.kept) = Append(Prose(acc.kept), x)
            BY <1>1, <1>2, <1>3, <2>2, <2>4, PartsOfAppend
        <3>2. Trimmed(Append(p, x), next, m, over)
            BY <1>1, <1>4, <1>5, <1>6, <1>9, <2>1, <2>2, <3>1 DEF Trimmed
        <3> QED  BY <2>1, <3>2
    <2> QED  BY <2>3, <2>4
<1> QED  BY <1>10, <1>11

\* `trim_to_max_facts` drops the bullets that there are too many, the first ones,
\* and nothing else.
LEMMA TrimDrops ==
    ASSUME NEW s \in Seq(Line)
    PROVE  \E m \in 0..Len(Bullets(s)) :
              /\ Trim(s) \in Seq(Line)
              /\ Len(Bullets(Trim(s))) = Len(Bullets(s)) - m
              /\ Len(Bullets(s)) - m <= MaxFacts
              /\ m > 0 => Len(Bullets(s)) - m = MaxFacts
              /\ m = 0 => Trim(s) = s
              /\ \A j \in 1..Len(Bullets(s)) - m : Bullets(Trim(s))[j] = Bullets(s)[j + m]
              /\ Prose(Trim(s)) = Prose(s)
              /\ \A line : Times(line, Trim(s)) <= Times(line, s)
<1>1. PICK r \in [0..Len(s) -> Trimming(Line)] :
         /\ r[0] = TrimStart(s)
         /\ \A i \in 1..Len(s) : r[i] = Taken(r[i-1], s[i])
         /\ r[Len(s)].kept = Trim(s)
    BY TrimUnfolds
<1>2. PICK len \in Nat : len = Len(s) /\ \A i \in 1..len : s[i] \in Line
    OBVIOUS
<1>3. PICK b \in Seq(Line) : b = Bullets(s)
    BY Parts
<1>4. PICK lb \in Nat : lb = Len(b)
    OBVIOUS
<1>5. MaxFacts \in Nat \ {0}
    BY NotebookAssumption
<1>6. PICK over \in Int : over = lb - MaxFacts
    BY <1>5
<1> DEFINE Good(i) == \E m : Trimmed(SubSeq(s, 1, i), r[i], m, over)
           Odd == {i \in 0..len : ~Good(i)}
<1>7. Good(0)
    <2>1. SubSeq(s, 1, 0) = <<>>
        BY Firsts
    <2>2. r[0].drop = over /\ r[0].kept = <<>> /\ r[0] \in Trimming(Line)
        <3>1. r[0] = [drop |-> over, kept |-> <<>>]
            BY <1>1, <1>3, <1>4, <1>6 DEF TrimStart
        <3> QED  BY <3>1 DEF Trimming
    <2>3. <<>> \in Seq(Line) /\ Len(<<>>) = 0
        OBVIOUS
    <2>4. \A line : Times(line, <<>>) = 0
        BY TimesOfNone
    <2>5. Trimmed(<<>>, r[0], 0, over)
        BY <2>2, <2>3, <2>4, PartsOfNone DEF Trimmed
    <2> QED  BY <2>1, <2>5
<1>8. ASSUME NEW i \in 1..len, Good(i - 1) PROVE Good(i)
    <2>1. PICK m : Trimmed(SubSeq(s, 1, i - 1), r[i - 1], m, over)
        BY <1>8
    <2>2. SubSeq(s, 1, i) = Append(SubSeq(s, 1, i - 1), s[i]) /\ r[i] = Taken(r[i - 1], s[i])
        BY <1>1, <1>2, Firsts
    <2>3. s[i] \in Line
        BY <1>2
    <2> QED  BY <2>1, <2>2, <2>3, TrimmedStep
<1> HIDE DEF Good
<1>9. Odd = {}
    <2> SUFFICES ASSUME Odd # {} PROVE FALSE
        OBVIOUS
    <2>1. Odd \in SUBSET Nat
        OBVIOUS
    <2> HIDE DEF Odd
    <2>2. PICK k \in Odd : \A u \in Odd : k <= u
        BY <2>1, LeastElement
    <2>3. k \in 0..len /\ ~Good(k)
        BY <2>2 DEF Odd
    <2>4. k # 0
        BY <2>3, <1>7
    <2>5. k \in 1..len /\ k - 1 \in 0..len /\ k - 1 < k /\ k - 1 \in Nat
        BY <2>3, <2>4
    <2>6. k - 1 \notin Odd
        BY <2>1, <2>2, <2>5
    <2>7. Good(k - 1)
        BY <2>5, <2>6 DEF Odd
    <2> QED  BY <2>3, <2>5, <2>7, <1>8
<1>10. Good(len)
    <2>1. len \in 0..len
        OBVIOUS
    <2> QED  BY <2>1, <1>9
<1>11. PICK m : Trimmed(s, r[len], m, over)
    BY <1>2, <1>10, Firsts DEF Good
<1>12. PICK acc : acc = r[len] /\ acc.kept = Trim(s)
    BY <1>1, <1>2
<1>13. /\ m \in 0..lb /\ acc.drop = over - m /\ (m > 0 => m <= over) /\ (acc.drop > 0 => m = lb)
    BY <1>3, <1>4, <1>11, <1>12 DEF Trimmed
<1>14. lb - m <= MaxFacts /\ (m > 0 => lb - m = MaxFacts)
    BY <1>4, <1>5, <1>6, <1>13
<1>15. /\ Trim(s) \in Seq(Line)
       /\ Len(Bullets(Trim(s))) = lb - m
       /\ \A j \in 1..lb - m : Bullets(Trim(s))[j] = b[j + m]
       /\ Prose(Trim(s)) = Prose(s)
       /\ \A line : Times(line, Trim(s)) <= Times(line, s)
       /\ m = 0 => Trim(s) = s
    BY <1>3, <1>4, <1>11, <1>12 DEF Trimmed, Trimming
<1> QED  BY <1>3, <1>4, <1>13, <1>14, <1>15

\* What the facts added so far have made of the notebook.
Grown(base, acc) ==
    /\ acc.lines \in Seq(Line)
    /\ Len(acc.lines) >= Len(base)
    /\ \A j \in 1..Len(base) : acc.lines[j] = base[j]
    /\ Prose(acc.lines) = Prose(base)
    /\ Len(Bullets(acc.lines)) >= Len(Bullets(base))
    /\ \A j \in 1..Len(Bullets(base)) : Bullets(acc.lines)[j] = Bullets(base)[j]
    /\ \A j \in 1..Len(acc.lines) :
          IsBullet(acc.lines[j]) /\ acc.lines[j].stamps = 1 => Key(acc.lines[j]) \in acc.seen
    /\ \A line \in Fact : line.stamps = 1 =>
          Times(line, acc.lines) <= 1 \/ Times(line, acc.lines) <= Times(line, base)

\* A fact stands behind its stamp, and `normalize` finds it there.
LEMMA StampedFact ==
    ASSUME NEW fact \in Fact
    PROVE  /\ Stamped(fact) \in Line /\ IsBullet(Stamped(fact))
           /\ Stamped(fact).stamps = 1 => Key(Stamped(fact)) = Key(fact)
<1>1. fact \in Line /\ fact.bullet /\ fact.stamps \in Nat
    BY DEF Fact, Line
<1>2. /\ Stamped(fact) \in Line /\ Stamped(fact).bullet = fact.bullet
      /\ Stamped(fact).stamps = fact.stamps + 1 /\ Stamped(fact).text = fact.text
    <2>1. DOMAIN fact = {"bullet", "stamps", "text"}
        BY <1>1 DEF Line
    <2>2. Stamped(fact) \in Line
        BY <1>1 DEF Stamped, Line
    <2>3. Stamped(fact).stamps = fact.stamps + 1
        BY <2>1 DEF Stamped
    <2>4. Stamped(fact).text = fact.text
        BY <2>1 DEF Stamped
    <2>5. Stamped(fact).bullet = fact.bullet
        BY <2>1 DEF Stamped
    <2> QED  BY <2>2, <2>3, <2>4, <2>5
<1>3. ASSUME NEW x \in Line, x.stamps \in {0, 1}
      PROVE  /\ Key(x) \in Line /\ Key(x).bullet = x.bullet
             /\ Key(x).stamps = 0 /\ Key(x).text = x.text
    BY <1>3 DEF Key, Line
<1>4. ASSUME NEW x \in Line, NEW y \in Line, x.bullet = y.bullet, x.stamps = y.stamps, x.text = y.text
      PROVE  x = y
    BY <1>4 DEF Line
<1>5. ASSUME Stamped(fact).stamps = 1 PROVE Key(Stamped(fact)) = Key(fact)
    <2>1. fact.stamps \in {0, 1} /\ Stamped(fact).stamps \in {0, 1}
        BY <1>1, <1>2, <1>5
    <2>2. PICK w \in Line : w = Stamped(fact)
        BY <1>2
    <2>3. Key(w) \in Line /\ Key(w).bullet = w.bullet /\ Key(w).stamps = 0 /\ Key(w).text = w.text
        BY <2>1, <2>2, <1>3
    <2>4. /\ Key(fact) \in Line /\ Key(fact).bullet = fact.bullet
          /\ Key(fact).stamps = 0 /\ Key(fact).text = fact.text
        BY <2>1, <1>1, <1>3
    <2>5. Key(w) = Key(fact)
        BY <1>2, <1>4, <2>2, <2>3, <2>4
    <2> QED  BY <2>2, <2>5
<1> QED  BY <1>1, <1>2, <1>5 DEF IsBullet

LEMMA GrownStep ==
    ASSUME NEW base \in Seq(Line), NEW acc, Grown(base, acc), NEW fact \in Fact
    PROVE  Grown(base, Added(acc, fact))
<1>1. CASE Key(fact) \in acc.seen
    BY <1>1 DEF Added
<1>2. CASE Key(fact) \notin acc.seen
    <2>1. PICK x : x = Stamped(fact)
        OBVIOUS
    <2>2. x \in Line /\ IsBullet(x) /\ (x.stamps = 1 => Key(x) = Key(fact))
        BY <2>1, StampedFact
    <2>3. PICK next : next = Added(acc, fact)
        OBVIOUS
    <2>4. next.seen = acc.seen \union {Key(fact)} /\ next.lines = Append(acc.lines, x)
        BY <1>2, <2>1, <2>3 DEF Added
    <2>5. PICK lines \in Seq(Line) : lines = acc.lines
        BY DEF Grown
    <2>6. PICK n \in Nat : n = Len(lines)
        OBVIOUS
    <2>7. PICK t : t = next.lines
        OBVIOUS
    <2>8. /\ t \in Seq(Line) /\ t = Append(lines, x) /\ Len(t) = n + 1 /\ t[n + 1] = x
          /\ \A j \in 1..n : t[j] = lines[j]
        BY <2>2, <2>4, <2>5, <2>6, <2>7
    <2>9. /\ n >= Len(base) /\ Len(base) \in Nat
          /\ \A j \in 1..Len(base) : lines[j] = base[j]
          /\ Prose(lines) = Prose(base)
          /\ \A j \in 1..n : IsBullet(lines[j]) /\ lines[j].stamps = 1 => Key(lines[j]) \in acc.seen
          /\ \A line \in Fact : line.stamps = 1 =>
                Times(line, lines) <= 1 \/ Times(line, lines) <= Times(line, base)
        BY <2>5, <2>6 DEF Grown
    <2>10. PICK b \in Seq(Line) : b = Bullets(lines)
        BY Parts
    <2>11. PICK c \in Seq(Line) : c = Bullets(base)
        BY Parts
    <2>12. Len(b) >= Len(c) /\ \A j \in 1..Len(c) : b[j] = c[j]
        BY <2>5, <2>10, <2>11 DEF Grown
    <2>13. Bullets(t) = Append(b, x) /\ Prose(t) = Prose(base)
        BY <2>2, <2>8, <2>9, <2>10, PartsOfAppend
    <2>14. Len(Append(b, x)) >= Len(c) /\ \A j \in 1..Len(c) : Append(b, x)[j] = c[j]
        <3>1. PICK lb \in Nat : lb = Len(b)
            OBVIOUS
        <3>2. PICK lc \in Nat : lc = Len(c)
            OBVIOUS
        <3>3. Len(Append(b, x)) = lb + 1 /\ \A j \in 1..lb : Append(b, x)[j] = b[j]
            BY <2>2, <3>1
        <3>4. \A j \in 1..lc : j \in 1..lb
            BY <2>12, <3>1, <3>2
        <3> QED  BY <2>12, <3>1, <3>2, <3>3, <3>4
    <2>15. ASSUME NEW j \in 1..n + 1, IsBullet(t[j]), t[j].stamps = 1 PROVE Key(t[j]) \in next.seen
        <3>1. CASE j = n + 1
            BY <2>2, <2>4, <2>8, <2>15, <3>1
        <3>2. CASE j \in 1..n
            BY <2>4, <2>8, <2>9, <2>15, <3>2
        <3> QED  BY <2>6, <3>1, <3>2
    <2>16. ASSUME NEW line \in Fact, line.stamps = 1
           PROVE  Times(line, t) <= 1 \/ Times(line, t) <= Times(line, base)
        <3>1. CASE x = line
            <4>1. ASSUME NEW i \in 1..n PROVE lines[i] # line
                <5>1. IsBullet(x) /\ x.stamps = 1 /\ Key(x) \notin acc.seen
                    BY <1>2, <2>2, <2>16, <3>1
                <5> QED  BY <2>9, <3>1, <5>1
            <4>2. Times(line, lines) = 0
                BY <2>6, <4>1, TimesOfAbsent
            <4>3. Times(line, t) = Times(line, lines) + 1
                BY <2>2, <2>8, <3>1, TimesOfAppend
            <4> QED  BY <4>2, <4>3
        <3>2. CASE x # line
            <4>1. Times(line, t) = Times(line, lines)
                BY <2>2, <2>8, <3>2, TimesOfAppend
            <4> QED  BY <2>9, <2>16, <4>1
        <3> QED  BY <3>1, <3>2
    <2>17. Len(t) >= Len(base) /\ \A j \in 1..Len(base) : t[j] = base[j]
        <3>1. \A j \in 1..Len(base) : j \in 1..n
            BY <2>6, <2>9
        <3> QED  BY <2>6, <2>8, <2>9, <3>1
    <2>18. Grown(base, next)
        BY <2>7, <2>8, <2>11, <2>13, <2>14, <2>15, <2>16, <2>17 DEF Grown
    <2> QED  BY <2>3, <2>18
<1> QED  BY <1>1, <1>2

\* `fold_capture` appends: the lines that stand before the trim.
LEMMA Folded ==
    ASSUME NEW base \in Seq(Line), NEW facts \in Seq(Fact), FoldCapture(base, facts) # base
    PROVE  \E acc : Grown(base, acc) /\ FoldCapture(base, facts) = Trim(acc.lines)
<1>0. PICK len \in Nat : len = Len(facts) /\ \A i \in 1..len : facts[i] \in Fact
    OBVIOUS
<1>1. \A i \in 1..len : Stamped(facts[i]) \in Line
    BY <1>0, StampedFact
<1>2. PICK r \in [0..len -> Capturing(base, facts, Line)] :
         /\ r[0] = AddStart(base)
         /\ \A i \in 1..len : r[i] = Added(r[i-1], facts[i])
         /\ FoldCapture(base, facts) = IF r[len].lines = base THEN base ELSE Trim(r[len].lines)
    <2>1. \A i \in 1..Len(facts) : Stamped(facts[i]) \in Line
        BY <1>0, <1>1
    <2>2. \E r \in [0..Len(facts) -> Capturing(base, facts, Line)] :
             /\ r[0] = AddStart(base)
             /\ \A i \in 1..Len(facts) : r[i] = Added(r[i-1], facts[i])
             /\ FoldCapture(base, facts) = IF r[Len(facts)].lines = base THEN base
                                           ELSE Trim(r[Len(facts)].lines)
        BY <2>1, AddUnfolds
    <2> QED  BY <2>2, <1>0
<1> DEFINE Odd == {i \in 0..len : ~Grown(base, r[i])}
<1>3. Grown(base, r[0])
    <2>1. PICK acc : acc = AddStart(base)
        OBVIOUS
    <2>2. acc.lines = base /\ acc.seen = {Key(line) : line \in ToSet(Bullets(base))}
        BY <2>1 DEF AddStart
    <2>3. ASSUME NEW j \in 1..Len(base), IsBullet(base[j]) PROVE Key(base[j]) \in acc.seen
        <3>1. PICK i \in DOMAIN Bullets(base) : Bullets(base)[i] = base[j]
            BY <2>3, BulletsHaveAll
        <3>2. base[j] \in ToSet(Bullets(base))
            BY <3>1 DEF ToSet
        <3> QED  BY <2>2, <3>2
    <2>4. Len(base) \in Nat
        OBVIOUS
    <2>5. Len(Bullets(base)) \in Nat
        <3>1. PICK b \in Seq(Line) : b = Bullets(base)
            BY Parts
        <3> QED  BY <3>1
    <2>6. \A line : Times(line, base) \in Nat
        <3>1. \A line : Header \in Line => Times(line, base) \in Nat
            BY TimesOfAppend
        <3>2. Header \in Line
            BY NotebookAssumption DEF Header, Line
        <3> QED  BY <3>1, <3>2
    <2>7. Grown(base, acc)
        BY <2>2, <2>3, <2>4, <2>5, <2>6 DEF Grown
    <2> QED  BY <1>2, <2>1, <2>7
<1>4. ASSUME NEW i \in 1..len, Grown(base, r[i - 1]) PROVE Grown(base, r[i])
    BY <1>0, <1>2, <1>4, GrownStep
<1>5. Odd = {}
    <2> SUFFICES ASSUME Odd # {} PROVE FALSE
        OBVIOUS
    <2>1. Odd \in SUBSET Nat
        OBVIOUS
    <2> HIDE DEF Odd
    <2>2. PICK k \in Odd : \A u \in Odd : k <= u
        BY <2>1, LeastElement
    <2>3. k \in 0..len /\ ~Grown(base, r[k])
        BY <2>2 DEF Odd
    <2>4. k # 0
        BY <2>3, <1>3
    <2>5. k \in 1..len /\ k - 1 \in 0..len /\ k - 1 < k /\ k - 1 \in Nat
        BY <2>3, <2>4
    <2>6. k - 1 \notin Odd
        BY <2>1, <2>2, <2>5
    <2>7. Grown(base, r[k - 1])
        BY <2>5, <2>6 DEF Odd
    <2> QED  BY <2>3, <2>5, <2>7, <1>4
<1>6. Grown(base, r[len])
    <2>1. len \in 0..len
        OBVIOUS
    <2> QED  BY <2>1, <1>5
<1> QED  BY <1>2, <1>6

\* A mark that ended the onboarding is somewhere, or it is outstanding.
LEMMA EndedIs ==
    ASSUME NEW s \in Seq(Line)
    PROVE  ~IsOutstanding(DetectStatus(s)) <=>
               \E j \in 1..Len(s) : MarkerState(s[j]) \in {"completed", "dismissed"}
<1>1. PICK ended : ended = {i \in DOMAIN s : MarkerState(s[i]) \in {"completed", "dismissed"}}
    OBVIOUS
<1>2. DOMAIN s = 1..Len(s) /\ Len(s) \in Nat
    OBVIOUS
<1>3. ASSUME ended # {} PROVE MarkerState(s[Min(ended)]) \in {"completed", "dismissed"}
    <2>1. ended \in SUBSET Nat
        BY <1>1, <1>2
    <2>2. \E x \in ended : \A y \in ended : x <= y
        BY <1>3, <2>1, LeastElement
    <2>3. Min(ended) \in ended
        BY <2>2 DEF Min
    <2> QED  BY <2>3, <1>1
<1>4. CASE ended # {}
    <2>1. DetectStatus(s) = MarkerState(s[Min(ended)])
        BY <1>1, <1>4 DEF DetectStatus
    <2>2. ~IsOutstanding(DetectStatus(s))
        BY <2>1, <1>3, <1>4 DEF IsOutstanding
    <2> QED  BY <2>2, <1>1, <1>2, <1>4
<1>5. CASE ended = {}
    <2>1. DetectStatus(s) \in {"pending", "not_started"}
        BY <1>1, <1>5 DEF DetectStatus
    <2> QED  BY <2>1, <1>1, <1>2, <1>5 DEF IsOutstanding
<1> QED  BY <1>4, <1>5

-----------------------------------------------------------------------------
(* Theorems *)

\* What a turn folded or an editor was shown stays within reach of `restore`:
\* the head a write may have hidden is a revision, for the head is always one
\* (`write` of store/memory.rs keeps both in one transaction).
THEOREM NothingSeenIsLost == Spec => []SeenIsRecoverable
<1>1. MemInv => SeenIsRecoverable
    BY DEF MemInv, WriterOK, Known, SeenIsRecoverable
<1> QED  BY <1>1, InvHolds, PTL

\* A restore brings back what its own notebook once said: between the query of
\* `restore` and its write other requests run, and none takes a revision away.
THEOREM RestoresStayAtHome == Spec => []RestoresItsOwnPast
<1>1. MemInv => RestoresItsOwnPast
    BY DEF MemInv, RestoresThePast, RestoresItsOwnPast
<1> QED  BY <1>1, InvHolds, PTL

\* Whatever a turn is told by its prompt, a query or a read was captured in its
\* own scope or written on the page of its notebook, or those of the
\* organisation's when the scope recalls what is visible.
THEOREM HearsNoOtherScope == Spec => []HearsItsOwnScopes
<1>1. HeardInv => HearsItsOwnScopes
    BY DEF HeardInv, Heeds, HearsItsOwnScopes, At, Writers
<1> QED  BY <1>1, HeardHolds, PTL

\* What `fold_capture` makes of any notebook and any facts, when something is new.
THEOREM CaptureFolds ==
    ASSUME NEW base \in Seq(Line), NEW facts \in Seq(Fact), FoldCapture(base, facts) # base
    PROVE  Folds(base, FoldCapture(base, facts))
<1>1. PICK acc : Grown(base, acc) /\ FoldCapture(base, facts) = Trim(acc.lines)
    BY Folded
<1>2. PICK lines \in Seq(Line) : lines = acc.lines
    BY <1>1 DEF Grown
<1>3. PICK b \in Seq(Line) : b = Bullets(lines)
    BY Parts
<1>4. PICK lb \in Nat : lb = Len(b)
    OBVIOUS
<1>5. PICK body : body = Trim(lines)
    OBVIOUS
<1>6. PICK m \in 0..lb :
         /\ body \in Seq(Line)
         /\ Len(Bullets(body)) = lb - m
         /\ lb - m <= MaxFacts
         /\ m > 0 => lb - m = MaxFacts
         /\ m = 0 => body = lines
         /\ \A j \in 1..lb - m : Bullets(body)[j] = b[j + m]
         /\ Prose(body) = Prose(lines)
         /\ \A line : Times(line, body) <= Times(line, lines)
    BY <1>3, <1>4, <1>5, TrimDrops
<1>7. PICK c \in Seq(Line) : c = Bullets(base)
    BY Parts
<1>8. PICK lc \in Nat : lc = Len(c)
    OBVIOUS
<1>9. /\ Len(lines) >= Len(base) /\ \A j \in 1..Len(base) : lines[j] = base[j]
      /\ Prose(lines) = Prose(base)
      /\ lb >= lc /\ \A j \in 1..lc : b[j] = c[j]
      /\ \A line \in Fact : line.stamps = 1 =>
            Times(line, lines) <= 1 \/ Times(line, lines) <= Times(line, base)
    BY <1>1, <1>2, <1>3, <1>4, <1>7, <1>8 DEF Grown
<1>10. PICK k \in Seq(Line) : k = Bullets(body) /\ \A i \in DOMAIN k : k[i] \in Fact
    BY <1>6, Parts
<1>11. PICK lk \in Nat : lk = Len(k)
    OBVIOUS
<1>12. lk = lb - m /\ \A j \in 1..lk : k[j] = b[j + m]
    BY <1>6, <1>10, <1>11
<1>13. \E n \in 0..lc : (n > 0 => lk = MaxFacts) /\ IsPrefix(SubSeq(c, n + 1, lc), k)
    <2>1. CASE m >= lc
        <3>1. SubSeq(c, lc + 1, lc) = <<>>
            BY SubSeqEmpty, lc + 1 \in Int, lc \in Int, lc < lc + 1
        <3>2. IsPrefix(<<>>, k)
            <4>1. Len(<<>>) = 0 /\ 0 <= Len(k)
                BY <1>11
            <4>2. SubSeq(<<>>, 1, 0) = <<>> /\ SubSeq(k, 1, 0) = <<>>
                BY SubSeqEmpty
            <4> QED  BY <4>1, <4>2 DEF IsPrefix
        <3>3. lc > 0 => lk = MaxFacts
            BY <1>6, <1>12, <2>1
        <3>4. PICK n \in 0..lc : n = lc
            OBVIOUS
        <3>5. (n > 0 => lk = MaxFacts) /\ IsPrefix(SubSeq(c, n + 1, lc), k)
            BY <3>1, <3>2, <3>3, <3>4
        <3> QED  BY <3>5
    <2>2. CASE m < lc
        <3>1. PICK p : p = SubSeq(c, m + 1, lc)
            OBVIOUS
        <3>2. m \in Nat /\ m + 1 \in Int /\ lc \in Int /\ lc - (m + 1) + 1 = lc - m
            OBVIOUS
        <3>3. /\ p \in Seq(Line) /\ Len(p) = lc - m
              /\ \A i \in 1..lc - m : p[i] = c[m + 1 + i - 1]
            <4>1. \A i \in m + 1..lc : c[i] \in Line
                BY <1>8, <3>2
            <4> QED  BY <2>2, <3>1, <3>2, <4>1, SubSeqProperties
        <3>4. PICK q : q = SubSeq(k, 1, lc - m)
            OBVIOUS
        <3>5. lc - m <= lk /\ lc - m \in Int /\ 1 <= lc - m /\ lc - m - 1 + 1 = lc - m
            BY <1>9, <1>12, <2>2, <3>2
        <3>6. /\ q \in Seq(Line) /\ Len(q) = lc - m
              /\ \A i \in 1..lc - m : q[i] = k[1 + i - 1]
            <4>1. \A i \in 1..lc - m : k[i] \in Line
                BY <1>11, <3>5
            <4> QED  BY <3>4, <3>5, <4>1, SubSeqProperties
        <3>7. ASSUME NEW i \in 1..lc - m PROVE p[i] = q[i]
            <4>1. m + 1 + i - 1 = i + m /\ 1 + i - 1 = i /\ i \in 1..lk /\ i + m \in 1..lc
                BY <3>2, <3>5
            <4>2. p[i] = c[i + m] /\ q[i] = k[i]
                BY <3>3, <3>6, <4>1
            <4> QED  BY <1>9, <1>12, <4>1, <4>2
        <3>8. p = q
            BY <3>3, <3>6, <3>7
        <3>9. SubSeq(p, 1, Len(p)) = p
            BY <3>3, SubSeqFull
        <3>10. IsPrefix(p, k)
            BY <1>11, <3>3, <3>4, <3>5, <3>8, <3>9 DEF IsPrefix
        <3>11. m \in 0..lc /\ (m > 0 => lk = MaxFacts)
            BY <1>6, <1>12, <2>2
        <3> QED  BY <3>1, <3>10, <3>11
    <2> QED  BY <2>1, <2>2
<1>14. ASSUME NEW line \in ToSet(k), line.stamps = 1 PROVE Times(line, body) <= Max({1, Times(line, base)})
    <2>1. line \in Fact
        BY <1>10 DEF ToSet
    <2>2. ASSUME NEW s \in Seq(Line) PROVE Times(line, s) \in Nat
        <3>1. line \in Line
            BY <2>1 DEF Fact
        <3> QED  BY <3>1, TimesOfAppend
    <2>3. PICK most \in Nat : most = Times(line, base)
        BY <2>2
    <2>4. PICK one \in Int : one = 1
        OBVIOUS
    <2>5. Max({one, most}) \in {one, most} /\ Max({one, most}) >= one /\ Max({one, most}) >= most
        BY MaxOfTwo, most \in Int
    <2>6. /\ Times(line, body) <= Times(line, lines) /\ Times(line, body) \in Nat /\ Times(line, lines) \in Nat
          /\ Times(line, lines) <= 1 \/ Times(line, lines) <= most
        BY <1>6, <1>9, <1>14, <2>1, <2>2, <2>3
    <2>7. Max({one, most}) \in Int
        BY <2>5
    <2>8. Times(line, body) <= Max({one, most})
        BY <2>4, <2>5, <2>6, <2>7
    <2> QED  BY <2>3, <2>4, <2>8
<1>15. ASSUME ~IsOutstanding(DetectStatus(base)), lk < MaxFacts
       PROVE  ~IsOutstanding(DetectStatus(body))
    <2>1. PICK j \in 1..Len(base) : MarkerState(base[j]) \in {"completed", "dismissed"}
        BY <1>15, EndedIs
    <2>2. m = 0
        <3>1. MaxFacts \in Nat
            BY NotebookAssumption
        <3> QED  BY <1>6, <1>12, <1>15, <3>1
    <2>3. body = lines
        BY <1>6, <2>2
    <2>4. Len(lines) \in Nat /\ Len(base) \in Nat
        OBVIOUS
    <2>5. j \in 1..Len(lines) /\ lines[j] = base[j]
        BY <1>9, <2>4
    <2> QED  BY <2>1, <2>3, <2>5, EndedIs
<1>16. Prose(body) = Prose(base) /\ lk <= MaxFacts
    BY <1>6, <1>9, <1>12
<1>17. Folds(base, body)
    BY <1>7, <1>8, <1>10, <1>11, <1>13, <1>14, <1>15, <1>16 DEF Folds
<1> QED  BY <1>1, <1>2, <1>5, <1>17

\* What the agent is about to write is, of whatever notebook it read, the fold that
\* Folds describes: the notebooks hold lines, and the fold of any lines is one.
THEOREM EveryCaptureFolds == Spec => []CapturesFold
<1>1. MemInv /\ HeardInv => CapturesFold
    <2> SUFFICES ASSUME MemInv, HeardInv, NEW w \in Agents, writers[w].pc = "write"
                 PROVE  Folds(writers[w].base, writers[w].content)
        BY DEF CapturesFold
    <2>1. PICK s : s = writers[w].scope
        OBVIOUS
    <2>2. WriterOK(writers[w]) /\ Heeds(w, writers[w])
        BY DEF MemInv, HeardInv, Writers
    <2>3. s \in Scopes /\ Captured(writers[w])
        BY <2>1, <2>2 DEF WriterOK, Heeds
    <2>4. writers[w].base \in Seq(Line)
        <3>1. ASSUME NEW A, NEW B, A \subseteq B, NEW q \in Seq(A) PROVE q \in Seq(B)
            BY <3>1
        <3> QED  BY <2>1, <2>3, <3>1, LinesAreLines DEF Captured
    <2>5. PICK facts \in Captures[s] : writers[w].content = FoldCapture(writers[w].base, facts)
        BY <2>1, <2>3 DEF Captured
    <2>6. facts \in Seq(Fact)
        BY <2>3, MemoryAssumption
    <2>7. writers[w].content # writers[w].base
        BY <2>3 DEF Captured
    <2> QED  BY <2>4, <2>5, <2>6, <2>7, CaptureFolds
<1> QED  BY <1>1, HeardHolds, PTL

-----------------------------------------------------------------------------
(* What is kept of a write                                                 *)

Operations == {"capture", "replace", "restore"}
Kept == [content : Document, operation : Operations]

\* A writer holds a document while it has one to write or to show, and writes
\* under the name of an operation.
Holds(writer) ==
    /\ writer.pc = "idle" => writer = Idle
    /\ writer.pc \notin {"page", "write"} => writer.base = <<>>
    /\ writer.pc # "write" => writer.content = <<>>
    /\ writer.pc = "write" => writer.operation \in Operations

KeptInv ==
    /\ setting \in Settings
    /\ \A s \in Scopes : revisions[s] \in Seq(Kept)
    /\ \A w \in Writers : Holds(writers[w])

LEMMA LinesMakeDocuments ==
    ASSUME NEW s \in Scopes, NEW document \in Seq(LinesOf(s))
    PROVE  document \in Document
<1>1. LinesOf(s) \subseteq Line
    BY LinesAreLines
<1> QED  BY <1>1 DEF Document

LEMMA InitKept == Init => KeptInv
<1> SUFFICES ASSUME Init PROVE KeptInv
    OBVIOUS
<1>1. \A s \in Scopes : revisions[s] \in Seq(Kept)
    BY DEF Init
<1>2. Holds(Idle)
    BY DEF Holds, Idle
<1> QED  BY <1>1, <1>2 DEF Init, KeptInv

\* A step that reads notebooks and moves one writer on.
LEMMA KeptMoves ==
    ASSUME MemInv, KeptInv, NEW w \in Writers, NEW writer, Holds(writer),
           writers' = [writers EXCEPT ![w] = writer], UNCHANGED <<setting, docs, revisions>>
    PROVE  KeptInv'
<1>1. \A v \in Writers : writers'[v] = IF v = w THEN writer ELSE writers[v]
    BY DEF MemInv, TablesOK
<1>2. ASSUME NEW v \in Writers PROVE Holds(writers'[v])
    BY <1>1 DEF KeptInv
<1>3. \A v \in Writers : Holds(writers[v])'
    BY <1>2 DEF Holds
<1> QED  BY <1>3 DEF KeptInv

LEMMA KeptEnds ==
    ASSUME MemInv, KeptInv, NEW w \in Writers, End(w), UNCHANGED <<setting, docs, revisions>>
    PROVE  KeptInv'
<1>1. Holds(Idle)
    BY DEF Holds, Idle
<1> QED  BY <1>1, KeptMoves DEF End

\* Everything of a turn but the write.
LEMMA TurnKeeps ==
    ASSUME MemInv, KeptInv, NEW w \in Agents,
           \/ \E s \in Scopes : StartTurn(w, s)
           \/ RecallScope(w) \/ Onboard(w) \/ MemoryTool(w) \/ QueryScope(w) \/ EndTurn(w)
    PROVE  KeptInv'
<1> w \in Writers
    BY DEF Writers
<1>0. WriterOK(writers[w]) /\ Holds(writers[w])
    BY DEF MemInv, KeptInv
<1>1. ASSUME NEW s \in Scopes, StartTurn(w, s) PROVE KeptInv'
    <2> DEFINE started == [Idle EXCEPT !.pc = "prompt", !.scope = s, !.unread = RecallScopes(s)]
    <2>1. Holds(started)
        BY DEF Holds, Idle
    <2>2. writers' = [writers EXCEPT ![w] = started] /\ UNCHANGED <<setting, docs, revisions>>
        BY <1>1 DEF StartTurn
    <2> HIDE DEF started
    <2> QED  BY <2>1, <2>2, KeptMoves
<1>2. CASE RecallScope(w)
    <2> DEFINE body == RecallBody(docs[Head(writers[w].unread)])
               lines == IF Bullets(body) = <<>> THEN {} ELSE ToSet(body)
               told == [Hear(w, lines) EXCEPT !.unread = Tail(@)]
    <2>1. /\ writers' = [writers EXCEPT ![w] = told] /\ UNCHANGED <<setting, docs, revisions>>
          /\ writers[w].pc = "prompt"
        BY <1>2 DEF RecallScope, At
    <2> HIDE DEF lines
    <2>2. told.pc = "prompt" /\ told.base = writers[w].base /\ told.content = writers[w].content
        BY <1>0, <2>1 DEF WriterOK, Hear
    <2> HIDE DEF told
    <2>3. Holds(told)
        BY <1>0, <2>1, <2>2 DEF Holds
    <2> QED  BY <2>1, <2>3, KeptMoves
<1>3. CASE Onboard(w)
    <2> DEFINE onboards == writers[w].scope \in Personal /\ IsOutstanding(DetectStatus(docs[writers[w].scope]))
               shown == [writers[w] EXCEPT !.pc = "run", !.onboards = onboards]
    <2>1. /\ writers' = [writers EXCEPT ![w] = shown] /\ UNCHANGED <<setting, docs, revisions>>
          /\ writers[w].pc = "prompt"
        BY <1>3 DEF Onboard, At, MemInv, TablesOK
    <2> HIDE DEF onboards
    <2>2. shown.pc = "run" /\ shown.base = writers[w].base /\ shown.content = writers[w].content
        BY <1>0 DEF WriterOK
    <2> HIDE DEF shown
    <2>3. Holds(shown)
        BY <1>0, <2>1, <2>2 DEF Holds
    <2> QED  BY <2>1, <2>3, KeptMoves
<1>4. CASE MemoryTool(w)
    <2>0. /\ writers[w].pc = "run" /\ UNCHANGED <<setting, docs, revisions>>
          /\ \/ \E facts \in Captures[writers[w].scope] : Capture(w, facts)
             \/ \E terms \in Queries :
                   writers' = [writers EXCEPT ![w].pc = "query", ![w].terms = terms,
                                              ![w].unread = RecallScopes(writers[w].scope)]
             \/ writers' = [writers EXCEPT ![w] = Hear(w, ToSet(RecallBody(docs[writers[w].scope])))]
        BY <1>4 DEF MemoryTool, At
    <2>1. ASSUME NEW facts, Capture(w, facts) PROVE KeptInv'
        <3>0. PICK body, base : body = FoldCapture(docs[writers[w].scope], facts)
                                /\ base = docs[writers[w].scope]
            OBVIOUS
        <3> DEFINE captured == [writers[w] EXCEPT !.pc = "write", !.base = base,
                                                  !.content = body, !.operation = "capture"]
        <3>1. writers' = [writers EXCEPT ![w] = captured]
            BY <2>1, <3>0 DEF Capture
        <3>2. captured.pc = "write" /\ captured.operation = "capture"
            BY <1>0 DEF WriterOK
        <3> HIDE DEF captured
        <3>3. Holds(captured)
            BY <3>2 DEF Holds, Operations
        <3> QED  BY <2>0, <3>1, <3>3, KeptMoves
    <2>2. ASSUME NEW terms, writers' = [writers EXCEPT ![w].pc = "query", ![w].terms = terms,
                                               ![w].unread = RecallScopes(writers[w].scope)]
          PROVE  KeptInv'
        <3>0. PICK unread : unread = RecallScopes(writers[w].scope)
            OBVIOUS
        <3> DEFINE asked == [writers[w] EXCEPT !.pc = "query", !.terms = terms, !.unread = unread]
        <3>1. writers' = [writers EXCEPT ![w] = asked]
            BY <2>2, <3>0 DEF MemInv, TablesOK
        <3>2. asked.pc = "query" /\ asked.base = writers[w].base /\ asked.content = writers[w].content
            BY <1>0 DEF WriterOK
        <3> HIDE DEF asked
        <3>3. Holds(asked)
            BY <1>0, <2>0, <3>2 DEF Holds
        <3> QED  BY <2>0, <3>1, <3>3, KeptMoves
    <2>3. CASE writers' = [writers EXCEPT ![w] = Hear(w, ToSet(RecallBody(docs[writers[w].scope])))]
        <3>0. PICK lines : lines = ToSet(RecallBody(docs[writers[w].scope]))
            OBVIOUS
        <3>1. PICK told : told = Hear(w, lines)
            OBVIOUS
        <3>2. told.pc = "run" /\ told.base = writers[w].base /\ told.content = writers[w].content
            BY <1>0, <2>0, <3>1 DEF WriterOK, Hear
        <3>3. writers' = [writers EXCEPT ![w] = told]
            BY <2>3, <3>0, <3>1
        <3>4. Holds(told)
            BY <1>0, <2>0, <3>2 DEF Holds
        <3> QED  BY <2>0, <3>3, <3>4, KeptMoves
    <2> QED  BY <2>0, <2>1, <2>2, <2>3
<1>5. CASE QueryScope(w)
    <2> DEFINE lines == ToSet(QueryBullets(docs[Head(writers[w].unread)], writers[w].terms, QueryLimit))
               over == [writers[w] EXCEPT !.pc = "run", !.terms = {}]
               told == [Hear(w, lines) EXCEPT !.unread = Tail(@)]
    <2>1. /\ writers' = [writers EXCEPT ![w] = IF writers[w].unread = <<>> THEN over ELSE told]
          /\ UNCHANGED <<setting, docs, revisions>> /\ writers[w].pc = "query"
        BY <1>5 DEF QueryScope, At
    <2> HIDE DEF lines
    <2>2. over.pc = "run" /\ over.base = writers[w].base /\ over.content = writers[w].content
        BY <1>0 DEF WriterOK
    <2>3. told.pc = "query" /\ told.base = writers[w].base /\ told.content = writers[w].content
        BY <1>0, <2>1 DEF WriterOK, Hear
    <2> HIDE DEF over, told
    <2>4. Holds(over) /\ Holds(told)
        BY <1>0, <2>1, <2>2, <2>3 DEF Holds
    <2> QED  BY <2>1, <2>4, KeptMoves
<1>6. CASE EndTurn(w)
    BY <1>6, KeptEnds DEF EndTurn
<1> QED  BY <1>1, <1>2, <1>3, <1>4, <1>5, <1>6

\* Everything of a page but the write.
LEMMA PageKeeps ==
    ASSUME MemInv, KeptInv, NEW w \in Editors,
           (\E s \in Scopes : OpenPage(w, s)) \/ ClosePage(w) \/ Submit(w)
    PROVE  KeptInv'
<1> w \in Writers
    BY DEF Writers
<1>0. WriterOK(writers[w]) /\ Holds(writers[w])
    BY DEF MemInv, KeptInv
<1>1. ASSUME NEW s \in Scopes, OpenPage(w, s) PROVE KeptInv'
    <2> DEFINE opened == [Idle EXCEPT !.pc = "page", !.scope = s, !.base = docs[s]]
    <2>1. opened.pc = "page" /\ opened.content = <<>>
        BY DEF Idle
    <2>2. writers' = [writers EXCEPT ![w] = opened] /\ UNCHANGED <<setting, docs, revisions>>
        BY <1>1 DEF OpenPage
    <2> HIDE DEF opened
    <2>3. Holds(opened)
        BY <2>1 DEF Holds
    <2> QED  BY <2>2, <2>3, KeptMoves
<1>2. CASE ClosePage(w)
    BY <1>2, KeptEnds DEF ClosePage
<1>3. CASE Submit(w)
    <2>0. /\ writers[w].pc = "page" /\ UNCHANGED <<setting, docs, revisions>>
          /\ \/ \E draft : Save(w, draft)
             \/ \E revision : Restore(w, revision)
        BY <1>3 DEF Submit, At
    <2>1. ASSUME NEW content, NEW operation \in Operations, Goto(w, "write", content, operation)
          PROVE  KeptInv'
        <3> DEFINE submitted ==
                [writers[w] EXCEPT !.pc = "write", !.content = content, !.operation = operation]
        <3>1. writers' = [writers EXCEPT ![w] = submitted]
            BY <2>1 DEF Goto, MemInv, TablesOK
        <3>2. submitted.pc = "write" /\ submitted.operation = operation
            BY <1>0 DEF WriterOK
        <3> HIDE DEF submitted
        <3>3. Holds(submitted)
            BY <3>2 DEF Holds
        <3> QED  BY <2>0, <3>1, <3>3, KeptMoves
    <2>2. ASSUME NEW draft, Save(w, draft) PROVE KeptInv'
        <3>1. Goto(w, "write", draft, "replace") \/ End(w)
            BY <2>2 DEF Save
        <3>2. "replace" \in Operations
            BY DEF Operations
        <3> QED  BY <2>0, <2>1, <3>1, <3>2, KeptEnds
    <2>3. ASSUME NEW revision, Restore(w, revision) PROVE KeptInv'
        <3>1. Goto(w, "write", revision, "restore") \/ End(w)
            BY <2>3 DEF Restore
        <3>2. "restore" \in Operations
            BY DEF Operations
        <3> QED  BY <2>0, <2>1, <3>1, <3>2, KeptEnds
    <2> QED  BY <2>0, <2>2, <2>3
<1> QED  BY <1>1, <1>2, <1>3

\* The write: the revision is of the document, under the operation.
LEMMA WriteKeeps ==
    ASSUME MemInv, HeardInv, KeptInv, NEW w \in Writers, WriteRevision(w)
    PROVE  KeptInv'
<1> PICK t : t = writers[w].scope
    OBVIOUS
<1> DEFINE row == Row(writers[w].content, writers[w].operation)
<1>0. /\ WriterOK(writers[w]) /\ Heeds(w, writers[w]) /\ Holds(writers[w])
      /\ writers[w].pc = "write" /\ t \in Scopes
      /\ revisions' = [revisions EXCEPT ![t] = Append(revisions[t], row)]
      /\ Written(w) /\ setting' = setting
    BY DEF MemInv, HeardInv, KeptInv, WriterOK, WriteRevision, At
<1>1. row \in Kept
    <2>1. writers[w].content \in Document
        BY <1>0, LinesMakeDocuments DEF Heeds
    <2> QED  BY <1>0, <2>1 DEF Row, Kept, Holds
<1> HIDE DEF row
<1>2. ASSUME NEW s \in Scopes PROVE revisions'[s] \in Seq(Kept)
    <2>1. \A rows \in Seq(Kept) : Append(rows, row) \in Seq(Kept)
        BY <1>1
    <2>2. revisions[s] \in Seq(Kept)
        BY DEF KeptInv
    <2>3. revisions'[s] = IF s = t THEN Append(revisions[t], row) ELSE revisions[s]
        BY <1>0 DEF MemInv, TablesOK
    <2> QED  BY <2>1, <2>2, <2>3
<1>3. ASSUME NEW v \in Writers PROVE Holds(writers'[v])
    <2> DEFINE after == [writers[w] EXCEPT !.pc = "run", !.base = <<>>, !.content = <<>>, !.operation = ""]
    <2>1. writers'[v] = writers[v] \/ writers'[v] = after \/ writers'[v] = Idle
        BY <1>0 DEF Written, MemInv, TablesOK
    <2>2. after.pc = "run" /\ after.base = <<>> /\ after.content = <<>>
        BY <1>0 DEF WriterOK
    <2> HIDE DEF after
    <2>3. Holds(after) /\ Holds(Idle)
        BY <2>2 DEF Holds, Idle
    <2> QED  BY <2>1, <2>3 DEF KeptInv
<1>4. \A v \in Writers : Holds(writers[v])'
    BY <1>3 DEF Holds
<1> QED  BY <1>0, <1>2, <1>4 DEF KeptInv

LEMMA StepKept == MemInv /\ HeardInv /\ KeptInv /\ [Next]_vars => KeptInv'
<1> SUFFICES ASSUME MemInv, HeardInv, KeptInv, [Next]_vars PROVE KeptInv'
    OBVIOUS
<1>1. CASE Next
    BY <1>1, TurnKeeps, PageKeeps, WriteKeeps DEF Next
<1>2. CASE UNCHANGED vars
    BY <1>2 DEF vars, KeptInv, Holds
<1> QED  BY <1>1, <1>2

LEMMA KeptHolds == Spec => []KeptInv
BY InitKept, StepKept, HeardHolds, PTL DEF Spec

\* A notebook and its revisions are lines, whatever agents capture into it and
\* editors save and restore; a revision names the operation that wrote it, and
\* whoever waits to write holds a document of a scope there is
\* (store/memory.rs, `write`).
THEOREM MemoryTypeCorrect == Spec => []TypeOK
<1>1. ASSUME MemInv, HeardInv, KeptInv PROVE TypeOK
    <2>1. docs \in [Scopes -> Document]
        <3>1. \A s \in Scopes : docs[s] \in Document
            BY <1>1, LinesMakeDocuments DEF HeardInv
        <3> QED  BY <1>1, <3>1 DEF MemInv, TablesOK
    <2>2. \A s \in Scopes :
              revisions[s] \in Seq([content : Document, operation : {"capture", "replace", "restore"}])
        BY <1>1 DEF KeptInv, Kept, Operations
    <2>3. ASSUME NEW w \in Writers
          PROVE  /\ writers[w].pc \in {"idle", "prompt", "run", "query", "page", "write"}
                 /\ writers[w].pc # "idle" => writers[w].scope \in Scopes
                 /\ {writers[w].base, writers[w].content} \subseteq Document
                 /\ writers[w].unread \in Seq(Scopes)
                 /\ writers[w].heard \subseteq Line
        <3>0. WriterOK(writers[w]) /\ Heeds(w, writers[w]) /\ Holds(writers[w])
            BY <1>1 DEF MemInv, HeardInv, KeptInv
        <3>1. <<>> \in Document /\ <<>> \in Seq(Scopes)
            BY DEF Document
        <3>2. CASE writers[w].pc = "idle"
            <4>1. writers[w] = Idle
                BY <3>0, <3>2 DEF Holds
            <4>2. Idle.base = <<>> /\ Idle.content = <<>> /\ Idle.unread = <<>> /\ Idle.heard = {}
                BY DEF Idle
            <4> QED  BY <3>1, <3>2, <4>1, <4>2
        <3>3. CASE writers[w].pc # "idle"
            <4> PICK s : s = writers[w].scope
                OBVIOUS
            <4>1. s \in Scopes
                BY <3>0, <3>3 DEF WriterOK
            <4>2. writers[w].base \in Document
                <5>1. CASE writers[w].pc \in {"page", "write"}
                    <6>1. Known(s, writers[w].base)
                        BY <3>0, <5>1 DEF WriterOK
                    <6>2. writers[w].base \in Seq(LinesOf(s))
                        BY <1>1, <4>1, <6>1, HeaderIsALine DEF Known, HeardInv
                    <6> QED  BY <4>1, <6>2, LinesMakeDocuments
                <5>2. CASE writers[w].pc \notin {"page", "write"}
                    BY <3>0, <3>1, <5>2 DEF Holds
                <5> QED  BY <5>1, <5>2
            <4>3. writers[w].content \in Document
                <5>1. CASE writers[w].pc = "write"
                    BY <3>0, <4>1, <5>1, LinesMakeDocuments DEF Heeds
                <5>2. CASE writers[w].pc # "write"
                    BY <3>0, <3>1, <5>2 DEF Holds
                <5> QED  BY <5>1, <5>2
            <4>4. writers[w].unread \in Seq(Scopes)
                <5>1. writers[w].unread \in Seq(Near(s)) /\ Near(s) \subseteq Scopes
                    BY <3>0, <4>1, NearIsHeard DEF Heeds
                <5> QED  BY <5>1
            <4>5. writers[w].heard \subseteq Line
                <5>1. writers[w].heard \subseteq HeardFrom(s)
                    BY <3>0, <3>3 DEF Heeds
                <5>2. LinesOf(s) \subseteq Line /\ LinesOf(Org) \subseteq Line
                    BY <4>1, LinesAreLines, MemoryAssumption
                <5>3. HeardFrom(s) \subseteq Line
                    BY <5>2 DEF HeardFrom
                <5> QED  BY <5>1, <5>3
            <4> QED  BY <3>0, <3>3, <4>1, <4>2, <4>3, <4>4, <4>5 DEF WriterOK
        <3> QED  BY <3>2, <3>3
    <2> QED  BY <1>1, <2>1, <2>2, <2>3 DEF TypeOK, KeptInv
<1> QED  BY <1>1, KeptHolds, HeardHolds, PTL

=============================================================================
