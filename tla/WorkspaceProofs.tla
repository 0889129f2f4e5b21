--------------------------- MODULE WorkspaceProofs ---------------------------
(***************************************************************************)
(* What TLAPS proves of Workspace: for every set of scopes, turns, texts,   *)
(* modules, answers and postures, what a turn runs on was screened, a        *)
(* command finds the nearest secrets in its environment, handles stand for   *)
(* what was given, the last module's text wins, and the tables keep their    *)
(* rows.                                                                    *)
(***************************************************************************)
EXTENDS Workspace, FiniteSetTheorems, WellFoundedInduction, TLAPS

-----------------------------------------------------------------------------
(* The inductive invariant *)

Fields == DOMAIN NoTurn

\* The tables are functions, and the rows of turns are records of their fields.
\* The texts are of no particular type: modules write what they like.
Shapes ==
    /\ config \in Config
    /\ DOMAIN turns = Turns
    /\ \A t \in Turns : DOMAIN turns[t] = Fields /\ turns[t].scope \in Scopes
    /\ DOMAIN transcript = Scopes
    /\ \A s \in Scopes : \E Rows : transcript[s] \in Seq(Rows)
    /\ DOMAIN cleared = Scopes

\* A turn that is past its resolution goes by the posture of its scope.
GoesByPosture(x) ==
    x.pc # "idle" =>
        /\ x.screens <=> Posture(x.scope) = "auto"
        /\ x.approves <=> Posture(x.scope) = "strict"

\* From the user entry on, the text of a scope that screens has been screened.
Settled(x) == x.pc \in {"record", "run", "materialize", "exec", "share"}
TextIsCleared(x) ==
    Settled(x) /\ Posture(x.scope) = "auto" => x.text \in cleared[x.scope]

QuestionsAreCleared(s) ==
    Posture(s) = "auto" =>
        \A i \in DOMAIN transcript[s] :
            transcript[s][i].kind = "user" => transcript[s][i].text \in cleared[s]

ScreenInv ==
    /\ Shapes
    /\ \A t \in Turns : GoesByPosture(turns[t]) /\ TextIsCleared(turns[t])
    /\ \A s \in Scopes : QuestionsAreCleared(s)

-----------------------------------------------------------------------------
(* Steps of one turn *)

LEMMA SamePosture ==
    ASSUME config' = config
    PROVE  \A s : (Posture(s))' = Posture(s)
BY DEF Posture, Compose, Rank

LEMMA EmptyTurn ==
    /\ DOMAIN NoTurn = Fields
    /\ NoTurn.scope \in Scopes
    /\ NoTurn.pc = "idle"
BY WorkspaceAssumption DEF Fields, NoTurn

\* What a new row of one turn has to be, for the rows of all to stay as they should.
Fits(row) ==
    /\ DOMAIN row = Fields
    /\ row.scope \in Scopes
    /\ GoesByPosture(row)
    /\ Settled(row) /\ Posture(row.scope) = "auto" => row.text \in cleared'[row.scope]

\* No text is taken back.
StaysCleared ==
    /\ DOMAIN cleared' = Scopes
    /\ \A s \in Scopes : cleared[s] \subseteq cleared'[s]

TurnsFit ==
    /\ DOMAIN turns = Turns
    /\ \A t \in Turns : /\ DOMAIN turns[t] = Fields /\ turns[t].scope \in Scopes
                       /\ GoesByPosture(turns[t]) /\ TextIsCleared(turns[t])

LEMMA OneTurnMoves ==
    ASSUME ScreenInv, config' = config, StaysCleared,
           NEW t \in Turns, NEW row, Fits(row), turns' = [turns EXCEPT ![t] = row]
    PROVE  TurnsFit'
<1>1. DOMAIN turns' = Turns
  BY DEF ScreenInv, Shapes
<1>2. ASSUME NEW u \in Turns
      PROVE  /\ DOMAIN turns'[u] = Fields /\ turns'[u].scope \in Scopes
             /\ GoesByPosture(turns'[u])
             /\ Settled(turns'[u]) /\ Posture(turns'[u].scope) = "auto" =>
                   turns'[u].text \in cleared'[turns'[u].scope]
  <2>1. CASE u = t
    <3>1. turns'[u] = row
      BY <2>1 DEF ScreenInv, Shapes
    <3>2. QED
      BY <3>1 DEF Fits
  <2>2. CASE u # t
    <3>1. turns'[u] = turns[u]
      BY <2>2 DEF ScreenInv, Shapes
    <3>2. DOMAIN turns[u] = Fields /\ turns[u].scope \in Scopes
      BY DEF ScreenInv, Shapes
    <3>3. GoesByPosture(turns[u]) /\ TextIsCleared(turns[u])
      BY DEF ScreenInv
    <3>4. QED
      BY <3>1, <3>2, <3>3 DEF TextIsCleared, StaysCleared
  <2>3. QED
    BY <2>1, <2>2
<1>3. \A s : (Posture(s))' = Posture(s)
  BY SamePosture
<1>4. \A u \in Turns : (GoesByPosture(turns[u]))' /\ (TextIsCleared(turns[u]))'
  BY <1>2, <1>3 DEF GoesByPosture, TextIsCleared, Settled
<1>5. QED
  BY <1>1, <1>2, <1>4 DEF TurnsFit

\* A turn that keeps its scope, its text and what it found of the posture.
LEMMA SameRequest ==
    ASSUME ScreenInv, cleared' = cleared, NEW t \in Turns, NEW row,
           DOMAIN row = Fields,
           row.scope = turns[t].scope, row.text = turns[t].text,
           row.screens = turns[t].screens, row.approves = turns[t].approves,
           turns[t].pc # "idle",
           Settled(row) => Settled(turns[t])
    PROVE  Fits(row)
<1>1. turns[t].scope \in Scopes
  BY DEF ScreenInv, Shapes
<1>2. GoesByPosture(turns[t]) /\ TextIsCleared(turns[t])
  BY DEF ScreenInv
<1>3. GoesByPosture(row)
  BY <1>2 DEF GoesByPosture
<1>4. QED
  BY <1>1, <1>2, <1>3 DEF Fits, TextIsCleared

LEMMA EmptyFits == ASSUME ScreenInv PROVE Fits(NoTurn)
BY EmptyTurn DEF Fits, GoesByPosture, Settled

-----------------------------------------------------------------------------
(* The actions that leave a turn its request *)

LEMMA ProvisionFits ==
    ASSUME ScreenInv, NEW t \in Turns, Provision(t)
    PROVE  TurnsFit'
<1> DEFINE row == [turns[t] EXCEPT !.pc = "rewrite"]
<1>1. DOMAIN turns[t] = Fields /\ DOMAIN turns = Turns
  BY DEF ScreenInv, Shapes
<1>2. turns[t].pc = "provision"
  BY DEF Provision, At
<1>3. turns' = [turns EXCEPT ![t] = row] /\ config' = config /\ cleared' = cleared
  BY <1>1 DEF Provision, Goto
<1>4. /\ DOMAIN row = Fields
      /\ row.scope = turns[t].scope /\ row.text = turns[t].text
      /\ row.screens = turns[t].screens /\ row.approves = turns[t].approves
      /\ Settled(row) => Settled(turns[t])
  BY <1>1, <1>2 DEF Fields, NoTurn, Settled
<1> HIDE DEF row
<1>5. Fits(row)
  BY <1>2, <1>3, <1>4, SameRequest
<1>6. StaysCleared
  BY <1>3 DEF StaysCleared, ScreenInv, Shapes
<1>7. QED
  BY <1>3, <1>5, <1>6, OneTurnMoves

LEMMA RecordFits ==
    ASSUME ScreenInv, NEW t \in Turns, Record(t)
    PROVE  TurnsFit'
<1> DEFINE row == [turns[t] EXCEPT !.pc = "run"]
<1>1. DOMAIN turns[t] = Fields /\ DOMAIN turns = Turns
  BY DEF ScreenInv, Shapes
<1>2. turns[t].pc = "record"
  BY DEF Record, At
<1>3. turns' = [turns EXCEPT ![t] = row] /\ config' = config /\ cleared' = cleared
  BY <1>1 DEF Record, Goto
<1>4. /\ DOMAIN row = Fields
      /\ row.scope = turns[t].scope /\ row.text = turns[t].text
      /\ row.screens = turns[t].screens /\ row.approves = turns[t].approves
      /\ Settled(row) => Settled(turns[t])
  BY <1>1, <1>2 DEF Fields, NoTurn, Settled
<1> HIDE DEF row
<1>5. Fits(row)
  BY <1>2, <1>3, <1>4, SameRequest
<1>6. StaysCleared
  BY <1>3 DEF StaysCleared, ScreenInv, Shapes
<1>7. QED
  BY <1>3, <1>5, <1>6, OneTurnMoves

LEMMA ExecuteFits ==
    ASSUME ScreenInv, NEW t \in Turns, Execute(t)
    PROVE  TurnsFit'
<1> DEFINE row == [turns[t] EXCEPT
             !.pc = "materialize", !.calls = turns[t].calls + 1, !.env = NoEnv,
             !.touched = {}, !.unread = Layers(turns[t].scope)]
<1>1. DOMAIN turns[t] = Fields /\ DOMAIN turns = Turns
  BY DEF ScreenInv, Shapes
<1>2. turns[t].pc = "run"
  BY DEF Execute, At, Calls
<1>3. turns' = [turns EXCEPT ![t] = row] /\ config' = config /\ cleared' = cleared
  BY <1>1 DEF Execute, Goto
<1>4. /\ DOMAIN row = Fields
      /\ row.scope = turns[t].scope /\ row.text = turns[t].text
      /\ row.screens = turns[t].screens /\ row.approves = turns[t].approves
      /\ Settled(row) => Settled(turns[t])
  BY <1>1, <1>2 DEF Fields, NoTurn, Settled
<1> HIDE DEF row
<1>5. Fits(row)
  BY <1>2, <1>3, <1>4, SameRequest
<1>6. StaysCleared
  BY <1>3 DEF StaysCleared, ScreenInv, Shapes
<1>7. QED
  BY <1>3, <1>5, <1>6, OneTurnMoves

LEMMA ExecFits ==
    ASSUME ScreenInv, NEW t \in Turns, Exec(t)
    PROVE  TurnsFit'
<1> DEFINE row == [turns[t] EXCEPT !.pc = "run", !.env = NoEnv, !.touched = {}]
<1>1. DOMAIN turns[t] = Fields /\ DOMAIN turns = Turns
  BY DEF ScreenInv, Shapes
<1>2. turns[t].pc = "exec"
  BY DEF Exec, At
<1>3. turns' = [turns EXCEPT ![t] = row] /\ config' = config /\ cleared' = cleared
  BY <1>1 DEF Exec, Goto
<1>4. /\ DOMAIN row = Fields
      /\ row.scope = turns[t].scope /\ row.text = turns[t].text
      /\ row.screens = turns[t].screens /\ row.approves = turns[t].approves
      /\ Settled(row) => Settled(turns[t])
  BY <1>1, <1>2 DEF Fields, NoTurn, Settled
<1> HIDE DEF row
<1>5. Fits(row)
  BY <1>2, <1>3, <1>4, SameRequest
<1>6. StaysCleared
  BY <1>3 DEF StaysCleared, ScreenInv, Shapes
<1>7. QED
  BY <1>3, <1>5, <1>6, OneTurnMoves

LEMMA WriteFileFits ==
    ASSUME ScreenInv, NEW t \in Turns, NEW path, WriteFile(t, path)
    PROVE  TurnsFit'
<1> DEFINE row == [turns[t] EXCEPT !.calls = turns[t].calls + 1]
<1>1. DOMAIN turns[t] = Fields /\ DOMAIN turns = Turns
  BY DEF ScreenInv, Shapes
<1>2. turns[t].pc = "run"
  BY DEF WriteFile, At, Calls
<1>3. turns' = [turns EXCEPT ![t] = row] /\ config' = config /\ cleared' = cleared
  BY <1>1 DEF WriteFile, Goto
<1>4. /\ DOMAIN row = Fields
      /\ row.scope = turns[t].scope /\ row.text = turns[t].text
      /\ row.screens = turns[t].screens /\ row.approves = turns[t].approves
      /\ Settled(row) => Settled(turns[t])
  BY <1>1, <1>2 DEF Fields, NoTurn, Settled
<1> HIDE DEF row
<1>5. Fits(row)
  BY <1>2, <1>3, <1>4, SameRequest
<1>6. StaysCleared
  BY <1>3 DEF StaysCleared, ScreenInv, Shapes
<1>7. QED
  BY <1>3, <1>5, <1>6, OneTurnMoves

LEMMA PutGrantFits ==
    ASSUME ScreenInv, NEW t \in Turns, PutGrant(t)
    PROVE  TurnsFit'
<1> DEFINE row == [turns[t] EXCEPT !.pc = "run", !.share = {}]
<1>1. DOMAIN turns[t] = Fields /\ DOMAIN turns = Turns
  BY DEF ScreenInv, Shapes
<1>2. turns[t].pc = "share"
  BY DEF PutGrant, At
<1>3. turns' = [turns EXCEPT ![t] = row] /\ config' = config /\ cleared' = cleared
  BY <1>1 DEF PutGrant, Goto
<1>4. /\ DOMAIN row = Fields
      /\ row.scope = turns[t].scope /\ row.text = turns[t].text
      /\ row.screens = turns[t].screens /\ row.approves = turns[t].approves
      /\ Settled(row) => Settled(turns[t])
  BY <1>1, <1>2 DEF Fields, NoTurn, Settled
<1> HIDE DEF row
<1>5. Fits(row)
  BY <1>2, <1>3, <1>4, SameRequest
<1>6. StaysCleared
  BY <1>3 DEF StaysCleared, ScreenInv, Shapes
<1>7. QED
  BY <1>3, <1>5, <1>6, OneTurnMoves

LEMMA ShareFits ==
    ASSUME ScreenInv, NEW t \in Turns, NEW path, NEW grantee, NEW permission,
           Share(t, path, grantee, permission)
    PROVE  TurnsFit'
<1> DEFINE row == [turns[t] EXCEPT
             !.calls = turns[t].calls + 1, !.pc = "share",
             !.share = {[owner |-> turns[t].scope, path |-> path, grantee |-> grantee,
                         permission |-> permission]}]
<1>1. DOMAIN turns[t] = Fields /\ DOMAIN turns = Turns
  BY DEF ScreenInv, Shapes
<1>2. turns[t].pc = "run"
  BY DEF Share, At, Calls
<1>3. turns' = [turns EXCEPT ![t] = row] /\ config' = config /\ cleared' = cleared
  BY <1>1 DEF Share, Goto
<1>4. /\ DOMAIN row = Fields
      /\ row.scope = turns[t].scope /\ row.text = turns[t].text
      /\ row.screens = turns[t].screens /\ row.approves = turns[t].approves
      /\ Settled(row) => Settled(turns[t])
  BY <1>1, <1>2 DEF Fields, NoTurn, Settled
<1> HIDE DEF row
<1>5. Fits(row)
  BY <1>2, <1>3, <1>4, SameRequest
<1>6. StaysCleared
  BY <1>3 DEF StaysCleared, ScreenInv, Shapes
<1>7. QED
  BY <1>3, <1>5, <1>6, OneTurnMoves

LEMMA MaterializeLayerFits ==
    ASSUME ScreenInv, NEW t \in Turns, MaterializeLayer(t)
    PROVE  TurnsFit'
<1> DEFINE row == [turns[t] EXCEPT
             !.unread = Tail(turns[t].unread),
             !.env = IF Len(turns[t].unread) = 1
                     THEN Exported(Overlay(turns[t].env, keychain[Head(turns[t].unread)]))
                     ELSE Overlay(turns[t].env, keychain[Head(turns[t].unread)]),
             !.pc = IF Len(turns[t].unread) = 1 THEN "exec" ELSE "materialize"]
<1>1. DOMAIN turns[t] = Fields /\ DOMAIN turns = Turns
  BY DEF ScreenInv, Shapes
<1>2. turns[t].pc = "materialize"
  BY DEF MaterializeLayer, At
<1>3. turns' = [turns EXCEPT ![t] = row] /\ config' = config /\ cleared' = cleared
  BY <1>1 DEF MaterializeLayer, Goto
<1>4. /\ DOMAIN row = Fields
      /\ row.scope = turns[t].scope /\ row.text = turns[t].text
      /\ row.screens = turns[t].screens /\ row.approves = turns[t].approves
      /\ Settled(row) => Settled(turns[t])
  BY <1>1, <1>2 DEF Fields, NoTurn, Settled
<1> HIDE DEF row
<1>5. Fits(row)
  BY <1>2, <1>3, <1>4, SameRequest
<1>6. StaysCleared
  BY <1>3 DEF StaysCleared, ScreenInv, Shapes
<1>7. QED
  BY <1>3, <1>5, <1>6, OneTurnMoves

LEMMA ChangeFits ==
    ASSUME ScreenInv, NEW s, NEW n, NEW value, Change(s, n, value)
    PROVE  TurnsFit'
<1>1. config' = config /\ cleared' = cleared /\ DOMAIN turns' = Turns
  BY DEF Change
<1>2. ASSUME NEW t \in Turns
      PROVE  /\ DOMAIN turns'[t] = Fields
             /\ turns'[t].pc = turns[t].pc
             /\ turns'[t].scope = turns[t].scope /\ turns'[t].text = turns[t].text
             /\ turns'[t].screens = turns[t].screens /\ turns'[t].approves = turns[t].approves
  <2>1. DOMAIN turns[t] = Fields
    BY DEF ScreenInv, Shapes
  <2>2. turns'[t] = turns[t] \/ turns'[t] = [turns[t] EXCEPT !.touched = turns[t].touched \cup {n}]
    BY DEF Change
  <2>3. QED
    BY <2>1, <2>2 DEF Fields, NoTurn
<1>3. \A s_1 : (Posture(s_1))' = Posture(s_1)
  BY <1>1, SamePosture
<1>4. ASSUME NEW t \in Turns
      PROVE  /\ turns'[t].scope \in Scopes
             /\ (GoesByPosture(turns[t]))' /\ (TextIsCleared(turns[t]))'
  <2>1. turns[t].scope \in Scopes /\ GoesByPosture(turns[t]) /\ TextIsCleared(turns[t])
    BY DEF ScreenInv, Shapes
  <2>2. QED
    BY <1>1, <1>2, <1>3, <2>1 DEF GoesByPosture, TextIsCleared, Settled
<1>5. QED
  BY <1>1, <1>2, <1>4 DEF TurnsFit

-----------------------------------------------------------------------------
(* The actions before the harness *)

\* Whatever posture a scope has, the turn writes it down.
LEMMA ResolveFits ==
    ASSUME ScreenInv, NEW t \in Turns, NEW s \in Scopes, NEW text, Resolve(t, s, text)
    PROVE  TurnsFit'
<1>0. PICK handles : turns' = [turns EXCEPT ![t] = [NoTurn EXCEPT
             !.pc = "provision", !.scope = s, !.asked = text, !.text = text,
             !.screens = Posture(s) = "auto", !.approves = Posture(s) = "strict",
             !.handles = handles]]
  BY DEF Resolve
<1> DEFINE row == [NoTurn EXCEPT
             !.pc = "provision", !.scope = s, !.asked = text, !.text = text,
             !.screens = Posture(s) = "auto", !.approves = Posture(s) = "strict",
             !.handles = handles]
<1>1. turns' = [turns EXCEPT ![t] = row] /\ config' = config /\ cleared' = cleared
  BY <1>0 DEF Resolve
<1>2. /\ DOMAIN row = Fields
      /\ row.pc = "provision" /\ row.scope = s
  BY DEF Fields, NoTurn
<1>3. row.screens = (Posture(s) = "auto") /\ row.approves = (Posture(s) = "strict")
  BY DEF NoTurn
<1> HIDE DEF row
<1>4. GoesByPosture(row)
  BY <1>2, <1>3, Zenon DEF GoesByPosture
<1>5. Fits(row)
  BY <1>2, <1>4 DEF Fits, Settled
<1>6. StaysCleared
  BY <1>1 DEF StaysCleared, ScreenInv, Shapes
<1>7. QED
  BY <1>1, <1>5, <1>6, OneTurnMoves

\* A text that was rewritten is one that has to be screened, if any has.
LEMMA RewriteFits ==
    ASSUME ScreenInv, NEW t \in Turns, Rewrite(t)
    PROVE  TurnsFit'
<1>1. PICK responses : turns' = [turns EXCEPT
             ![t].text = Folded(turns[t].text, responses),
             ![t].pc = IF turns[t].screens THEN "screen" ELSE "record"]
  BY DEF Rewrite
<1> DEFINE row == [turns[t] EXCEPT
             !.text = Folded(turns[t].text, responses),
             !.pc = IF turns[t].screens THEN "screen" ELSE "record"]
<1>2. DOMAIN turns[t] = Fields /\ DOMAIN turns = Turns /\ turns[t].scope \in Scopes
  BY DEF ScreenInv, Shapes
<1>3. turns' = [turns EXCEPT ![t] = row] /\ config' = config /\ cleared' = cleared
  BY <1>1, <1>2 DEF Rewrite
<1>4. /\ DOMAIN row = Fields
      /\ row.scope = turns[t].scope
      /\ row.screens = turns[t].screens /\ row.approves = turns[t].approves
      /\ row.pc = IF turns[t].screens THEN "screen" ELSE "record"
  BY <1>2 DEF Fields, NoTurn
<1>5. turns[t].pc # "idle" /\ GoesByPosture(turns[t])
  BY DEF Rewrite, At, ScreenInv
<1> HIDE DEF row
<1>6. GoesByPosture(row)
  BY <1>4, <1>5 DEF GoesByPosture
<1>7. Settled(row) => Posture(row.scope) # "auto"
  BY <1>4, <1>5 DEF GoesByPosture, Settled
<1>8. Fits(row)
  BY <1>2, <1>4, <1>6, <1>7 DEF Fits
<1>9. StaysCleared
  BY <1>3 DEF StaysCleared, ScreenInv, Shapes
<1>10. QED
  BY <1>3, <1>8, <1>9, OneTurnMoves

LEMMA ScreenFits ==
    ASSUME ScreenInv, NEW t \in Turns, NEW verdict, Screen(t, verdict)
    PROVE  TurnsFit' /\ StaysCleared
<1> DEFINE row == [turns[t] EXCEPT !.pc = "record"]
<1>1. DOMAIN turns[t] = Fields /\ DOMAIN turns = Turns /\ turns[t].scope \in Scopes
  BY DEF ScreenInv, Shapes
<1>2. /\ turns' = [turns EXCEPT ![t] = row] /\ config' = config
      /\ cleared' = [cleared EXCEPT
             ![turns[t].scope] = cleared[turns[t].scope] \cup {turns[t].text}]
  BY <1>1 DEF Screen, Goto
<1>3. DOMAIN cleared = Scopes
  BY DEF ScreenInv, Shapes
<1>4. StaysCleared /\ turns[t].text \in cleared'[turns[t].scope]
  BY <1>1, <1>2, <1>3 DEF StaysCleared
<1>5. turns[t].pc # "idle" /\ GoesByPosture(turns[t])
  BY DEF Screen, At, ScreenInv
<1>6. /\ DOMAIN row = Fields
      /\ row.scope = turns[t].scope /\ row.text = turns[t].text
      /\ row.screens = turns[t].screens /\ row.approves = turns[t].approves
  BY <1>1 DEF Fields, NoTurn
<1> HIDE DEF row
<1>7. Fits(row)
  BY <1>1, <1>4, <1>5, <1>6 DEF Fits, GoesByPosture
<1>8. QED
  BY <1>2, <1>4, <1>7, OneTurnMoves

LEMMA EndFits ==
    ASSUME ScreenInv, config' = config, cleared' = cleared, NEW t \in Turns,
           turns' = [turns EXCEPT ![t] = NoTurn]
    PROVE  TurnsFit'
<1>1. StaysCleared
  BY DEF StaysCleared, ScreenInv, Shapes
<1>2. QED
  BY <1>1, EmptyFits, OneTurnMoves

-----------------------------------------------------------------------------
(* The transcript *)

TranscriptFits ==
    /\ DOMAIN transcript = Scopes
    /\ \A s \in Scopes : /\ \E Rows : transcript[s] \in Seq(Rows)
                        /\ QuestionsAreCleared(s)

LEMMA SameTranscript ==
    ASSUME ScreenInv, config' = config, StaysCleared, transcript' = transcript
    PROVE  TranscriptFits'
<1>1. \A s : (Posture(s))' = Posture(s)
  BY SamePosture
<1>2. QED
  BY <1>1 DEF ScreenInv, Shapes, StaysCleared, TranscriptFits, QuestionsAreCleared

\* An entry at the end is a notice, or a question that was cleared.
LEMMA LongerTranscript ==
    ASSUME ScreenInv, config' = config, cleared' = cleared,
           NEW s \in Scopes, NEW kind, NEW text, Add(s, kind, text),
           kind = "user" /\ Posture(s) = "auto" => text \in cleared[s]
    PROVE  TranscriptFits'
<1> DEFINE entry == [kind |-> kind, text |-> text]
<1>1. transcript' = [transcript EXCEPT ![s] = Append(transcript[s], entry)]
  BY DEF Add
<1>2. DOMAIN transcript = Scopes
  BY DEF ScreenInv, Shapes
<1>3. \A u : (Posture(u))' = Posture(u)
  BY SamePosture
<1>4. entry.kind = kind /\ entry.text = text
  OBVIOUS
<1> HIDE DEF entry
<1>5. ASSUME NEW u \in Scopes
      PROVE  (\E Rows : transcript'[u] \in Seq(Rows)) /\ (QuestionsAreCleared(u))'
  <2>1. PICK Rows : transcript[u] \in Seq(Rows)
    BY DEF ScreenInv, Shapes
  <2>2. QuestionsAreCleared(u)
    BY DEF ScreenInv
  <2>3. CASE u # s
    <3>1. transcript'[u] = transcript[u]
      BY <1>1, <1>2, <2>3
    <3>2. QED
      BY <1>3, <2>1, <2>2, <3>1 DEF QuestionsAreCleared
  <2>4. CASE u = s
    <3>1. transcript'[u] = Append(transcript[u], entry)
      BY <1>1, <1>2, <2>4
    <3>2. transcript[u] \in Seq(Rows \cup {entry})
      BY <2>1
    <3>3. transcript'[u] \in Seq(Rows \cup {entry})
      BY <3>1, <3>2
    <3>4. \A i \in DOMAIN transcript'[u] :
             transcript'[u][i] = entry \/ (i \in DOMAIN transcript[u] /\ transcript'[u][i] = transcript[u][i])
      BY <3>1, <3>2
    <3>5. (QuestionsAreCleared(u))'
      BY <1>3, <1>4, <2>2, <2>4, <3>4 DEF QuestionsAreCleared
    <3>6. QED
      BY <3>3, <3>5
  <2>5. QED
    BY <2>3, <2>4
<1>6. DOMAIN transcript' = Scopes
  BY <1>1, <1>2
<1>7. QED
  BY <1>5, <1>6 DEF TranscriptFits

-----------------------------------------------------------------------------
(* The invariant *)

LEMMA InitScreen == Init => ScreenInv
<1> SUFFICES ASSUME Init PROVE ScreenInv
  OBVIOUS
<1>1. config \in Config
  BY WorkspaceAssumption DEF Init
<1>2. DOMAIN turns = Turns /\ \A t \in Turns : turns[t] = NoTurn
  BY DEF Init
<1>3. \A t \in Turns : /\ DOMAIN turns[t] = Fields /\ turns[t].scope \in Scopes
                      /\ GoesByPosture(turns[t]) /\ TextIsCleared(turns[t])
  BY <1>2, EmptyTurn DEF GoesByPosture, TextIsCleared, Settled
<1>4. DOMAIN transcript = Scopes /\ DOMAIN cleared = Scopes
  BY DEF Init
<1>5. \A s \in Scopes : transcript[s] = <<>>
  BY DEF Init
<1>6. \A s \in Scopes : (\E Rows : transcript[s] \in Seq(Rows)) /\ QuestionsAreCleared(s)
  <2>1. TAKE s \in Scopes
  <2>2. transcript[s] = <<>> /\ <<>> \in Seq({})
    BY <1>5
  <2>3. QED
    BY <2>2 DEF QuestionsAreCleared
<1>7. QED
  BY <1>1, <1>2, <1>3, <1>4, <1>6 DEF ScreenInv, Shapes

LEMMA Assembled ==
    ASSUME ScreenInv, config' = config, StaysCleared, TurnsFit', TranscriptFits'
    PROVE  ScreenInv'
BY DEF ScreenInv, Shapes, StaysCleared, TurnsFit, TranscriptFits

\* A step of a turn that neither screens nor writes to the transcript.
LEMMA QuietStep ==
    ASSUME ScreenInv, config' = config, cleared' = cleared, transcript' = transcript, TurnsFit'
    PROVE  ScreenInv'
<1>1. StaysCleared
  BY DEF StaysCleared, ScreenInv, Shapes
<1>2. QED
  BY <1>1, SameTranscript, Assembled

LEMMA NextScreen == ScreenInv /\ [Next]_vars => ScreenInv'
<1> SUFFICES ASSUME ScreenInv, [Next]_vars PROVE ScreenInv'
  OBVIOUS
<1>1. ASSUME NEW t \in Turns, NEW s \in Scopes, NEW text \in Texts, Resolve(t, s, text)
      PROVE  ScreenInv'
  <2>1. config' = config /\ cleared' = cleared /\ transcript' = transcript
    BY <1>1 DEF Resolve
  <2>2. TurnsFit'
    BY <1>1, ResolveFits
  <2> QED BY <2>1, <2>2, QuietStep
<1>2. ASSUME NEW t \in Turns, Provision(t) PROVE ScreenInv'
  BY <1>2, ProvisionFits, QuietStep DEF Provision
<1>3. ASSUME NEW t \in Turns, Rewrite(t) PROVE ScreenInv'
  BY <1>3, RewriteFits, QuietStep DEF Rewrite
<1>4. ASSUME NEW t \in Turns, NEW verdict, Screen(t, verdict) PROVE ScreenInv'
  <2>1. TurnsFit' /\ StaysCleared
    BY <1>4, ScreenFits
  <2>2. config' = config /\ transcript' = transcript
    BY <1>4 DEF Screen
  <2>3. QED
    BY <2>1, <2>2, SameTranscript, Assembled
<1>5. ASSUME NEW t \in Turns, NEW verdict, Refuse(t, verdict) PROVE ScreenInv'
  <2>1. /\ config' = config /\ cleared' = cleared
        /\ turns' = [turns EXCEPT ![t] = NoTurn]
        /\ Add(turns[t].scope, "system", "")
    BY <1>5 DEF Refuse
  <2>2. TurnsFit'
    BY <2>1, EndFits
  <2>3. turns[t].scope \in Scopes
    BY DEF ScreenInv, Shapes
  <2>4. TranscriptFits'
    BY <2>1, <2>3, LongerTranscript
  <2>5. StaysCleared
    BY <2>1 DEF StaysCleared, ScreenInv, Shapes
  <2>6. QED
    BY <2>1, <2>2, <2>4, <2>5, Assembled
<1>6. ASSUME NEW t \in Turns, Record(t) PROVE ScreenInv'
  <2>1. /\ config' = config /\ cleared' = cleared
        /\ Add(turns[t].scope, "user", turns[t].text)
        /\ turns[t].pc = "record"
    BY <1>6 DEF Record, At
  <2>2. TurnsFit'
    BY <1>6, RecordFits
  <2>3. turns[t].scope \in Scopes /\ TextIsCleared(turns[t])
    BY DEF ScreenInv, Shapes
  <2>4. TranscriptFits'
    BY <2>1, <2>3, LongerTranscript DEF TextIsCleared, Settled
  <2>5. StaysCleared
    BY <2>1 DEF StaysCleared, ScreenInv, Shapes
  <2>6. QED
    BY <2>1, <2>2, <2>4, <2>5, Assembled
<1>7. ASSUME NEW t \in Turns, Finish(t) PROVE ScreenInv'
  BY <1>7, EndFits, QuietStep DEF Finish
<1>8. ASSUME NEW t \in Turns, Execute(t) PROVE ScreenInv'
  BY <1>8, ExecuteFits, QuietStep DEF Execute
<1>9. ASSUME NEW t \in Turns, MaterializeLayer(t) PROVE ScreenInv'
  BY <1>9, MaterializeLayerFits, QuietStep DEF MaterializeLayer
<1>10. ASSUME NEW t \in Turns, Exec(t) PROVE ScreenInv'
  BY <1>10, ExecFits, QuietStep DEF Exec
<1>11. ASSUME NEW t \in Turns, NEW path \in Paths, WriteFile(t, path) PROVE ScreenInv'
  BY <1>11, WriteFileFits, QuietStep DEF WriteFile
<1>12. ASSUME NEW t \in Turns, NEW path \in Paths, NEW grantee \in Scopes,
              NEW permission \in Permissions, Share(t, path, grantee, permission)
       PROVE  ScreenInv'
  BY <1>12, ShareFits, QuietStep DEF Share
<1>13. ASSUME NEW t \in Turns, PutGrant(t) PROVE ScreenInv'
  BY <1>13, PutGrantFits, QuietStep DEF PutGrant
<1>14. ASSUME NEW s \in Scopes, NEW n \in Names, NEW value, Change(s, n, value)
       PROVE  ScreenInv'
  BY <1>14, ChangeFits, QuietStep DEF Change
<1>15. ASSUME UNCHANGED vars PROVE ScreenInv'
  BY <1>15 DEF vars, ScreenInv, Shapes, GoesByPosture, TextIsCleared, Settled,
               QuestionsAreCleared, Posture, Compose, Rank
<1>16. QED
  BY <1>1, <1>2, <1>3, <1>4, <1>5, <1>6, <1>7, <1>8, <1>9, <1>10, <1>11, <1>12, <1>13,
     <1>14, <1>15 DEF Next, PutSecret, DeleteSecret

LEMMA ScreenInvariant == Spec => []ScreenInv
BY InitScreen, NextScreen, PTL DEF Spec

-----------------------------------------------------------------------------
(* What a command finds in its environment *)

\* The value that counts: the scope's own, else the organisation's.
Nearest(s, n) == IF keychain[s][n] = Missing THEN keychain[Org][n] ELSE keychain[s][n]

Reading(x) == x.pc \in {"materialize", "exec"}

\* Between the layers the environment is the organisation's layer of the keychain
\* there is now, but for the names that changed meanwhile; after the last layer it
\* is what the command should find.
EnvironmentOK(x) ==
    /\ x.scope \in Scopes
    /\ Reading(x) => DOMAIN x.env = Names
    /\ x.pc = "materialize" =>
          \/ x.unread = Layers(x.scope) /\ x.env = NoEnv
          \/ /\ x.scope # Org /\ x.unread = <<x.scope>>
             /\ \A n \in Names \ x.touched : x.env[n] = keychain[Org][n]
    /\ x.pc = "exec" =>
          \A n \in Names \ x.touched :
              x.env[n] = IF Nearest(x.scope, n) \in Unusable THEN Missing ELSE Nearest(x.scope, n)

EnvInv ==
    /\ DOMAIN keychain = Scopes
    /\ \A s \in Scopes : DOMAIN keychain[s] = Names
    /\ \A t \in Turns : EnvironmentOK(turns[t])

\* One turn moves on under a keychain nobody writes.
LEMMA OneTurnReads ==
    ASSUME EnvInv, DOMAIN turns = Turns, keychain' = keychain,
           NEW t \in Turns, NEW row, EnvironmentOK(row), turns' = [turns EXCEPT ![t] = row]
    PROVE  EnvInv'
<1>1. \A u \in Turns : turns'[u] = row \/ turns'[u] = turns[u]
  OBVIOUS
<1>2. \A u \in Turns : EnvironmentOK(turns'[u])
  BY <1>1 DEF EnvInv
<1>3. \A x : (EnvironmentOK(x))' <=> EnvironmentOK(x)
  BY DEF EnvironmentOK, Nearest
<1>4. \A u \in Turns : (EnvironmentOK(turns[u]))'
  BY <1>2, <1>3
<1>5. QED
  BY <1>4 DEF EnvInv

\* A turn that is not reading secrets afterwards.
LEMMA OneTurnElsewhere ==
    ASSUME EnvInv, DOMAIN turns = Turns, keychain' = keychain,
           NEW t \in Turns, NEW row, row.scope \in Scopes, ~Reading(row),
           turns' = [turns EXCEPT ![t] = row]
    PROVE  EnvInv'
<1>1. EnvironmentOK(row)
  BY DEF EnvironmentOK, Reading
<1>2. QED
  BY <1>1, OneTurnReads

\* `materialize` starts with nothing and all the layers ahead.
LEMMA ExecuteReads ==
    ASSUME ScreenInv, EnvInv, NEW t \in Turns, Execute(t)
    PROVE  EnvInv'
<1> DEFINE row == [turns[t] EXCEPT !.pc = "materialize", !.calls = turns[t].calls + 1,
                        !.env = NoEnv, !.touched = {}, !.unread = Layers(turns[t].scope)]
<1>1. DOMAIN turns = Turns /\ DOMAIN turns[t] = Fields /\ turns[t].scope \in Scopes
  BY DEF ScreenInv, Shapes
<1>2. /\ row.pc = "materialize" /\ row.scope = turns[t].scope
      /\ row.env = NoEnv /\ row.unread = Layers(turns[t].scope)
  BY <1>1 DEF Fields, NoTurn
<1>3. turns' = [turns EXCEPT ![t] = row] /\ keychain' = keychain
  BY DEF Execute
<1> HIDE DEF row
<1>4. EnvironmentOK(row)
  BY <1>1, <1>2 DEF EnvironmentOK, Reading, NoEnv
<1>5. QED
  BY <1>1, <1>3, <1>4, OneTurnReads

\* One layer more.  The organisation has one layer, which is its own; any other
\* scope is read after it, and covers it.
LEMMA MaterializeReads ==
    ASSUME ScreenInv, EnvInv, NEW t \in Turns, MaterializeLayer(t)
    PROVE  EnvInv'
<1> DEFINE layer == Head(turns[t].unread)
           last == Len(turns[t].unread) = 1
           env == Overlay(turns[t].env, keychain[layer])
           left == Tail(turns[t].unread)
           given == IF last THEN Exported(env) ELSE env
           row == [turns[t] EXCEPT !.unread = left, !.env = given,
                        !.pc = IF last THEN "exec" ELSE "materialize"]
<1>1. /\ DOMAIN turns = Turns /\ DOMAIN turns[t] = Fields /\ turns[t].scope \in Scopes
      /\ turns[t].pc = "materialize" /\ EnvironmentOK(turns[t])
  BY DEF ScreenInv, Shapes, EnvInv, MaterializeLayer, At
<1>2. /\ row.pc = IF last THEN "exec" ELSE "materialize"
      /\ row.scope = turns[t].scope /\ row.touched = turns[t].touched
      /\ row.env = given /\ row.unread = left
  <2> HIDE DEF last, given, left
  <2> QED  BY <1>1 DEF Fields, NoTurn
<1>3. turns' = [turns EXCEPT ![t] = row] /\ keychain' = keychain
  BY DEF MaterializeLayer
<1> HIDE DEF row
<1>4. Org \in Scopes
  BY WorkspaceAssumption
<1>5. \A n \in Names : env[n] = IF keychain[layer][n] = Missing THEN turns[t].env[n] ELSE keychain[layer][n]
  BY DEF Overlay
<1>6. DOMAIN env = Names /\ DOMAIN given = Names
  BY DEF Overlay, Exported
<1>7. last => \A n \in Names : given[n] = IF env[n] \in Unusable THEN Missing ELSE env[n]
  BY DEF Exported
<1>8. ~last => given = env
  OBVIOUS
<1>9. CASE turns[t].unread = Layers(turns[t].scope) /\ turns[t].env = NoEnv
  <2>1. \A n \in Names : env[n] = keychain[layer][n]
    BY <1>5, <1>9 DEF NoEnv
  <2>2. CASE turns[t].scope = Org
    <3>1. last /\ layer = Org
      BY <1>9, <2>2 DEF Layers
    <3> HIDE DEF last, layer, given, env
    <3>2. \A n \in Names : env[n] = Nearest(turns[t].scope, n)
      BY <2>1, <2>2, <3>1 DEF Nearest
    <3>3. EnvironmentOK(row)
      BY <1>1, <1>2, <1>6, <1>7, <3>1, <3>2 DEF EnvironmentOK, Reading
    <3>4. QED
      BY <1>1, <1>3, <3>3, OneTurnReads
  <2>3. CASE turns[t].scope # Org
    <3>1. ~last /\ layer = Org /\ left = <<turns[t].scope>>
      BY <1>4, <1>9, <2>3 DEF Layers
    <3> HIDE DEF last, layer, given, env, left
    <3>2. EnvironmentOK(row)
      BY <1>1, <1>2, <1>6, <1>8, <2>1, <2>3, <3>1 DEF EnvironmentOK, Reading
    <3>3. QED
      BY <1>1, <1>3, <3>2, OneTurnReads
  <2>4. QED
    BY <2>2, <2>3
<1>10. CASE /\ turns[t].scope # Org /\ turns[t].unread = <<turns[t].scope>>
            /\ \A n \in Names \ turns[t].touched : turns[t].env[n] = keychain[Org][n]
  <2>1. last /\ layer = turns[t].scope
    BY <1>1, <1>10
  <2> HIDE DEF last, layer, given, env
  <2>2. \A n \in Names \ turns[t].touched : env[n] = Nearest(turns[t].scope, n)
    BY <1>5, <1>10, <2>1 DEF Nearest
  <2>3. EnvironmentOK(row)
    BY <1>1, <1>2, <1>6, <1>7, <2>1, <2>2 DEF EnvironmentOK, Reading
  <2>4. QED
    BY <1>1, <1>3, <2>3, OneTurnReads
<1>11. QED
  BY <1>1, <1>9, <1>10 DEF EnvironmentOK

\* Another secret under one name: who is reading remembers the name.
LEMMA ChangeReads ==
    ASSUME ScreenInv, EnvInv, NEW s \in Scopes, NEW n \in Names, NEW value, Change(s, n, value)
    PROVE  EnvInv'
<1>1. /\ keychain' = [keychain EXCEPT ![s][n] = value]
      /\ turns' = [t \in Turns |->
            IF Reading(turns[t]) THEN [turns[t] EXCEPT !.touched = turns[t].touched \cup {n}]
            ELSE turns[t]]
  BY DEF Change, Reading
<1>2. /\ DOMAIN keychain' = Scopes
      /\ \A r \in Scopes : DOMAIN keychain'[r] = Names
      /\ \A r \in Scopes : \A m \in Names \ {n} : keychain'[r][m] = keychain[r][m]
  BY <1>1 DEF EnvInv
<1>3. Org \in Scopes
  BY WorkspaceAssumption
<1>4. ASSUME NEW t \in Turns PROVE (EnvironmentOK(turns[t]))'
  <2>1. EnvironmentOK(turns[t]) /\ DOMAIN turns[t] = Fields
    BY DEF EnvInv, ScreenInv, Shapes
  <2>2. CASE ~Reading(turns[t])
    <3>1. turns'[t] = turns[t]
      BY <1>1, <2>2
    <3>2. QED
      BY <2>1, <2>2, <3>1 DEF EnvironmentOK, Reading
  <2>3. CASE Reading(turns[t])
    <3>0. PICK row : row = [turns[t] EXCEPT !.touched = turns[t].touched \cup {n}]
      OBVIOUS
    <3>1. turns'[t] = row
      BY <1>1, <2>3, <3>0
    <3>2. /\ row.pc = turns[t].pc /\ row.scope = turns[t].scope /\ row.env = turns[t].env
          /\ row.unread = turns[t].unread /\ row.touched = turns[t].touched \cup {n}
      BY <2>1, <3>0 DEF Fields, NoTurn
    <3>3. \A m \in Names \ row.touched :
              m \in Names \ turns[t].touched /\ m # n
      BY <3>2
    <3>4. \A m \in Names \ row.touched : \A r \in Scopes : keychain'[r][m] = keychain[r][m]
      BY <1>2, <3>3
    <3>5. CASE turns[t].pc = "materialize"
      BY <1>3, <2>1, <3>1, <3>2, <3>3, <3>4, <3>5 DEF EnvironmentOK, Reading
    <3>6. CASE turns[t].pc = "exec"
      <4>1. \A m \in Names \ row.touched : (Nearest(row.scope, m))' = Nearest(turns[t].scope, m)
        BY <1>3, <2>1, <3>2, <3>4 DEF EnvironmentOK, Nearest
      <4>2. QED
        BY <2>1, <3>1, <3>2, <3>3, <3>6, <4>1 DEF EnvironmentOK, Reading
    <3>7. QED
      BY <2>3, <3>5, <3>6 DEF Reading
  <2>4. QED
    BY <2>2, <2>3
<1>5. QED
  BY <1>2, <1>4 DEF EnvInv

LEMMA InitEnv == Init => EnvInv
<1> SUFFICES ASSUME Init PROVE EnvInv
  OBVIOUS
<1>1. DOMAIN keychain = Scopes /\ \A s \in Scopes : DOMAIN keychain[s] = Names
  BY DEF Init, NoEnv
<1>2. \A t \in Turns : turns[t] = NoTurn
  BY DEF Init
<1>3. EnvironmentOK(NoTurn)
  BY EmptyTurn DEF EnvironmentOK, Reading
<1>4. QED
  BY <1>1, <1>2, <1>3 DEF EnvInv

LEMMA NextEnv == ScreenInv /\ EnvInv /\ [Next]_vars => EnvInv'
<1> SUFFICES ASSUME ScreenInv, EnvInv, [Next]_vars PROVE EnvInv'
  OBVIOUS
<1>0. /\ DOMAIN turns = Turns
      /\ \A t \in Turns : DOMAIN turns[t] = Fields /\ turns[t].scope \in Scopes
  BY DEF ScreenInv, Shapes
<1>1. ASSUME NEW t \in Turns, NEW s \in Scopes, NEW text \in Texts, Resolve(t, s, text)
      PROVE  EnvInv'
  <2>0. PICK handles : turns' = [turns EXCEPT ![t] = [NoTurn EXCEPT
               !.pc = "provision", !.scope = s, !.asked = text, !.text = text,
               !.screens = Posture(s) = "auto", !.approves = Posture(s) = "strict",
               !.handles = handles]]
    BY <1>1 DEF Resolve
  <2> DEFINE screens == Posture(s) = "auto"
             approves == Posture(s) = "strict"
             row == [NoTurn EXCEPT !.pc = "provision", !.scope = s, !.asked = text, !.text = text,
                          !.screens = screens, !.approves = approves, !.handles = handles]
  <2>1. turns' = [turns EXCEPT ![t] = row] /\ keychain' = keychain
    BY <1>1, <2>0 DEF Resolve
  <2> HIDE DEF screens, approves
  <2>2. row.scope = s /\ row.pc = "provision"
    BY DEF NoTurn
  <2> HIDE DEF row
  <2>3. QED
    BY <1>0, <2>1, <2>2, OneTurnElsewhere DEF Reading
<1>2. ASSUME NEW t \in Turns, NEW pc, pc \notin {"materialize", "exec"},
             keychain' = keychain, turns' = [turns EXCEPT ![t].pc = pc]
      PROVE  EnvInv'
  <2> DEFINE row == [turns[t] EXCEPT !.pc = pc]
  <2>1. turns' = [turns EXCEPT ![t] = row]
    BY <1>0, <1>2
  <2>2. row.scope \in Scopes /\ row.pc = pc
    BY <1>0 DEF Fields, NoTurn
  <2> HIDE DEF row
  <2>3. QED
    BY <1>0, <1>2, <2>1, <2>2, OneTurnElsewhere DEF Reading
<1>3. ASSUME NEW t \in Turns, Provision(t) PROVE EnvInv'
  <2>1. keychain' = keychain /\ turns' = [turns EXCEPT ![t].pc = "rewrite"]
    BY <1>3 DEF Provision, Goto
  <2>2. "rewrite" \notin {"materialize", "exec"}
    OBVIOUS
  <2>3. QED
    BY <1>2, <2>1, <2>2, Zenon
<1>4. ASSUME NEW t \in Turns, Rewrite(t) PROVE EnvInv'
  <2>1. PICK responses : turns' = [turns EXCEPT ![t].text = Folded(turns[t].text, responses),
                                     ![t].pc = IF turns[t].screens THEN "screen" ELSE "record"]
    BY <1>4 DEF Rewrite
  <2> DEFINE folded == Folded(turns[t].text, responses)
             pc == IF turns[t].screens THEN "screen" ELSE "record"
             row == [turns[t] EXCEPT !.text = folded, !.pc = pc]
  <2>2. turns' = [turns EXCEPT ![t] = row]
    <3> HIDE DEF folded, pc
    <3>1. turns' = [turns EXCEPT ![t].text = folded, ![t].pc = pc]
      BY <2>1 DEF folded, pc
    <3>2. QED
      BY <1>0, <3>1
  <2>3. row.scope \in Scopes /\ row.pc \in {"screen", "record"}
    <3> HIDE DEF folded
    <3>1. QED
      BY <1>0 DEF Fields, NoTurn
  <2>4. keychain' = keychain
    BY <1>4 DEF Rewrite
  <2> HIDE DEF row
  <2>5. QED
    BY <1>0, <2>2, <2>3, <2>4, OneTurnElsewhere DEF Reading
<1>5. ASSUME NEW t \in Turns, NEW verdict, Screen(t, verdict) PROVE EnvInv'
  <2>1. keychain' = keychain /\ turns' = [turns EXCEPT ![t].pc = "record"]
    BY <1>5 DEF Screen, Goto
  <2>2. "record" \notin {"materialize", "exec"}
    OBVIOUS
  <2>3. QED
    BY <1>2, <2>1, <2>2, Zenon
<1>6. ASSUME NEW t \in Turns, keychain' = keychain, turns' = [turns EXCEPT ![t] = NoTurn]
      PROVE  EnvInv'
  BY <1>0, <1>6, EmptyTurn, OneTurnElsewhere DEF Reading
<1>7. ASSUME NEW t \in Turns, NEW verdict, Refuse(t, verdict) PROVE EnvInv'
  BY <1>6, <1>7 DEF Refuse
<1>8. ASSUME NEW t \in Turns, Record(t) PROVE EnvInv'
  <2>1. keychain' = keychain /\ turns' = [turns EXCEPT ![t].pc = "run"]
    BY <1>8 DEF Record, Goto
  <2>2. "run" \notin {"materialize", "exec"}
    OBVIOUS
  <2>3. QED
    BY <1>2, <2>1, <2>2, Zenon
<1>9. ASSUME NEW t \in Turns, Finish(t) PROVE EnvInv'
  BY <1>6, <1>9 DEF Finish
<1>10. ASSUME NEW t \in Turns, Exec(t) PROVE EnvInv'
  <2> DEFINE row == [turns[t] EXCEPT !.pc = "run", !.env = NoEnv, !.touched = {}]
  <2>1. turns' = [turns EXCEPT ![t] = row] /\ keychain' = keychain
    BY <1>10 DEF Exec
  <2>2. row.scope \in Scopes /\ row.pc = "run"
    BY <1>0 DEF Fields, NoTurn
  <2> HIDE DEF row
  <2>3. QED
    BY <1>0, <2>1, <2>2, OneTurnElsewhere DEF Reading
<1>11. ASSUME NEW t \in Turns, NEW path \in Paths, WriteFile(t, path) PROVE EnvInv'
  <2> DEFINE row == [turns[t] EXCEPT !.calls = turns[t].calls + 1]
  <2>1. turns' = [turns EXCEPT ![t] = row] /\ keychain' = keychain
    BY <1>0, <1>11 DEF WriteFile
  <2>2. row.scope \in Scopes /\ row.pc = "run"
    BY <1>0, <1>11 DEF Fields, NoTurn, WriteFile, Calls, At
  <2> HIDE DEF row
  <2>3. QED
    BY <1>0, <2>1, <2>2, OneTurnElsewhere DEF Reading
<1>12. ASSUME NEW t \in Turns, NEW path \in Paths, NEW grantee \in Scopes,
              NEW permission \in Permissions, Share(t, path, grantee, permission)
       PROVE  EnvInv'
  <2> DEFINE share == {[owner |-> turns[t].scope, path |-> path, grantee |-> grantee,
                        permission |-> permission]}
             row == [turns[t] EXCEPT !.calls = turns[t].calls + 1, !.pc = "share", !.share = share]
  <2>1. turns' = [turns EXCEPT ![t] = row] /\ keychain' = keychain
    BY <1>12 DEF Share
  <2> HIDE DEF share
  <2>2. row.scope \in Scopes /\ row.pc = "share"
    BY <1>0 DEF Fields, NoTurn
  <2> HIDE DEF row
  <2>3. QED
    BY <1>0, <2>1, <2>2, OneTurnElsewhere DEF Reading
<1>13. ASSUME NEW t \in Turns, PutGrant(t) PROVE EnvInv'
  <2> DEFINE row == [turns[t] EXCEPT !.pc = "run", !.share = {}]
  <2>1. turns' = [turns EXCEPT ![t] = row] /\ keychain' = keychain
    BY <1>13 DEF PutGrant
  <2>2. row.scope \in Scopes /\ row.pc = "run"
    BY <1>0 DEF Fields, NoTurn
  <2> HIDE DEF row
  <2>3. QED
    BY <1>0, <2>1, <2>2, OneTurnElsewhere DEF Reading
<1>14. ASSUME UNCHANGED vars PROVE EnvInv'
  BY <1>14 DEF vars, EnvInv, EnvironmentOK, Reading, Nearest
<1>15. QED
  BY <1>1, <1>3, <1>4, <1>5, <1>7, <1>8, <1>9, <1>10, <1>11, <1>12, <1>13, <1>14,
     ExecuteReads, MaterializeReads, ChangeReads DEF Next, PutSecret, DeleteSecret

-----------------------------------------------------------------------------
(* Theorems *)

\* In a scope that screens, whatever the modules rewrite and the screener answers,
\* every question that later turns read and every text a turn runs on has itself
\* passed the screener (orchestrator.rs, handle_turn).
THEOREM Screened == Spec => []ReadsWhatWasScreened
<1>1. ScreenInv => ReadsWhatWasScreened
  <2> SUFFICES ASSUME ScreenInv, NEW s \in Scopes, Posture(s) = "auto"
               PROVE  /\ \A entry \in Range(transcript[s]) :
                            entry.kind = "user" => entry.text \in cleared[s]
                      /\ \A t \in Turns : Running(t) /\ turns[t].scope = s =>
                            turns[t].text \in cleared[s]
    BY DEF ReadsWhatWasScreened
  <2>1. \A entry \in Range(transcript[s]) : entry.kind = "user" => entry.text \in cleared[s]
    BY DEF ScreenInv, QuestionsAreCleared, Range
  <2>2. \A t \in Turns : Running(t) /\ turns[t].scope = s => turns[t].text \in cleared[s]
    BY DEF ScreenInv, TextIsCleared, Settled, Running
  <2>3. QED
    BY <2>1, <2>2
<1>2. QED
  BY <1>1, ScreenInvariant, PTL

\* Three rows can ask for protection and none can take it from another: a maximum
\* of the three that reads a text it does not know as "auto".
LEMMA PostureIsProtected ==
    ASSUME NEW s \in Scopes, config \in Config,
           ~({config.floor, config.rows[Org], config.rows[s]} \subseteq {"dangerous", Unset})
    PROVE  Posture(s) = "auto" \/ Posture(s) = "strict"
<1>1. /\ config.floor \in Postures \cup {"typo"}
      /\ config.rows[Org] \in Postures \cup {Unset}
      /\ config.rows[s] \in Postures \cup {Unset}
  BY WorkspaceAssumption DEF Config
<1>2. QED
  BY <1>1 DEF Posture, Compose, Rank, Postures, Unset

\* A turn runs on a text that was screened or with every call waiting for a
\* person, unless the deployment, the organisation and the scope all go without
\* (policy/security.rs, compose_posture).
THEOREM Protected == Spec => []PostureNeverLoosens
<1>1. ScreenInv => PostureNeverLoosens
  <2> SUFFICES ASSUME ScreenInv, NEW t \in Turns, Running(t),
                      ~({config.floor, config.rows[Org], config.rows[turns[t].scope]}
                            \subseteq {"dangerous", Unset})
               PROVE  turns[t].approves \/ turns[t].text \in cleared[turns[t].scope]
    BY DEF PostureNeverLoosens
  <2>1. turns[t].scope \in Scopes /\ config \in Config
    BY DEF ScreenInv, Shapes
  <2>2. Posture(turns[t].scope) = "auto" \/ Posture(turns[t].scope) = "strict"
    BY <2>1, PostureIsProtected
  <2>3. GoesByPosture(turns[t]) /\ TextIsCleared(turns[t])
    BY DEF ScreenInv
  <2>4. QED
    BY <2>2, <2>3 DEF GoesByPosture, TextIsCleared, Settled, Running
<1>2. QED
  BY <1>1, ScreenInvariant, PTL

\* Whatever people change on the keychain page while a turn reads one layer after
\* the other, a command finds under every name that did not change the value of its
\* scope, else of the organisation, and of nobody else (sandbox/mod.rs, materialize).
THEOREM EnvironmentHolds == Spec => []EnvironmentIsNearest
<1>1. ScreenInv /\ EnvInv => EnvironmentIsNearest
  BY DEF EnvInv, EnvironmentOK, Nearest, EnvironmentIsNearest, At
<1>2. QED
  BY <1>1, InitEnv, NextEnv, ScreenInvariant, PTL DEF Spec

-----------------------------------------------------------------------------
(* The names of a list *)

\* Some naturals have a least one.
LEMMA LeastElement ==
    ASSUME NEW S \in SUBSET Nat, S # {}
    PROVE  \E t \in S : \A u \in S : t <= u
<1> DEFINE R == {p \in Nat \X Nat : p[1] < p[2]}
<1>1. OpToRel(<, Nat) = R
  BY DEF OpToRel
<1>2. IsWellFoundedOn(R, Nat)
  BY <1>1, NatLessThanWellFounded
<1> HIDE DEF R
<1>3. PICK t \in S : \A u \in S : ~ (<<u, t>> \in R)
  BY <1>2, WFMin
<1>4. \A u \in S : ~ (u < t)
  BY <1>3 DEF R
<1> QED BY <1>4

\* names gives the first k rows of a list their names.
NamesOfFirst(names, k, order) ==
    names = [i \in 1..k |-> NameFor({names[j] : j \in 1..(i - 1)}, order[i])]

\* A name more.
LEMMA NamesGrow ==
    ASSUME NEW order, NEW k \in Nat, NEW f, NamesOfFirst(f, k, order)
    PROVE  \E g : NamesOfFirst(g, k + 1, order)
<1> DEFINE taken(h, i) == {h[j] : j \in 1..(i - 1)}
           g == [i \in 1..(k + 1) |->
                    IF i = k + 1 THEN NameFor(taken(f, k + 1), order[k + 1]) ELSE f[i]]
<1>1. \A i \in 1..k : i \in 1..(k + 1) /\ i # k + 1
  OBVIOUS
<1>2. \A i \in 1..k : g[i] = f[i]
  BY <1>1
<1>3. g[k + 1] = NameFor(taken(f, k + 1), order[k + 1])
  OBVIOUS
<1>4. DOMAIN g = 1..(k + 1) /\ g = [i \in 1..(k + 1) |-> g[i]]
  OBVIOUS
<1> HIDE DEF g
<1>5. \A i \in 1..(k + 1) : taken(g, i) = taken(f, i)
  <2> TAKE i \in 1..(k + 1)
  <2>1. \A j \in 1..(i - 1) : g[j] = f[j]
    BY <1>2
  <2> QED BY <2>1
<1>6. \A i \in 1..k : f[i] = NameFor(taken(f, i), order[i])
  BY DEF NamesOfFirst
<1>7. \A i \in 1..(k + 1) : g[i] = NameFor(taken(g, i), order[i])
  <2> TAKE i \in 1..(k + 1)
  <2>1. CASE i = k + 1
    BY <2>1, <1>3, <1>5
  <2>2. CASE i # k + 1
    <3>1. i \in 1..k
      BY <2>2
    <3> QED BY <3>1, <1>2, <1>5, <1>6
  <2> QED BY <2>1, <2>2
<1>8. NamesOfFirst(g, k + 1, order)
  BY <1>4, <1>7 DEF NamesOfFirst
<1> QED BY <1>8

\* A list of any length has names.
LEMMA NamesExist ==
    ASSUME NEW order, NEW len \in Nat
    PROVE  \E f : NamesOfFirst(f, len, order)
<1> DEFINE None == {k \in Nat : ~ \E f : NamesOfFirst(f, k, order)}
<1> SUFFICES ASSUME None # {} PROVE FALSE
  OBVIOUS
<1>1. PICK k \in None : \A j \in None : k <= j
  BY LeastElement
<1>2. k # 0
  <2> DEFINE f == [i \in 1..0 |-> NameFor({}, order[i])]
  <2>1. NamesOfFirst(f, 0, order)
    BY DEF NamesOfFirst
  <2> QED BY <2>1
<1>3. k - 1 \in Nat /\ k - 1 \notin None /\ (k - 1) + 1 = k
  BY <1>1, <1>2
<1>4. PICK f : NamesOfFirst(f, k - 1, order)
  BY <1>3
<1>5. \E g : NamesOfFirst(g, k, order)
  BY <1>3, <1>4, NamesGrow
<1> QED BY <1>5

\* Each row is named with the names of those before it taken.
LEMMA NamesFollow ==
    ASSUME NEW order, NEW len \in Nat, DOMAIN order = 1..len
    PROVE  \A i \in 1..len :
              NamesOf(order)[i] = NameFor({NamesOf(order)[j] : j \in 1..(i - 1)}, order[i])
<1> DEFINE names == CHOOSE f : f = [i \in DOMAIN order |-> NameFor({f[j] : j \in 1..(i - 1)}, order[i])]
<1>1. NamesOf(order) = names
  BY DEF NamesOf
<1>2. \E f : f = [i \in DOMAIN order |-> NameFor({f[j] : j \in 1..(i - 1)}, order[i])]
  <2>1. PICK f : NamesOfFirst(f, len, order)
    BY NamesExist
  <2> QED BY <2>1 DEF NamesOfFirst
<1>3. names = [i \in DOMAIN order |-> NameFor({names[j] : j \in 1..(i - 1)}, order[i])]
  BY <1>2
<1> HIDE DEF names
<1> QED BY <1>1, <1>3

\* Two rows with one name: the later one came to its longest name, and that is a
\* name of the earlier one.
LEMMA NamesClash ==
    ASSUME NEW order, NEW len \in Nat, DOMAIN order = 1..len,
           NEW i \in 1..len, NEW j \in 1..len, i < j,
           Handles(order)[i].name = Handles(order)[j].name
    PROVE  FullName(order[j]) \in {ShortName(order[i]), OwnerName(order[i]), FullName(order[i])}
<1> DEFINE taken(k) == {NamesOf(order)[l] : l \in 1..(k - 1)}
<1>1. NamesOf(order)[i] = NamesOf(order)[j]
  BY DEF Handles
<1>2. \A k \in 1..len : NamesOf(order)[k] = NameFor(taken(k), order[k])
  BY NamesFollow
<1>3. NamesOf(order)[j] \in taken(j)
  BY <1>1
<1> HIDE DEF taken
<1>4. NamesOf(order)[j] = FullName(order[j])
  BY <1>2, <1>3 DEF NameFor
<1>5. NamesOf(order)[i] \in {ShortName(order[i]), OwnerName(order[i]), FullName(order[i])}
  BY <1>2 DEF NameFor
<1> QED BY <1>1, <1>4, <1>5

-----------------------------------------------------------------------------
(* What handles stand for *)

\* What was given stays given: turns and manifests hold no more.
GivenBy(rows, s, h) ==
    \E g \in rows : g.grantee \in Range(Layers(s)) /\ g.owner = h.owner /\ g.path = h.path
AllGiven(rows, s, handles) == \A h \in Range(handles) : GivenBy(rows, s, h)
HandlesOK ==
    /\ IsFiniteSet(grants)
    /\ DOMAIN manifest = Scopes
    /\ \A s \in Scopes : AllGiven(grants, s, manifest[s])
    /\ \A t \in Turns : AllGiven(grants, turns[t].scope, turns[t].handles)

\* Rows are never taken back: what a row gave is given still.
StillGiven == \A s, handles : AllGiven(grants, s, handles) => AllGiven(grants', s, handles)

\* A turn moves on, with handles that were given.
LEMMA OneTurnKnows ==
    ASSUME ScreenInv, HandlesOK, StillGiven, IsFiniteSet(grants'), manifest' = manifest,
           NEW t \in Turns, NEW row, turns' = [turns EXCEPT ![t] = row],
           AllGiven(grants', row.scope, row.handles)
    PROVE  HandlesOK'
<1>1. DOMAIN turns = Turns
  BY DEF ScreenInv, Shapes
<1>2. \A u \in Turns : turns'[u] = row \/ turns'[u] = turns[u]
  BY <1>1
<1>3. \A u \in Turns : AllGiven(grants', turns'[u].scope, turns'[u].handles)
  BY <1>2 DEF HandlesOK, StillGiven
<1>4. \A s \in Scopes : AllGiven(grants', s, manifest'[s])
  BY DEF HandlesOK, StillGiven
<1> QED BY <1>3, <1>4 DEF HandlesOK

\* A step that grants nothing, of a turn that keeps its scope and its handles.
LEMMA KeepsHandles ==
    ASSUME ScreenInv, HandlesOK, UNCHANGED <<grants, manifest>>,
           NEW t \in Turns, NEW row, turns' = [turns EXCEPT ![t] = row],
           row.scope = turns[t].scope, row.handles = turns[t].handles
    PROVE  HandlesOK'
<1>1. StillGiven
  BY DEF StillGiven
<1>2. AllGiven(grants', row.scope, row.handles)
  BY DEF HandlesOK
<1> QED BY <1>1, <1>2, OneTurnKnows DEF HandlesOK

\* A turn that ends knows nothing any more.
LEMMA EndsWithout ==
    ASSUME ScreenInv, HandlesOK, UNCHANGED <<grants, manifest>>,
           NEW t \in Turns, turns' = [turns EXCEPT ![t] = NoTurn]
    PROVE  HandlesOK'
<1>1. StillGiven
  BY DEF StillGiven
<1>2. AllGiven(grants', NoTurn.scope, NoTurn.handles)
  <2>1. NoTurn.handles = <<>>
    BY DEF NoTurn
  <2>2. Range(<<>>) = {}
    BY DEF Range
  <2> QED BY <2>1, <2>2 DEF AllGiven
<1> QED BY <1>1, <1>2, OneTurnKnows DEF HandlesOK

\* A list of the rows given to a scope, in whatever order.
LEMMA OrdersAreRows ==
    ASSUME NEW rows, IsFiniteSet(rows), NEW order \in Orders(rows)
    PROVE  /\ Cardinality(rows) \in Nat /\ DOMAIN order = 1..Cardinality(rows)
           /\ \A i \in DOMAIN order : order[i] \in rows
BY FS_CardinalityType DEF Orders

LEMMA ResolveKnows ==
    ASSUME ScreenInv, HandlesOK, NEW t \in Turns, NEW s \in Scopes, NEW text, Resolve(t, s, text)
    PROVE  HandlesOK'
<1>1. PICK handles \in HandlesFor(Range(Layers(s))) : turns' = [turns EXCEPT ![t] = [NoTurn EXCEPT
             !.pc = "provision", !.scope = s, !.asked = text, !.text = text,
             !.screens = Posture(s) = "auto", !.approves = Posture(s) = "strict",
             !.handles = handles]]
  BY DEF Resolve
<1>2. UNCHANGED <<grants, manifest>>
  BY DEF Resolve
<1> DEFINE screens == Posture(s) = "auto"
           approves == Posture(s) = "strict"
           row == [NoTurn EXCEPT !.pc = "provision", !.scope = s, !.asked = text, !.text = text,
                        !.screens = screens, !.approves = approves, !.handles = handles]
<1>3. turns' = [turns EXCEPT ![t] = row]
  BY <1>1
<1> HIDE DEF screens, approves
<1>4. row.scope = s /\ row.handles = handles
  BY DEF NoTurn
<1> HIDE DEF row
<1>5. PICK order \in Orders(GrantsFor(Range(Layers(s)))) : handles = Handles(order)
  BY DEF HandlesFor
<1>6. IsFiniteSet(GrantsFor(Range(Layers(s))))
  BY FS_Subset DEF HandlesOK, GrantsFor
<1>7. \A i \in DOMAIN order : order[i] \in GrantsFor(Range(Layers(s)))
  BY <1>6, OrdersAreRows
<1>8. \A i \in DOMAIN order : GivenBy(grants, s, Handles(order)[i])
  BY <1>7 DEF GivenBy, GrantsFor, Handles
<1>9. AllGiven(grants, s, handles)
  BY <1>5, <1>8 DEF AllGiven, Range, Handles
<1>10. StillGiven
  BY <1>2 DEF StillGiven
<1> QED BY <1>2, <1>3, <1>4, <1>9, <1>10, OneTurnKnows DEF HandlesOK

\* The manifest gets the handles of a turn of the scope.
LEMMA ProvisionKnows ==
    ASSUME ScreenInv, HandlesOK, NEW t \in Turns, Provision(t)
    PROVE  HandlesOK'
<1> DEFINE row == [turns[t] EXCEPT !.pc = "rewrite"]
<1>1. DOMAIN turns = Turns /\ DOMAIN turns[t] = Fields /\ turns[t].scope \in Scopes
  BY DEF ScreenInv, Shapes
<1>2. turns' = [turns EXCEPT ![t] = row] /\ grants' = grants
  BY <1>1 DEF Provision, Goto
<1>3. row.scope = turns[t].scope /\ row.handles = turns[t].handles
  BY <1>1 DEF Fields, NoTurn
<1> HIDE DEF row
<1>4. \A u \in Turns : turns'[u].scope = turns[u].scope /\ turns'[u].handles = turns[u].handles
  BY <1>1, <1>2, <1>3
<1>5. /\ DOMAIN manifest' = Scopes
      /\ \A s \in Scopes : manifest'[s] = manifest[s]
                           \/ (s = turns[t].scope /\ manifest'[s] = turns[t].handles)
  <2>1. CASE turns[t].handles = <<>>
    BY <2>1 DEF HandlesOK, Provision
  <2>2. CASE turns[t].handles # <<>>
    <3>1. manifest' = [manifest EXCEPT ![turns[t].scope] = turns[t].handles]
      BY <2>2 DEF Provision
    <3>2. DOMAIN manifest = Scopes
      BY DEF HandlesOK
    <3> QED BY <1>1, <3>1, <3>2
  <2> QED BY <2>1, <2>2
<1>6. \A s \in Scopes : AllGiven(grants', s, manifest'[s])
  BY <1>2, <1>5 DEF HandlesOK
<1> QED BY <1>2, <1>4, <1>5, <1>6 DEF HandlesOK

\* A grant replaces the one with its key, which gave the same.
LEMMA PutGrantKnows ==
    ASSUME ScreenInv, HandlesOK, NEW t \in Turns, PutGrant(t)
    PROVE  HandlesOK'
<1> DEFINE row == [turns[t] EXCEPT !.pc = "run", !.share = {}]
<1>1. DOMAIN turns = Turns /\ DOMAIN turns[t] = Fields /\ IsFiniteSet(grants)
  BY DEF ScreenInv, Shapes, HandlesOK
<1>2. turns' = [turns EXCEPT ![t] = row] /\ manifest' = manifest
  BY DEF PutGrant
<1>3. row.scope = turns[t].scope /\ row.handles = turns[t].handles
  BY <1>1 DEF Fields, NoTurn
<1> HIDE DEF row
<1>4. PICK g : grants' = grants \/ grants' = {h \in grants : ~SameGrant(g, h)} \cup {g}
  BY DEF PutGrant
<1>5. IsFiniteSet(grants')
  <2>1. IsFiniteSet({h \in grants : ~SameGrant(g, h)})
    BY <1>1, FS_Subset
  <2>2. IsFiniteSet({h \in grants : ~SameGrant(g, h)} \cup {g})
    BY <2>1, FS_AddElement
  <2> QED BY <1>1, <1>4, <2>2
<1>6. \A h \in grants : \E new \in grants' :
         new.owner = h.owner /\ new.path = h.path /\ new.grantee = h.grantee
  BY <1>4 DEF SameGrant
<1>7. StillGiven
  BY <1>6 DEF StillGiven, AllGiven, GivenBy
<1>8. AllGiven(grants', row.scope, row.handles)
  BY <1>3, <1>7 DEF HandlesOK, StillGiven
<1> QED BY <1>2, <1>5, <1>7, <1>8, OneTurnKnows

\* A write to the keychain tells the turns that read it, and no more.
LEMMA ChangeKnows ==
    ASSUME ScreenInv, HandlesOK, NEW s \in Scopes, NEW n \in Names, NEW value, Change(s, n, value)
    PROVE  HandlesOK'
<1>1. DOMAIN turns = Turns /\ \A t \in Turns : DOMAIN turns[t] = Fields
  BY DEF ScreenInv, Shapes
<1>2. UNCHANGED <<grants, manifest>>
  BY DEF Change
<1>3. ASSUME NEW t \in Turns
      PROVE  turns'[t].scope = turns[t].scope /\ turns'[t].handles = turns[t].handles
  <2> DEFINE row == [turns[t] EXCEPT !.touched = turns[t].touched \cup {n}]
  <2>1. turns'[t] = row \/ turns'[t] = turns[t]
    BY DEF Change
  <2>2. row.scope = turns[t].scope /\ row.handles = turns[t].handles
    BY <1>1 DEF Fields, NoTurn
  <2> HIDE DEF row
  <2> QED BY <2>1, <2>2
<1> QED BY <1>2, <1>3 DEF HandlesOK

LEMMA InitKnows == Init => HandlesOK
<1> SUFFICES ASSUME Init PROVE HandlesOK
  OBVIOUS
<1>1. Range(<<>>) = {}
  BY DEF Range
<1>2. NoTurn.handles = <<>>
  BY DEF NoTurn
<1>3. \A s : AllGiven(grants, s, <<>>)
  BY <1>1 DEF AllGiven
<1>4. /\ \A s \in Scopes : manifest[s] = <<>>
      /\ \A t \in Turns : turns[t].handles = <<>>
  BY <1>2 DEF Init
<1>5. IsFiniteSet(grants) /\ DOMAIN manifest = Scopes
  BY FS_EmptySet DEF Init
<1> QED BY <1>3, <1>4, <1>5 DEF HandlesOK

LEMMA NextKnows == ScreenInv /\ HandlesOK /\ [Next]_vars => HandlesOK'
<1> SUFFICES ASSUME ScreenInv, HandlesOK, [Next]_vars PROVE HandlesOK'
  OBVIOUS
<1>0. /\ DOMAIN turns = Turns
      /\ \A t \in Turns : DOMAIN turns[t] = Fields /\ turns[t].scope \in Scopes
  BY DEF ScreenInv, Shapes
<1>1. ASSUME NEW t \in Turns, NEW pc, UNCHANGED <<grants, manifest>>,
             turns' = [turns EXCEPT ![t].pc = pc]
      PROVE  HandlesOK'
  <2> DEFINE row == [turns[t] EXCEPT !.pc = pc]
  <2>1. turns' = [turns EXCEPT ![t] = row]
    BY <1>0, <1>1
  <2>2. row.scope = turns[t].scope /\ row.handles = turns[t].handles
    BY <1>0 DEF Fields, NoTurn
  <2> HIDE DEF row
  <2> QED BY <1>1, <2>1, <2>2, KeepsHandles
<1>2. ASSUME NEW t \in Turns, NEW verdict, Screen(t, verdict) PROVE HandlesOK'
  BY <1>1, <1>2 DEF Screen, Goto
<1>3. ASSUME NEW t \in Turns, Record(t) PROVE HandlesOK'
  BY <1>1, <1>3 DEF Record, Goto
<1>4. ASSUME NEW t \in Turns, NEW verdict, Finish(t) \/ Refuse(t, verdict) PROVE HandlesOK'
  BY <1>4, EndsWithout DEF Finish, Refuse
<1>5. ASSUME NEW t \in Turns, Rewrite(t) PROVE HandlesOK'
  <2>1. PICK text, pc : turns' = [turns EXCEPT ![t].text = text, ![t].pc = pc]
    BY <1>5 DEF Rewrite
  <2> DEFINE row == [turns[t] EXCEPT !.text = text, !.pc = pc]
  <2>2. turns' = [turns EXCEPT ![t] = row]
    BY <1>0, <2>1
  <2>3. row.scope = turns[t].scope /\ row.handles = turns[t].handles
    BY <1>0 DEF Fields, NoTurn
  <2>4. UNCHANGED <<grants, manifest>>
    BY <1>5 DEF Rewrite
  <2> HIDE DEF row
  <2> QED BY <2>2, <2>3, <2>4, KeepsHandles
<1>6. ASSUME NEW t \in Turns, Execute(t) PROVE HandlesOK'
  <2> DEFINE row == [turns[t] EXCEPT !.pc = "materialize", !.calls = turns[t].calls + 1,
                          !.env = NoEnv, !.touched = {}, !.unread = Layers(turns[t].scope)]
  <2>1. turns' = [turns EXCEPT ![t] = row] /\ UNCHANGED <<grants, manifest>>
    BY <1>6 DEF Execute
  <2>2. row.scope = turns[t].scope /\ row.handles = turns[t].handles
    BY <1>0 DEF Fields, NoTurn
  <2> HIDE DEF row
  <2> QED BY <2>1, <2>2, KeepsHandles
<1>7. ASSUME NEW t \in Turns, MaterializeLayer(t) PROVE HandlesOK'
  <2>1. PICK left, env, pc :
           turns' = [turns EXCEPT ![t] = [turns[t] EXCEPT !.unread = left, !.env = env, !.pc = pc]]
    BY <1>7 DEF MaterializeLayer
  <2> DEFINE row == [turns[t] EXCEPT !.unread = left, !.env = env, !.pc = pc]
  <2>2. turns' = [turns EXCEPT ![t] = row] /\ UNCHANGED <<grants, manifest>>
    BY <1>7, <2>1 DEF MaterializeLayer
  <2>3. row.scope = turns[t].scope /\ row.handles = turns[t].handles
    BY <1>0 DEF Fields, NoTurn
  <2> HIDE DEF row
  <2> QED BY <2>2, <2>3, KeepsHandles
<1>8. ASSUME NEW t \in Turns, Exec(t) PROVE HandlesOK'
  <2> DEFINE row == [turns[t] EXCEPT !.pc = "run", !.env = NoEnv, !.touched = {}]
  <2>1. turns' = [turns EXCEPT ![t] = row] /\ UNCHANGED <<grants, manifest>>
    BY <1>8 DEF Exec
  <2>2. row.scope = turns[t].scope /\ row.handles = turns[t].handles
    BY <1>0 DEF Fields, NoTurn
  <2> HIDE DEF row
  <2> QED BY <2>1, <2>2, KeepsHandles
<1>9. ASSUME NEW t \in Turns, NEW path \in Paths, WriteFile(t, path) PROVE HandlesOK'
  <2> DEFINE row == [turns[t] EXCEPT !.calls = turns[t].calls + 1]
  <2>1. turns' = [turns EXCEPT ![t] = row] /\ UNCHANGED <<grants, manifest>>
    BY <1>0, <1>9 DEF WriteFile
  <2>2. row.scope = turns[t].scope /\ row.handles = turns[t].handles
    BY <1>0 DEF Fields, NoTurn
  <2> HIDE DEF row
  <2> QED BY <2>1, <2>2, KeepsHandles
<1>10. ASSUME NEW t \in Turns, NEW path \in Paths, NEW grantee \in Scopes,
              NEW permission \in Permissions, Share(t, path, grantee, permission)
       PROVE  HandlesOK'
  <2> DEFINE share == {[owner |-> turns[t].scope, path |-> path, grantee |-> grantee,
                        permission |-> permission]}
             row == [turns[t] EXCEPT !.calls = turns[t].calls + 1, !.pc = "share", !.share = share]
  <2>1. turns' = [turns EXCEPT ![t] = row] /\ UNCHANGED <<grants, manifest>>
    BY <1>10 DEF Share
  <2> HIDE DEF share
  <2>2. row.scope = turns[t].scope /\ row.handles = turns[t].handles
    BY <1>0 DEF Fields, NoTurn
  <2> HIDE DEF row
  <2> QED BY <2>1, <2>2, KeepsHandles
<1>11. ASSUME UNCHANGED vars PROVE HandlesOK'
  BY <1>11 DEF vars, HandlesOK
<1> QED
  BY <1>2, <1>3, <1>4, <1>5, <1>6, <1>7, <1>8, <1>9, <1>10, <1>11, ResolveKnows, ProvisionKnows,
     PutGrantKnows, ChangeKnows DEF Next, PutSecret, DeleteSecret

\* Every handle a turn or a manifest holds was given to its scope or to the
\* organisation, whoever shares meanwhile; two of a list have one name only where
\* the text of the later one's longest name is a name of the earlier one (acl.rs,
\* handles_for).
THEOREM HandlesHold == Spec => []HandlesNameWhatWasGiven
<1>1. ASSUME ScreenInv, HandlesOK PROVE HandlesNameWhatWasGiven
  <2>1. \A s, h : GivenBy(grants, s, h) <=> Given(s, h)
    BY DEF GivenBy, Given, GrantsFor
  <2>2. /\ \A s \in Scopes : \A h \in Range(manifest[s]) : Given(s, h)
        /\ \A t \in Turns : \A h \in Range(turns[t].handles) : Given(turns[t].scope, h)
    BY <1>1, <2>1 DEF HandlesOK, AllGiven
  <2>3. ASSUME NEW s \in Scopes, NEW order \in Orders(GrantsFor(Range(Layers(s)))),
               NEW i \in DOMAIN order, NEW j \in DOMAIN order, i < j,
               Handles(order)[i].name = Handles(order)[j].name
        PROVE  FullName(order[j]) \in {ShortName(order[i]), OwnerName(order[i]), FullName(order[i])}
    <3>1. IsFiniteSet(GrantsFor(Range(Layers(s))))
      BY <1>1, FS_Subset DEF HandlesOK, GrantsFor
    <3>2. PICK len \in Nat : DOMAIN order = 1..len
      BY <3>1, OrdersAreRows
    <3> QED BY <2>3, <3>2, NamesClash
  <2> QED BY <2>2, <2>3 DEF HandlesNameWhatWasGiven
<1>2. QED
  BY <1>1, InitKnows, NextKnows, ScreenInvariant, PTL DEF Spec

-----------------------------------------------------------------------------
(* What the middleware makes of a text *)

\* The greatest of some numbers up to k.
LEMMA Greatest ==
    ASSUME NEW k \in Nat, NEW T \in SUBSET (1..k), T # {}
    PROVE  Max(T) \in T /\ \A u \in T : u <= Max(T)
<1> DEFINE S == {k - t : t \in T}
<1>1. S \in SUBSET Nat /\ S # {}
  <2>1. \A t \in T : k - t \in Nat
    OBVIOUS
  <2>2. PICK t \in T : TRUE
    OBVIOUS
  <2>3. k - t \in S
    OBVIOUS
  <2>4. \A d \in S : d \in Nat
    BY <2>1
  <2> HIDE DEF S
  <2> QED BY <2>3, <2>4
<1> HIDE DEF S
<1>2. PICK d \in S : \A u \in S : d <= u
  BY <1>1, LeastElement
<1>3. PICK t \in T : d = k - t
  BY <1>2 DEF S
<1>4. ASSUME NEW u \in T PROVE t >= u
  <2>1. k - u \in S
    BY DEF S
  <2>2. d <= k - u
    BY <1>2, <2>1
  <2> QED BY <2>2, <1>3
<1>5. \E x \in T : \A y \in T : x >= y
  BY <1>4
<1>6. Max(T) \in T /\ \A y \in T : Max(T) >= y
  BY <1>5 DEF Max
<1> QED BY <1>6

\* Who has a text to put in the place of the current one, and which.
Rewrites(response) == response.ok /\ response.text # {}
Text(response) == CHOOSE new \in response.text : TRUE

\* The modules of a set that rewrite, and what they leave of a text.
Rewriting(t, answers) == {i \in t : Rewrites(answers[i])}
LeftBy(t, before, answers) ==
    IF Rewriting(t, answers) = {} THEN before
    ELSE Text(answers[Max(Rewriting(t, answers))])

\* Sets of the first modules.
SomeOf(n) == SUBSET (1..n)

\* The last module of a set takes its turn after the others.
OneMore(those, asked, told) ==
    /\ Rewrites(told[Max(those)]) =>
          LeftBy(those, asked, told) = Text(told[Max(those)])
    /\ ~ Rewrites(told[Max(those)]) =>
          LeftBy(those, asked, told) = LeftBy(those \ {Max(those)}, asked, told)

LEMMA LastOfThem ==
    ASSUME NEW n \in Nat, NEW those \in SomeOf(n), those # {}, NEW asked, NEW told
    PROVE  OneMore(those, asked, told)
<1> DEFINE x == Max(those)
           some == Rewriting(those, told)
<1>1. x \in those /\ \A u \in those : u <= x
  BY Greatest DEF SomeOf
<1> HIDE DEF x
<1>2. CASE Rewrites(told[x])
  <2>1. x \in some /\ some \in SUBSET (1..n)
    BY <1>1, <1>2 DEF Rewriting, SomeOf
  <2>2. Max(some) \in some /\ \A u \in some : u <= Max(some)
    BY <2>1, Greatest
  <2>3. Max(some) \in those
    BY <2>2 DEF Rewriting
  <2> DEFINE last == Max(some)
  <2>4. last \in those /\ x <= last /\ last \in Nat /\ x \in Nat
    BY <2>1, <2>2, <2>3, <1>1 DEF SomeOf
  <2> HIDE DEF last
  <2>5. last = x
    BY <2>4, <1>1
  <2>6. LeftBy(those, asked, told) = Text(told[last])
    BY <2>1 DEF LeftBy, last
  <2> QED BY <2>5, <2>6, <1>2 DEF OneMore, x
<1>3. CASE ~ Rewrites(told[x])
  <2>1. some = Rewriting(those \ {x}, told)
    BY <1>3 DEF Rewriting
  <2> QED BY <2>1, <1>3 DEF LeftBy, OneMore, x
<1> QED BY <1>2, <1>3

\* For any number of modules and whatever they answer, a text leaves the middleware
\* as the last module that rewrote it left it, and as it came where none did: a
\* module that failed, or has no text in its answer, changes nothing (plugins,
\* apply_turn_middleware).
THEOREM LastTextWins ==
    ASSUME NEW n \in Nat, NEW before, NEW answers, DOMAIN answers = 1..n
    PROVE  Folded(before, answers) = LeftBy(1..n, before, answers)
<1> DEFINE Adds(f) == f = [t \in SUBSET DOMAIN answers |->
                              IF t = {} THEN before
                              ELSE LET x == Max(t)
                                   IN  IF answers[x].ok /\ answers[x].text # {}
                                       THEN CHOOSE new \in answers[x].text : TRUE
                                       ELSE f[t \ {x}]]
           all == CHOOSE f : Adds(f)
           left == [t \in SUBSET (1..n) |-> LeftBy(t, before, answers)]
<1>1. Folded(before, answers) = all[1..n]
  BY DEF Folded, FoldLeft, MapThenFoldSet
<1>2. \A t \in SUBSET (1..n) : t # {} => Max(t) \in 1..n /\ t \ {Max(t)} \in SUBSET (1..n)
  BY Greatest
<1>3. LeftBy({}, before, answers) = before
  BY DEF LeftBy, Rewriting
<1>4. \A t \in SUBSET (1..n) :
         left[t] = IF t = {} THEN before
                   ELSE IF answers[Max(t)].ok /\ answers[Max(t)].text # {}
                        THEN CHOOSE new \in answers[Max(t)].text : TRUE
                        ELSE left[t \ {Max(t)}]
  <2> TAKE t \in SUBSET (1..n)
  <2>1. left[t] = LeftBy(t, before, answers)
    OBVIOUS
  <2>2. CASE t = {}
    BY <1>3, <2>1, <2>2
  <2>3. CASE t # {}
    <3>1. /\ Rewrites(answers[Max(t)]) =>
                LeftBy(t, before, answers) = Text(answers[Max(t)])
          /\ ~ Rewrites(answers[Max(t)]) =>
                LeftBy(t, before, answers) = LeftBy(t \ {Max(t)}, before, answers)
      <4>1. t \in SomeOf(n)
        BY DEF SomeOf
      <4>2. OneMore(t, before, answers)
        BY <2>3, <4>1, LastOfThem
      <4> QED BY <4>2 DEF OneMore
    <3>2. left[t \ {Max(t)}] = LeftBy(t \ {Max(t)}, before, answers)
      BY <1>2, <2>3
    <3> QED BY <2>1, <2>3, <3>1, <3>2 DEF Rewrites, Text
  <2> QED BY <2>2, <2>3
<1>5. Adds(left)
  <2>1. left = [t \in SUBSET DOMAIN answers |-> left[t]]
    OBVIOUS
  <2> HIDE DEF left
  <2> QED BY <1>4, <2>1
<1>6. Adds(all)
  BY <1>5
<1> HIDE DEF all, left
<1>7. /\ all[{}] = before
      /\ \A t \in SUBSET (1..n) : t # {} =>
            all[t] = IF Rewrites(answers[Max(t)]) THEN Text(answers[Max(t)])
                     ELSE all[t \ {Max(t)}]
  BY <1>6 DEF Rewrites, Text
<1> DEFINE Odd == {k \in 0..n : all[1..k] # LeftBy(1..k, before, answers)}
<1>8. Odd = {}
  <2> SUFFICES ASSUME Odd # {} PROVE FALSE
    OBVIOUS
  <2>1. Odd \in SUBSET Nat
    OBVIOUS
  <2> HIDE DEF Odd
  <2>2. PICK k \in Odd : \A u \in Odd : k <= u
    BY <2>1, LeastElement
  <2>3. k \in 0..n /\ all[1..k] # LeftBy(1..k, before, answers)
    BY <2>2 DEF Odd
  <2>4. k # 0
    <3>1. 1..0 = {}
      OBVIOUS
    <3> QED BY <2>3, <3>1, <1>3, <1>7
  <2>5. k \in 1..n /\ k - 1 \in 0..n /\ k - 1 < k /\ k - 1 \in Nat /\ k \in Nat
    BY <2>3, <2>4
  <2>6. k - 1 \notin Odd
    BY <2>1, <2>2, <2>5
  <2>7. all[1..(k-1)] = LeftBy(1..(k-1), before, answers)
    BY <2>5, <2>6 DEF Odd
  <2>8. 1..k \in SUBSET (1..n) /\ 1..k # {} /\ k \in 1..k
    <3>1. k \in 1..k
      BY <2>5
    <3>2. \A i \in 1..k : i \in 1..n
      BY <2>5
    <3> QED BY <3>1, <3>2
  <2>9. Max(1..k) = k
    <3> DEFINE S == 1..k
    <3>1. Max(S) \in S /\ \A u \in S : u <= Max(S)
      BY <2>8, Greatest
    <3> DEFINE m == Max(S)
    <3>2. m \in 1..k /\ k <= m
      BY <3>1, <2>8
    <3> HIDE DEF m
    <3>3. m = k
      BY <3>2, <2>5
    <3> QED BY <3>3 DEF m
  <2>10. (1..k) \ {k} = 1..(k-1)
    BY <2>5
  <2>11. all[1..k] = LeftBy(1..k, before, answers)
    <3>1. all[1..k] = IF Rewrites(answers[k]) THEN Text(answers[k]) ELSE all[1..(k-1)]
      BY <1>7, <2>8, <2>9, <2>10
    <3>2. /\ Rewrites(answers[Max(1..k)]) =>
                LeftBy(1..k, before, answers) = Text(answers[Max(1..k)])
          /\ ~ Rewrites(answers[Max(1..k)]) =>
                LeftBy(1..k, before, answers) = LeftBy((1..k) \ {Max(1..k)}, before, answers)
      <4> DEFINE S == 1..k
      <4>1. S \in SomeOf(n) /\ S # {}
        BY <2>8 DEF SomeOf
      <4> HIDE DEF S
      <4>2. OneMore(S, before, answers)
        BY <4>1, LastOfThem
      <4> QED BY <4>2 DEF S, OneMore
    <3> QED BY <2>7, <2>9, <2>10, <3>1, <3>2
  <2> QED BY <2>3, <2>11
<1>9. n \in 0..n
  OBVIOUS
<1> QED BY <1>1, <1>8, <1>9

-----------------------------------------------------------------------------
(* The tables and the rows of turns *)

Secrets == [Names -> Values \cup {Missing}]

\* The row of a turn: past its resolution it has a text, whatever the modules say.
Typed(x) ==
    /\ x.pc \in Pcs
    /\ x.pc # "idle" => x.text \in Texts
    /\ x.env \in Secrets
    /\ x.share \subseteq Grant
    /\ \A h \in Range(x.handles) : HandleOK(h)

GrantsTyped ==
    /\ grants \subseteq Grant
    /\ \A g, h \in grants : SameGrant(g, h) => g = h

Questions(s) == {i \in DOMAIN transcript[s] : transcript[s][i].kind = "user"}

TablesTyped ==
    /\ config \in Configs
    /\ keychain \in [Scopes -> Secrets]
    /\ files \in [Scopes -> SUBSET Paths]
    /\ GrantsTyped
    /\ \A s \in Scopes :
          /\ \A h \in Range(manifest[s]) : HandleOK(h)
          /\ cleared[s] \subseteq Texts
          /\ \A i \in Questions(s) : transcript[s][i].text \in Texts

TypedInv == TablesTyped /\ \A t \in Turns : Typed(turns[t])

LEMMA EmptyIsTyped == Typed(NoTurn)
<1>1. Range(<<>>) = {}
  BY DEF Range
<1>2. /\ NoTurn.pc = "idle" /\ NoTurn.env = NoEnv /\ NoTurn.share = {} /\ NoTurn.handles = <<>>
  BY DEF NoTurn
<1>3. NoEnv \in Secrets
  BY DEF NoEnv, Secrets
<1> QED BY <1>1, <1>2, <1>3 DEF Typed, Pcs

\* One turn moves on, with a row as it should be.
LEMMA OneTurnTyped ==
    ASSUME ScreenInv, TypedInv, TablesTyped', NEW t \in Turns, NEW row, Typed(row),
           turns' = [turns EXCEPT ![t] = row]
    PROVE  TypedInv'
<1>1. \A u \in Turns : turns'[u] = row \/ turns'[u] = turns[u]
  BY DEF ScreenInv, Shapes
<1>2. \A u \in Turns : Typed(turns'[u])
  BY <1>1 DEF TypedInv
<1> QED BY <1>2 DEF TypedInv, Typed

\* A step that leaves the tables alone.
LEMMA SameTables ==
    ASSUME TypedInv, UNCHANGED <<config, keychain, files, grants, manifest, transcript, cleared>>
    PROVE  TablesTyped'
BY DEF TypedInv, TablesTyped, GrantsTyped, Questions

\* A turn that goes to another place, and keeps the rest of its row.
LEMMA GoesTyped ==
    ASSUME ScreenInv, TypedInv, NEW t \in Turns, turns[t].pc # "idle", NEW pc \in Pcs,
           turns' = [turns EXCEPT ![t].pc = pc], TablesTyped'
    PROVE  TypedInv'
<1> DEFINE row == [turns[t] EXCEPT !.pc = pc]
<1>1. DOMAIN turns = Turns /\ DOMAIN turns[t] = Fields /\ Typed(turns[t])
  BY DEF ScreenInv, Shapes, TypedInv
<1>2. /\ row.pc = pc /\ row.text = turns[t].text /\ row.env = turns[t].env
      /\ row.share = turns[t].share /\ row.handles = turns[t].handles
  BY <1>1 DEF Fields, NoTurn
<1>3. turns' = [turns EXCEPT ![t] = row]
  BY <1>1
<1> HIDE DEF row
<1>4. Typed(row)
  BY <1>1, <1>2 DEF Typed
<1> QED BY <1>3, <1>4, OneTurnTyped

\* What a turn is told of, its grants say.
LEMMA ResolveTyped ==
    ASSUME ScreenInv, HandlesOK, TypedInv, NEW t \in Turns, NEW s \in Scopes, NEW text \in Texts,
           Resolve(t, s, text)
    PROVE  TypedInv'
<1>1. PICK handles \in HandlesFor(Range(Layers(s))) : turns' = [turns EXCEPT ![t] = [NoTurn EXCEPT
             !.pc = "provision", !.scope = s, !.asked = text, !.text = text,
             !.screens = Posture(s) = "auto", !.approves = Posture(s) = "strict",
             !.handles = handles]]
  BY DEF Resolve
<1>2. TablesTyped'
  BY SameTables DEF Resolve
<1> DEFINE screens == Posture(s) = "auto"
           approves == Posture(s) = "strict"
           row == [NoTurn EXCEPT !.pc = "provision", !.scope = s, !.asked = text, !.text = text,
                        !.screens = screens, !.approves = approves, !.handles = handles]
<1>3. turns' = [turns EXCEPT ![t] = row]
  BY <1>1
<1> HIDE DEF screens, approves
<1>4. /\ row.pc = "provision" /\ row.text = text /\ row.env = NoTurn.env
      /\ row.share = NoTurn.share /\ row.handles = handles
  BY DEF NoTurn
<1> HIDE DEF row
<1>5. PICK order \in Orders(GrantsFor(Range(Layers(s)))) : handles = Handles(order)
  BY DEF HandlesFor
<1>6. IsFiniteSet(GrantsFor(Range(Layers(s))))
  BY FS_Subset DEF HandlesOK, GrantsFor
<1>7. \A i \in DOMAIN order : order[i] \in Grant
  BY <1>6, OrdersAreRows DEF GrantsFor, TypedInv, TablesTyped, GrantsTyped
<1>8. \A i \in DOMAIN order : HandleOK(Handles(order)[i])
  BY <1>7 DEF Handles, HandleOK, Grant
<1>9. \A h \in Range(handles) : HandleOK(h)
  BY <1>5, <1>8 DEF Range, Handles
<1>10. Typed(row)
  BY <1>4, <1>9, EmptyIsTyped DEF Typed, Pcs
<1> QED BY <1>2, <1>3, <1>10, OneTurnTyped

LEMMA ProvisionTyped ==
    ASSUME ScreenInv, HandlesOK, TypedInv, NEW t \in Turns, Provision(t)
    PROVE  TypedInv'
<1>1. Typed(turns[t]) /\ turns[t].scope \in Scopes /\ turns[t].pc = "provision"
  BY DEF ScreenInv, Shapes, TypedInv, Provision, At
<1>2. \A s \in Scopes : manifest'[s] = manifest[s] \/ manifest'[s] = turns[t].handles
  <2>1. DOMAIN manifest = Scopes
    BY DEF HandlesOK
  <2> QED BY <2>1, <1>1 DEF Provision
<1>3. UNCHANGED <<config, keychain, files, grants, transcript, cleared>>
  BY DEF Provision
<1>4. TablesTyped'
  BY <1>1, <1>2, <1>3 DEF TypedInv, TablesTyped, GrantsTyped, Questions, Typed
<1>5. turns' = [turns EXCEPT ![t].pc = "rewrite"]
  BY DEF Provision, Goto
<1> QED BY <1>1, <1>4, <1>5, GoesTyped DEF Pcs

\* Modules answer with texts, and the last one of those stays.
LEMMA TextsStayTexts ==
    ASSUME NEW text \in Texts, NEW responses \in [Middleware -> Responses]
    PROVE  Folded(text, responses) \in Texts
<1>1. PICK n \in Nat : Middleware = 1..n
  <2>1. 1..0 = {}
    OBVIOUS
  <2> QED BY <2>1, WorkspaceAssumption DEF Middleware
<1>2. Folded(text, responses) = LeftBy(1..n, text, responses)
  BY <1>1, LastTextWins
<1> DEFINE some == Rewriting(1..n, responses)
<1>3. CASE some = {}
  BY <1>2, <1>3 DEF LeftBy
<1>4. CASE some # {}
  <2>1. some \in SUBSET (1..n)
    BY DEF Rewriting
  <2>2. Max(some) \in some
    BY <1>4, <2>1, Greatest
  <2> DEFINE response == responses[Max(some)]
  <2>3. response \in Responses /\ Rewrites(response)
    BY <1>1, <2>1, <2>2 DEF Rewriting
  <2> HIDE DEF response
  <2>4. PICK new \in Texts : response.text = {new}
    BY <2>3 DEF Responses, Response, Failure, Rewrites
  <2>5. Text(response) \in Texts
    BY <2>4 DEF Text
  <2>6. Folded(text, responses) = Text(response)
    BY <1>2, <1>4 DEF LeftBy, response
  <2> QED BY <2>5, <2>6
<1> QED BY <1>3, <1>4

LEMMA RewriteTyped ==
    ASSUME ScreenInv, TypedInv, NEW t \in Turns, Rewrite(t)
    PROVE  TypedInv'
<1>1. PICK responses \in [Middleware -> Responses] :
         turns' = [turns EXCEPT ![t].text = Folded(turns[t].text, responses),
                                ![t].pc = IF turns[t].screens THEN "screen" ELSE "record"]
  BY DEF Rewrite
<1> DEFINE text == Folded(turns[t].text, responses)
           pc == IF turns[t].screens THEN "screen" ELSE "record"
           row == [turns[t] EXCEPT !.text = text, !.pc = pc]
<1>2. DOMAIN turns = Turns /\ DOMAIN turns[t] = Fields /\ Typed(turns[t]) /\ turns[t].pc = "rewrite"
  BY DEF ScreenInv, Shapes, TypedInv, Rewrite, At
<1>3. text \in Texts
  BY <1>2, TextsStayTexts DEF Typed
<1>4. pc \in Pcs
  BY DEF Pcs
<1> HIDE DEF text, pc
<1>5. turns' = [turns EXCEPT ![t] = row]
  BY <1>1, <1>2 DEF text, pc
<1>6. /\ row.pc = pc /\ row.text = text /\ row.env = turns[t].env
      /\ row.share = turns[t].share /\ row.handles = turns[t].handles
  BY <1>2 DEF Fields, NoTurn
<1> HIDE DEF row
<1>7. Typed(row)
  BY <1>2, <1>3, <1>4, <1>6 DEF Typed
<1>8. TablesTyped'
  BY SameTables DEF Rewrite
<1> QED BY <1>5, <1>7, <1>8, OneTurnTyped

LEMMA ScreenTyped ==
    ASSUME ScreenInv, TypedInv, NEW t \in Turns, NEW verdict, Screen(t, verdict)
    PROVE  TypedInv'
<1>1. Typed(turns[t]) /\ turns[t].scope \in Scopes /\ turns[t].pc = "screen" /\ DOMAIN cleared = Scopes
  BY DEF ScreenInv, Shapes, TypedInv, Screen, At
<1>2. \A s \in Scopes : cleared'[s] \subseteq cleared[s] \cup {turns[t].text}
  BY <1>1 DEF Screen
<1>3. UNCHANGED <<config, keychain, files, grants, manifest, transcript>>
  BY DEF Screen
<1>4. turns[t].text \in Texts
  BY <1>1 DEF Typed
<1>5. TablesTyped'
  BY <1>2, <1>3, <1>4 DEF TypedInv, TablesTyped, GrantsTyped, Questions
<1>6. turns' = [turns EXCEPT ![t].pc = "record"]
  BY DEF Screen, Goto
<1> QED BY <1>1, <1>5, <1>6, GoesTyped DEF Pcs

\* An entry more on a transcript: a notice, or a question with a text.
LEMMA AddedTyped ==
    ASSUME ScreenInv, TypedInv, NEW s \in Scopes, NEW kind, NEW text, Add(s, kind, text),
           kind = "user" => text \in Texts,
           UNCHANGED <<config, keychain, files, grants, manifest, cleared>>
    PROVE  TablesTyped'
<1> DEFINE entry == [kind |-> kind, text |-> text]
<1>1. /\ transcript' = [transcript EXCEPT ![s] = Append(transcript[s], entry)]
      /\ DOMAIN transcript = Scopes
  BY DEF Add, ScreenInv, Shapes
<1>2. entry.kind = kind /\ entry.text = text
  OBVIOUS
<1> HIDE DEF entry
<1>3. ASSUME NEW u \in Scopes, NEW i \in DOMAIN transcript'[u], transcript'[u][i].kind = "user"
      PROVE  transcript'[u][i].text \in Texts
  <2>1. PICK Rows : transcript[u] \in Seq(Rows)
    BY DEF ScreenInv, Shapes
  <2>2. \A j \in DOMAIN transcript[u] : transcript[u][j].kind = "user" => transcript[u][j].text \in Texts
    BY DEF TypedInv, TablesTyped, Questions
  <2>3. CASE u # s
    <3>1. transcript'[u] = transcript[u]
      BY <1>1, <2>3
    <3> QED BY <1>3, <2>2, <3>1
  <2>4. CASE u = s
    <3>1. transcript'[u] = Append(transcript[u], entry)
      BY <1>1, <2>4
    <3>2. \A j \in DOMAIN transcript'[u] :
             transcript'[u][j] = entry \/ (j \in DOMAIN transcript[u] /\ transcript'[u][j] = transcript[u][j])
      BY <2>1, <3>1
    <3> QED BY <1>2, <1>3, <2>2, <3>2
  <2> QED BY <2>3, <2>4
<1> QED BY <1>3 DEF TypedInv, TablesTyped, GrantsTyped, Questions

\* A turn that is refused or over.
LEMMA EndTyped ==
    ASSUME ScreenInv, TypedInv, NEW t \in Turns, NEW verdict, Refuse(t, verdict) \/ Finish(t)
    PROVE  TypedInv'
<1>1. TablesTyped'
  <2>1. CASE Refuse(t, verdict)
    <3>1. turns[t].scope \in Scopes
      BY DEF ScreenInv, Shapes
    <3>2. /\ Add(turns[t].scope, "system", "")
          /\ UNCHANGED <<config, keychain, files, grants, manifest, cleared>>
      BY <2>1 DEF Refuse
    <3> DEFINE kind == "system"
               text == ""
    <3>3. Add(turns[t].scope, kind, text) /\ kind # "user"
      BY <3>2
    <3> HIDE DEF kind, text
    <3> QED BY <3>1, <3>2, <3>3, AddedTyped
  <2>2. CASE Finish(t)
    BY <2>2, SameTables DEF Finish
  <2> QED BY <2>1, <2>2
<1>2. turns' = [turns EXCEPT ![t] = NoTurn]
  BY DEF Refuse, Finish
<1> QED BY <1>1, <1>2, EmptyIsTyped, OneTurnTyped

LEMMA RecordTyped ==
    ASSUME ScreenInv, TypedInv, NEW t \in Turns, Record(t)
    PROVE  TypedInv'
<1>1. Typed(turns[t]) /\ turns[t].scope \in Scopes /\ turns[t].pc = "record"
  BY DEF ScreenInv, Shapes, TypedInv, Record, At
<1>2. turns[t].text \in Texts
  BY <1>1 DEF Typed
<1>3. Add(turns[t].scope, "user", turns[t].text)
      /\ UNCHANGED <<config, keychain, files, grants, manifest, cleared>>
  BY DEF Record
<1>4. TablesTyped'
  BY <1>1, <1>2, <1>3, AddedTyped
<1>5. turns' = [turns EXCEPT ![t].pc = "run"]
  BY DEF Record, Goto
<1> QED BY <1>1, <1>4, <1>5, GoesTyped DEF Pcs

LEMMA ExecuteTyped ==
    ASSUME ScreenInv, TypedInv, NEW t \in Turns, Execute(t)
    PROVE  TypedInv'
<1> DEFINE row == [turns[t] EXCEPT !.pc = "materialize", !.calls = turns[t].calls + 1,
                        !.env = NoEnv, !.touched = {}, !.unread = Layers(turns[t].scope)]
<1>1. DOMAIN turns[t] = Fields /\ Typed(turns[t]) /\ turns[t].pc = "run"
  BY DEF ScreenInv, Shapes, TypedInv, Execute, Calls, At
<1>2. turns' = [turns EXCEPT ![t] = row]
  BY DEF Execute
<1>3. /\ row.pc = "materialize" /\ row.text = turns[t].text /\ row.env = NoEnv
      /\ row.share = turns[t].share /\ row.handles = turns[t].handles
  BY <1>1 DEF Fields, NoTurn
<1> HIDE DEF row
<1>4. NoEnv \in Secrets
  BY DEF NoEnv, Secrets
<1>5. Typed(row)
  BY <1>1, <1>3, <1>4 DEF Typed, Pcs
<1>6. TablesTyped'
  BY SameTables DEF Execute
<1> QED BY <1>2, <1>5, <1>6, OneTurnTyped

\* A layer is one of the turn's scopes, and its values are values.
LEMMA MaterializeTyped ==
    ASSUME ScreenInv, EnvInv, TypedInv, NEW t \in Turns, MaterializeLayer(t)
    PROVE  TypedInv'
<1> DEFINE layer == Head(turns[t].unread)
           last == Len(turns[t].unread) = 1
           env == Overlay(turns[t].env, keychain[layer])
           left == Tail(turns[t].unread)
           given == IF last THEN Exported(env) ELSE env
           pc == IF last THEN "exec" ELSE "materialize"
           row == [turns[t] EXCEPT !.unread = left, !.env = given, !.pc = pc]
<1>1. /\ DOMAIN turns[t] = Fields /\ Typed(turns[t]) /\ turns[t].scope \in Scopes
      /\ turns[t].pc = "materialize" /\ EnvironmentOK(turns[t])
  BY DEF ScreenInv, Shapes, TypedInv, EnvInv, MaterializeLayer, At
<1>2. turns' = [turns EXCEPT ![t] = row]
  BY DEF MaterializeLayer
<1>3. layer \in Scopes
  BY <1>1, WorkspaceAssumption DEF EnvironmentOK, Layers
<1>4. keychain[layer] \in Secrets /\ turns[t].env \in Secrets
  BY <1>1, <1>3 DEF TypedInv, TablesTyped, Typed
<1> HIDE DEF layer
<1>5. env \in Secrets
  BY <1>4 DEF Overlay, Secrets
<1> HIDE DEF env
<1>6. given \in Secrets
  BY <1>5 DEF Exported, Secrets
<1>7. pc \in Pcs /\ pc # "idle"
  BY DEF Pcs
<1> HIDE DEF given, pc, left
<1>8. /\ row.pc = pc /\ row.text = turns[t].text /\ row.env = given
      /\ row.share = turns[t].share /\ row.handles = turns[t].handles
  BY <1>1 DEF Fields, NoTurn
<1> HIDE DEF row
<1>9. Typed(row)
  BY <1>1, <1>6, <1>7, <1>8 DEF Typed
<1>10. TablesTyped'
  BY SameTables DEF MaterializeLayer
<1> QED BY <1>2, <1>9, <1>10, OneTurnTyped

LEMMA ExecTyped ==
    ASSUME ScreenInv, TypedInv, NEW t \in Turns, Exec(t)
    PROVE  TypedInv'
<1> DEFINE row == [turns[t] EXCEPT !.pc = "run", !.env = NoEnv, !.touched = {}]
<1>1. /\ DOMAIN turns[t] = Fields /\ Typed(turns[t]) /\ turns[t].pc = "exec"
      /\ turns[t].scope \in Scopes
  BY DEF ScreenInv, Shapes, TypedInv, Exec, At
<1>2. turns' = [turns EXCEPT ![t] = row]
  BY DEF Exec
<1>3. /\ row.pc = "run" /\ row.text = turns[t].text /\ row.env = NoEnv
      /\ row.share = turns[t].share /\ row.handles = turns[t].handles
  BY <1>1 DEF Fields, NoTurn
<1> HIDE DEF row
<1>4. NoEnv \in Secrets
  BY DEF NoEnv, Secrets
<1>5. Typed(row)
  BY <1>1, <1>3, <1>4 DEF Typed, Pcs
<1>6. files' \in [Scopes -> SUBSET Paths]
  BY <1>1 DEF Exec, TypedInv, TablesTyped
<1>7. UNCHANGED <<config, keychain, grants, manifest, transcript, cleared>>
  BY DEF Exec
<1>8. TablesTyped'
  BY <1>6, <1>7 DEF TypedInv, TablesTyped, GrantsTyped, Questions
<1> QED BY <1>2, <1>5, <1>8, OneTurnTyped

LEMMA WriteFileTyped ==
    ASSUME ScreenInv, TypedInv, NEW t \in Turns, NEW path \in Paths, WriteFile(t, path)
    PROVE  TypedInv'
<1> DEFINE row == [turns[t] EXCEPT !.calls = turns[t].calls + 1]
<1>1. /\ DOMAIN turns = Turns /\ DOMAIN turns[t] = Fields /\ Typed(turns[t])
      /\ turns[t].scope \in Scopes
  BY DEF ScreenInv, Shapes, TypedInv
<1>2. turns' = [turns EXCEPT ![t] = row]
  BY <1>1 DEF WriteFile
<1>3. /\ row.pc = turns[t].pc /\ row.text = turns[t].text /\ row.env = turns[t].env
      /\ row.share = turns[t].share /\ row.handles = turns[t].handles
  BY <1>1 DEF Fields, NoTurn
<1> HIDE DEF row
<1>4. Typed(row)
  BY <1>1, <1>3 DEF Typed
<1>5. files' \in [Scopes -> SUBSET Paths]
  BY <1>1 DEF WriteFile, TypedInv, TablesTyped
<1>6. UNCHANGED <<config, keychain, grants, manifest, transcript, cleared>>
  BY DEF WriteFile
<1>7. TablesTyped'
  BY <1>5, <1>6 DEF TypedInv, TablesTyped, GrantsTyped, Questions
<1> QED BY <1>2, <1>4, <1>7, OneTurnTyped

LEMMA ShareTyped ==
    ASSUME ScreenInv, TypedInv, NEW t \in Turns, NEW path \in Paths, NEW grantee \in Scopes,
           NEW permission \in Permissions, Share(t, path, grantee, permission)
    PROVE  TypedInv'
<1> DEFINE share == {[owner |-> turns[t].scope, path |-> path, grantee |-> grantee,
                      permission |-> permission]}
           row == [turns[t] EXCEPT !.calls = turns[t].calls + 1, !.pc = "share", !.share = share]
<1>1. /\ DOMAIN turns[t] = Fields /\ Typed(turns[t]) /\ turns[t].pc = "run"
      /\ turns[t].scope \in Scopes
  BY DEF ScreenInv, Shapes, TypedInv, Share, Calls, At
<1>2. turns' = [turns EXCEPT ![t] = row]
  BY DEF Share
<1>3. share \subseteq Grant
  BY <1>1 DEF Grant
<1> HIDE DEF share
<1>4. /\ row.pc = "share" /\ row.text = turns[t].text /\ row.env = turns[t].env
      /\ row.share = share /\ row.handles = turns[t].handles
  BY <1>1 DEF Fields, NoTurn
<1> HIDE DEF row
<1>5. Typed(row)
  BY <1>1, <1>3, <1>4 DEF Typed, Pcs
<1>6. TablesTyped'
  BY SameTables DEF Share
<1> QED BY <1>2, <1>5, <1>6, OneTurnTyped

\* A grant takes the place of the one with its key.
LEMMA PutGrantTyped ==
    ASSUME ScreenInv, TypedInv, NEW t \in Turns, PutGrant(t)
    PROVE  TypedInv'
<1> DEFINE row == [turns[t] EXCEPT !.pc = "run", !.share = {}]
<1>1. DOMAIN turns[t] = Fields /\ Typed(turns[t]) /\ turns[t].pc = "share"
  BY DEF ScreenInv, Shapes, TypedInv, PutGrant, At
<1>2. turns' = [turns EXCEPT ![t] = row]
  BY DEF PutGrant
<1>3. /\ row.pc = "run" /\ row.text = turns[t].text /\ row.env = turns[t].env
      /\ row.share = {} /\ row.handles = turns[t].handles
  BY <1>1 DEF Fields, NoTurn
<1> HIDE DEF row
<1>4. Typed(row)
  BY <1>1, <1>3 DEF Typed, Pcs
<1>5. PICK g \in turns[t].share : grants' = IF g.owner = g.grantee THEN grants
                                            ELSE {h \in grants : ~SameGrant(g, h)} \cup {g}
  BY DEF PutGrant
<1>6. g \in Grant
  BY <1>1 DEF Typed
<1>7. \A h, k : SameGrant(h, k) => SameGrant(k, h)
  BY DEF SameGrant
<1>8. GrantsTyped'
  BY <1>5, <1>6, <1>7 DEF TypedInv, TablesTyped, GrantsTyped
<1>9. UNCHANGED <<config, keychain, files, manifest, transcript, cleared>>
  BY DEF PutGrant
<1>10. TablesTyped'
  BY <1>8, <1>9 DEF TypedInv, TablesTyped, Questions
<1> QED BY <1>2, <1>4, <1>10, OneTurnTyped

LEMMA ChangeTyped ==
    ASSUME ScreenInv, TypedInv, NEW s \in Scopes, NEW n \in Names,
           NEW value \in Values \cup {Missing}, Change(s, n, value)
    PROVE  TypedInv'
<1>1. DOMAIN turns = Turns /\ \A t \in Turns : DOMAIN turns[t] = Fields
  BY DEF ScreenInv, Shapes
<1>2. ASSUME NEW t \in Turns PROVE Typed(turns'[t])
  <2> DEFINE row == [turns[t] EXCEPT !.touched = turns[t].touched \cup {n}]
  <2>1. turns'[t] = row \/ turns'[t] = turns[t]
    BY DEF Change
  <2>2. /\ row.pc = turns[t].pc /\ row.text = turns[t].text /\ row.env = turns[t].env
        /\ row.share = turns[t].share /\ row.handles = turns[t].handles
    BY <1>1 DEF Fields, NoTurn
  <2>3. Typed(turns[t])
    BY DEF TypedInv
  <2> HIDE DEF row
  <2>4. Typed(row)
    BY <2>2, <2>3 DEF Typed
  <2> QED BY <2>1, <2>3, <2>4
<1>3. keychain' \in [Scopes -> Secrets]
  <2>1. keychain' = [keychain EXCEPT ![s][n] = value] /\ keychain \in [Scopes -> Secrets]
    BY DEF Change, TypedInv, TablesTyped
  <2>2. [keychain[s] EXCEPT ![n] = value] \in Secrets
    BY <2>1 DEF Secrets
  <2> QED BY <2>1, <2>2
<1>4. UNCHANGED <<config, files, grants, manifest, transcript, cleared>>
  BY DEF Change
<1>5. TablesTyped'
  BY <1>3, <1>4 DEF TypedInv, TablesTyped, GrantsTyped, Questions
<1> QED BY <1>2, <1>5 DEF TypedInv, Typed

LEMMA InitTyped == Init => TypedInv
<1> SUFFICES ASSUME Init PROVE TypedInv
  OBVIOUS
<1>1. NoEnv \in Secrets
  BY DEF NoEnv, Secrets
<1>2. Range(<<>>) = {} /\ DOMAIN <<>> = {}
  BY DEF Range
<1>3. /\ config \in Configs /\ keychain = [s \in Scopes |-> NoEnv]
      /\ files = [s \in Scopes |-> {}] /\ grants = {}
      /\ \A s \in Scopes : manifest[s] = <<>> /\ transcript[s] = <<>> /\ cleared[s] = {}
      /\ \A t \in Turns : turns[t] = NoTurn
  BY DEF Init
<1>4. TablesTyped
  BY <1>1, <1>2, <1>3 DEF TablesTyped, GrantsTyped, Questions
<1> QED BY <1>3, <1>4, EmptyIsTyped DEF TypedInv

LEMMA NextTyped == ScreenInv /\ EnvInv /\ HandlesOK /\ TypedInv /\ [Next]_vars => TypedInv'
<1> SUFFICES ASSUME ScreenInv, EnvInv, HandlesOK, TypedInv, [Next]_vars PROVE TypedInv'
  OBVIOUS
<1>1. ASSUME NEW t \in Turns, NEW s \in Scopes, NEW text \in Texts, Resolve(t, s, text)
      PROVE  TypedInv'
  BY <1>1, ResolveTyped
<1>2. ASSUME NEW t \in Turns,
             \/ Provision(t) \/ Rewrite(t) \/ Record(t) \/ Execute(t)
             \/ MaterializeLayer(t) \/ Exec(t) \/ PutGrant(t)
      PROVE  TypedInv'
  BY <1>2, ProvisionTyped, RewriteTyped, RecordTyped, ExecuteTyped, MaterializeTyped, ExecTyped,
     PutGrantTyped
<1>3. ASSUME NEW t \in Turns, NEW verdict, Screen(t, verdict) \/ Refuse(t, verdict) \/ Finish(t)
      PROVE  TypedInv'
  BY <1>3, ScreenTyped, EndTyped
<1>4. ASSUME NEW t \in Turns, NEW path \in Paths, WriteFile(t, path) PROVE TypedInv'
  BY <1>4, WriteFileTyped
<1>5. ASSUME NEW t \in Turns, NEW path \in Paths, NEW grantee \in Scopes,
             NEW permission \in Permissions, Share(t, path, grantee, permission)
      PROVE  TypedInv'
  BY <1>5, ShareTyped
<1>6. ASSUME NEW s \in Scopes, NEW n \in Names,
             (\E value \in Values : PutSecret(s, n, value)) \/ DeleteSecret(s, n)
      PROVE  TypedInv'
  BY <1>6, ChangeTyped DEF PutSecret, DeleteSecret
<1>7. ASSUME UNCHANGED vars PROVE TypedInv'
  BY <1>7 DEF vars, TypedInv, TablesTyped, GrantsTyped, Questions, Typed
<1> QED BY <1>1, <1>2, <1>3, <1>4, <1>5, <1>6, <1>7 DEF Next

\* Whatever turns, commands, grants and people interleave, a file is granted to a
\* scope by one row (store/acl.rs, grant), a manifest and a turn name files of
\* scopes there are, and what was cleared and what was asked are texts, also where
\* modules rewrote them.
THEOREM WorkspaceTypeCorrect == Spec => []TypeOK
<1>1. ASSUME ScreenInv, TypedInv PROVE TypeOK
  <2>1. ASSUME NEW s \in Scopes, NEW entry \in Range(transcript[s]), entry.kind = "user"
        PROVE  entry.text \in Texts
    <3>1. PICK i \in DOMAIN transcript[s] : entry = transcript[s][i]
      BY DEF Range
    <3> QED BY <1>1, <2>1, <3>1 DEF TypedInv, TablesTyped, Questions
  <2>2. \A t \in Turns : turns[t].scope \in Scopes
    BY <1>1 DEF ScreenInv, Shapes
  <2> QED BY <1>1, <2>1, <2>2 DEF TypedInv, TablesTyped, GrantsTyped, Typed, TypeOK, Secrets
<1> QED
  BY <1>1, InitScreen, NextScreen, InitEnv, NextEnv, InitKnows, NextKnows, InitTyped, NextTyped,
     PTL DEF Spec
=============================================================================
