----------------------------- MODULE TurnsProofs -----------------------------
(***************************************************************************)
(* What TLAPS proves of Turns: for every set of sessions, people, commands  *)
(* and texts, any policies and postures, any number of turns at once, and   *)
(* turns that fail wherever they are.                                       *)
(***************************************************************************)
EXTENDS Turns, TLAPS, WellFoundedInduction

-----------------------------------------------------------------------------
(* The inductive invariant.  The rows of approvals are a parameter, to speak *)
(* of those before and after a step.                                        *)

Fields == DOMAIN NoTurn
RowFields == {"session", "call", "key", "state", "by", "scope", "question"}

DecisionOn(s, command) == Evaluate(PolicyOf[s], command).decision
KeyOf(s, command) == Evaluate(PolicyOf[s], command).key

\* A row is about a call that the strict posture, or the policy, asks about.
RowOK(row) ==
    /\ DOMAIN row = RowFields
    /\ ~row.call.strict =>
          /\ row.key = KeyOf(row.session, row.call.command)
          /\ DecisionOn(row.session, row.call.command) = "require_approval"

\* The row a turn decided, and the row of a turn that goes on from an approval.
DecidedRow(rows, x) ==
    /\ x.request \in DOMAIN rows
    /\ rows[x.request].session = x.session
    /\ rows[x.request].by = x.actor
    /\ rows[x.request].scope = x.decision
    /\ rows[x.request].state = IF x.decision = "decline" THEN "declined" ELSE "approved"
ApprovedRow(rows, x) == DecidedRow(rows, x) /\ x.decision # "decline"

\* What RunsAreAuthorised says of one turn.
Authorised(rows, x) ==
    /\ DecisionOn(x.session, x.call.command) # "deny"
    /\ DecisionOn(x.session, x.call.command) = "require_approval" =>
          \E r \in DOMAIN rows : Covers(rows[r], x)

AfterApproval(rows, x) ==
    x.pc \in {"run", "gate", "exec"} =>
        /\ x.request # 0 => ApprovedRow(rows, x)
        /\ x.approved = NoCall \/ (x.request # 0 /\ x.approved = rows[x.request].call)

StrictWaits(x) ==
    /\ x.pc \in {"screen", "record"} => x.request = 0 /\ x.approved = NoCall
    /\ x.pc \in {"screen", "record", "run"} /\ x.request = 0 /\ Posture[x.session] = "strict" =>
          x.every
    /\ x.pc \in {"gate", "exec"} /\ Posture[x.session] = "strict" => x.request # 0

TurnOK(rows, x) ==
    /\ DOMAIN x = Fields
    /\ StrictWaits(x)
    /\ x.pc = "resolve" => x.request \in DOMAIN rows /\ rows[x.request].session = x.session
    /\ x.pc = "note" => DecidedRow(rows, x)
    /\ x.pc \in {"grant", "recall"} => ApprovedRow(rows, x)
    /\ AfterApproval(rows, x)
    /\ x.pc = "gate" => ~x.call.strict
    /\ x.pc = "exec" => Authorised(rows, x)
    /\ x.pc = "pause" /\ x.request = 0 /\ ~x.call.strict =>
          DecisionOn(x.session, x.call.command) = "require_approval"

\* A standing grant comes from a row that was approved with its scope.
GrantOK(rows, g) ==
    \E r \in DOMAIN rows :
        /\ rows[r].state = "approved"
        /\ rows[r].by = g.actor /\ rows[r].key = g.key /\ rows[r].scope = g.scope
        /\ g.scope = "session" => rows[r].session = g.session

RowsOK ==
    /\ \E Rows : approvals \in Seq(Rows)
    /\ \A r \in DOMAIN approvals : RowOK(approvals[r])

Resumes(x) == x.pc \in {"note", "grant", "recall", "run", "gate", "exec"} /\ x.request # 0

TurnsOK ==
    /\ DOMAIN turns = Turns
    /\ \A t \in Turns : TurnOK(approvals, turns[t])
    /\ \A t, u \in Turns :
          Resumes(turns[t]) /\ Resumes(turns[u]) /\ t # u => turns[t].request # turns[u].request

ApprovalInv == RowsOK /\ TurnsOK /\ (\A g \in grants : GrantOK(approvals, g))

-----------------------------------------------------------------------------
(* Rows only grow, and what was decided stays *)

Grows(rows, later) ==
    /\ DOMAIN rows \subseteq DOMAIN later
    /\ \A r \in DOMAIN rows :
          /\ later[r].session = rows[r].session
          /\ rows[r].state # "open" => later[r] = rows[r]

LEMMA AuthorityStays ==
    ASSUME NEW rows, NEW later, Grows(rows, later), NEW x, Authorised(rows, x)
    PROVE  Authorised(later, x)
<1>1. ASSUME NEW r \in DOMAIN rows, Covers(rows[r], x) PROVE r \in DOMAIN later /\ Covers(later[r], x)
  <2>1. rows[r].state = "approved"
    BY <1>1 DEF Covers
  <2>2. r \in DOMAIN later /\ later[r] = rows[r]
    BY <2>1 DEF Grows
  <2>3. QED
    BY <1>1, <2>2
<1>2. QED
  BY <1>1 DEF Authorised

LEMMA DecisionStays ==
    ASSUME NEW rows, NEW later, Grows(rows, later), NEW x, DecidedRow(rows, x)
    PROVE  DecidedRow(later, x) /\ later[x.request] = rows[x.request]
<1>1. rows[x.request].state # "open" /\ x.request \in DOMAIN rows
  BY DEF DecidedRow
<1>2. later[x.request] = rows[x.request] /\ x.request \in DOMAIN later
  BY <1>1 DEF Grows
<1>3. QED
  BY <1>2 DEF DecidedRow

LEMMA TurnStaysOK ==
    ASSUME NEW rows, NEW later, Grows(rows, later), NEW x, TurnOK(rows, x)
    PROVE  TurnOK(later, x)
<1>1. DecidedRow(rows, x) => DecidedRow(later, x) /\ later[x.request] = rows[x.request]
  BY DecisionStays
<1>2. Authorised(rows, x) => Authorised(later, x)
  BY AuthorityStays
<1>3. x.request \in DOMAIN rows => x.request \in DOMAIN later /\ later[x.request].session = rows[x.request].session
  BY DEF Grows
<1>4. AfterApproval(later, x)
  BY <1>1 DEF TurnOK, AfterApproval, ApprovedRow
<1>5. QED
  BY <1>1, <1>2, <1>3, <1>4 DEF TurnOK, ApprovedRow

LEMMA GrantStaysOK ==
    ASSUME NEW rows, NEW later, Grows(rows, later), NEW g, GrantOK(rows, g)
    PROVE  GrantOK(later, g)
<1>1. PICK r \in DOMAIN rows :
          /\ rows[r].state = "approved"
          /\ rows[r].by = g.actor /\ rows[r].key = g.key /\ rows[r].scope = g.scope
          /\ g.scope = "session" => rows[r].session = g.session
  BY DEF GrantOK
<1>2. r \in DOMAIN later /\ later[r] = rows[r]
  BY <1>1 DEF Grows
<1>3. QED
  BY <1>1, <1>2 DEF GrantOK

LEMMA GrowsNot == ASSUME NEW rows PROVE Grows(rows, rows)
BY DEF Grows

-----------------------------------------------------------------------------
(* Steps of one turn *)

LEMMA OneTurnMoves ==
    ASSUME ApprovalInv, Grows(approvals, approvals'),
           NEW t \in Turns, NEW row, turns' = [turns EXCEPT ![t] = row],
           TurnOK(approvals', row),
           Resumes(row) =>
              \/ Resumes(turns[t]) /\ row.request = turns[t].request
              \/ \A u \in Turns \ {t} : Resumes(turns[u]) => turns[u].request # row.request
    PROVE  TurnsOK'
<1>1. DOMAIN turns = Turns
  BY DEF ApprovalInv, TurnsOK
<1>2. turns'[t] = row /\ \A u \in Turns \ {t} : turns'[u] = turns[u]
  BY <1>1
<1>3. DOMAIN turns' = Turns
  BY <1>1
<1>4. \A u \in Turns : TurnOK(approvals', turns'[u])
  <2>1. \A u \in Turns : TurnOK(approvals, turns[u])
    BY DEF ApprovalInv, TurnsOK
  <2>2. \A u \in Turns : TurnOK(approvals', turns[u])
    BY <2>1, TurnStaysOK
  <2>3. QED
    BY <1>2, <2>2
<1>5. \A u \in Turns \ {t} : Resumes(row) /\ Resumes(turns[u]) => turns[u].request # row.request
  BY DEF ApprovalInv, TurnsOK
<1>6. \A u, v \in Turns :
          Resumes(turns'[u]) /\ Resumes(turns'[v]) /\ u # v => turns'[u].request # turns'[v].request
  BY <1>2, <1>5 DEF ApprovalInv, TurnsOK
<1>7. QED
  BY <1>3, <1>4, <1>6 DEF TurnsOK, Resumes

\* A step that writes no row and no grant, and resumes nothing.
LEMMA QuietStep ==
    ASSUME ApprovalInv, approvals' = approvals, grants' = grants,
           NEW t \in Turns, NEW row, turns' = [turns EXCEPT ![t] = row],
           TurnOK(approvals, row),
           Resumes(row) => Resumes(turns[t]) /\ row.request = turns[t].request
    PROVE  ApprovalInv'
<1>1. TurnsOK'
  BY GrowsNot, OneTurnMoves
<1>2. RowsOK'
  BY DEF ApprovalInv, RowsOK, RowOK
<1>3. \A g \in grants' : GrantOK(approvals', g)
  BY DEF ApprovalInv
<1>4. QED
  BY <1>1, <1>2, <1>3 DEF ApprovalInv, GrantOK

LEMMA NoTurnOK ==
    /\ DOMAIN NoTurn = Fields /\ NoTurn.pc = "idle" /\ NoTurn.request = 0
    /\ \A rows : TurnOK(rows, NoTurn)
    /\ ~Resumes(NoTurn)
<1>1. DOMAIN NoTurn = Fields /\ NoTurn.pc = "idle" /\ NoTurn.request = 0
  BY DEF Fields, NoTurn
<1>2. QED
  BY <1>1 DEF TurnOK, StrictWaits, AfterApproval, Resumes

\* However a turn ends.
LEMMA EndStep ==
    ASSUME ApprovalInv, approvals' = approvals, grants' = grants, NEW t \in Turns, End(t)
    PROVE  ApprovalInv'
BY NoTurnOK, QuietStep DEF End

-----------------------------------------------------------------------------
(* From the request to the loop of the harness *)

LEMMA TurnNow ==
    ASSUME ApprovalInv, NEW t \in Turns
    PROVE  /\ DOMAIN turns = Turns /\ DOMAIN turns[t] = Fields /\ TurnOK(approvals, turns[t])
           /\ \A f \in {"pc", "session", "actor", "text", "approved", "request", "decision",
                        "every", "steps", "todo", "call"} : f \in Fields
BY DEF ApprovalInv, TurnsOK, TurnOK, Fields, NoTurn

\* What a step of a turn leaves alone.
Same(row, x) ==
    /\ DOMAIN row = Fields
    /\ row.session = x.session /\ row.actor = x.actor /\ row.request = x.request
    /\ row.decision = x.decision /\ row.every = x.every

LEMMA AskStep ==
    ASSUME ApprovalInv, NEW t \in Turns, NEW s \in Sessions, NEW actor, NEW text,
           Ask(t, s, actor, text)
    PROVE  ApprovalInv'
<1> DEFINE row == [TurnRequest(s, actor, text) EXCEPT
                      !.pc = IF Posture[s] = "auto" THEN "screen" ELSE "record",
                      !.every = Posture[s] = "strict"]
<1>1. turns' = [turns EXCEPT ![t] = row] /\ approvals' = approvals /\ grants' = grants
  BY DEF Ask, SecurityPolicy
<1>2. DOMAIN row = Fields /\ row.pc \in {"screen", "record"} /\ row.request = 0
      /\ row.approved = NoCall /\ row.session = s /\ (Posture[s] = "strict" => row.every)
  BY DEF TurnRequest, Fields, NoTurn
<1> HIDE DEF row
<1>3. TurnOK(approvals, row) /\ ~Resumes(row)
  BY <1>2 DEF TurnOK, StrictWaits, AfterApproval, Resumes
<1>4. QED
  BY <1>1, <1>3, QuietStep

LEMMA ScreenStep ==
    ASSUME ApprovalInv, NEW t \in Turns, Screen(t)
    PROVE  ApprovalInv'
<1>1. approvals' = approvals /\ grants' = grants /\ turns[t].pc = "screen"
  BY DEF Screen, At
<1>2. CASE End(t)
  BY <1>1, <1>2, EndStep
<1>3. CASE Goto(t, "record")
  <2> DEFINE row == [turns[t] EXCEPT !.pc = "record"]
  <2>1. turns' = [turns EXCEPT ![t] = row]
    BY <1>3 DEF Goto
  <2>2. Same(row, turns[t]) /\ row.pc = "record" /\ row.approved = turns[t].approved
    BY TurnNow DEF Same
  <2> HIDE DEF row
  <2>3. TurnOK(approvals, row) /\ ~Resumes(row)
    BY <1>1, <2>2, TurnNow DEF Same, TurnOK, StrictWaits, AfterApproval, Resumes
  <2>4. QED
    BY <1>1, <2>1, <2>3, QuietStep
<1>4. QED
  BY <1>2, <1>3 DEF Screen

LEMMA RecordQuestionStep ==
    ASSUME ApprovalInv, NEW t \in Turns, RecordQuestion(t)
    PROVE  ApprovalInv'
<1> DEFINE todo == Script(turns[t].text)
           row == [turns[t] EXCEPT !.pc = "run", !.todo = todo]
<1>1. turns' = [turns EXCEPT ![t] = row] /\ approvals' = approvals /\ grants' = grants
      /\ turns[t].pc = "record"
  BY DEF RecordQuestion, At
<1> HIDE DEF todo
<1>2. Same(row, turns[t]) /\ row.pc = "run" /\ row.approved = turns[t].approved
  BY TurnNow DEF Same
<1> HIDE DEF row
<1>3. TurnOK(approvals, row) /\ ~Resumes(row)
  BY <1>1, <1>2, TurnNow DEF Same, TurnOK, StrictWaits, AfterApproval, Resumes
<1>4. QED
  BY <1>1, <1>3, QuietStep

-----------------------------------------------------------------------------
(* The loops of the harnesses *)

\* A step inside a loop: the turn goes on running, with what it was approved.
LEMMA RunsOn ==
    ASSUME ApprovalInv, approvals' = approvals, grants' = grants,
           NEW t \in Turns, turns[t].pc \in {"run", "gate", "exec"},
           NEW row, turns' = [turns EXCEPT ![t] = row],
           Same(row, turns[t]), row.pc = "run", row.approved = turns[t].approved
    PROVE  ApprovalInv'
<1>1. Resumes(row) => Resumes(turns[t]) /\ row.request = turns[t].request
  BY DEF Same, Resumes
<1>2. AfterApproval(approvals, row)
  BY TurnNow DEF Same, TurnOK, AfterApproval, ApprovedRow, DecidedRow
<1>3. StrictWaits(row)
  BY TurnNow DEF Same, TurnOK, StrictWaits
<1>4. TurnOK(approvals, row)
  BY <1>2, <1>3, TurnNow DEF Same, TurnOK
<1>5. QED
  BY <1>1, <1>4, QuietStep

LEMMA CompleteStep ==
    ASSUME ApprovalInv, NEW t \in Turns, Complete(t)
    PROVE  ApprovalInv'
<1>1. PICK calls \in Replies : turns' = [turns EXCEPT ![t].steps = @ + 1, ![t].todo = calls]
  BY DEF Complete
<1> DEFINE steps == turns[t].steps + 1
           row == [turns[t] EXCEPT !.steps = steps, !.todo = calls]
<1>2. turns' = [turns EXCEPT ![t] = row] /\ approvals' = approvals /\ grants' = grants
      /\ turns[t].pc = "run"
  BY <1>1, TurnNow DEF Complete, At
<1> HIDE DEF steps
<1>3. Same(row, turns[t]) /\ row.pc = "run" /\ row.approved = turns[t].approved
  BY <1>2, TurnNow DEF Same
<1> HIDE DEF row
<1>4. QED
  BY <1>2, <1>3, RunsOn

LEMMA RefuseArgumentsStep ==
    ASSUME ApprovalInv, NEW t \in Turns, RefuseArguments(t)
    PROVE  ApprovalInv'
<1> DEFINE todo == Tail(turns[t].todo)
           row == [turns[t] EXCEPT !.todo = todo]
<1>1. turns' = [turns EXCEPT ![t] = row] /\ approvals' = approvals /\ grants' = grants
      /\ turns[t].pc = "run"
  BY TurnNow DEF RefuseArguments, At
<1> HIDE DEF todo
<1>2. Same(row, turns[t]) /\ row.pc = "run" /\ row.approved = turns[t].approved
  BY <1>1, TurnNow DEF Same
<1> HIDE DEF row
<1>3. QED
  BY <1>1, <1>2, RunsOn

\* NextStep, after a call that ran or was refused.
LEMMA NextStepStep ==
    ASSUME ApprovalInv, approvals' = approvals, grants' = grants,
           NEW t \in Turns, turns[t].pc \in {"gate", "exec"}, NextStep(t)
    PROVE  ApprovalInv'
<1> DEFINE row == [turns[t] EXCEPT !.pc = "run", !.call = NoCall]
<1>1. turns' = [turns EXCEPT ![t] = row]
  BY TurnNow DEF NextStep
<1>2. Same(row, turns[t]) /\ row.pc = "run" /\ row.approved = turns[t].approved
  BY TurnNow DEF Same
<1> HIDE DEF row
<1>3. QED
  BY <1>1, <1>2, RunsOn

\* A call that needs an approval, or that the strict posture stops.
LEMMA PauseStep ==
    ASSUME ApprovalInv, approvals' = approvals, grants' = grants,
           NEW t \in Turns, NEW call, Pause(t, call),
           call.strict \/ DecisionOn(turns[t].session, call.command) = "require_approval"
    PROVE  ApprovalInv'
<1> DEFINE row == [turns[t] EXCEPT !.pc = "pause", !.call = call, !.todo = <<>>]
<1>1. turns' = [turns EXCEPT ![t] = row]
  BY TurnNow DEF Pause
<1>2. Same(row, turns[t]) /\ row.pc = "pause" /\ row.call = call
  BY TurnNow DEF Same
<1> HIDE DEF row
<1>3. TurnOK(approvals, row) /\ ~Resumes(row)
  BY <1>2, TurnNow DEF Same, TurnOK, StrictWaits, AfterApproval, Resumes
<1>4. QED
  BY <1>1, <1>3, QuietStep

\* A call that no strict posture stops goes to its tool.
LEMMA ToTheTool ==
    ASSUME ApprovalInv, approvals' = approvals, grants' = grants,
           NEW t \in Turns, turns[t].pc = "run", ~turns[t].every,
           NEW row, turns' = [turns EXCEPT ![t] = row],
           Same(row, turns[t]), row.pc = "gate", row.approved = turns[t].approved,
           row.call = Called(turns[t])
    PROVE  ApprovalInv'
<1>1. Resumes(row) => Resumes(turns[t]) /\ row.request = turns[t].request
  BY DEF Same, Resumes
<1>2. AfterApproval(approvals, row)
  BY TurnNow DEF Same, TurnOK, AfterApproval, ApprovedRow, DecidedRow
<1>3. StrictWaits(row)
  BY TurnNow DEF Same, TurnOK, StrictWaits
<1>4. ~row.call.strict
  BY DEF Called
<1>5. TurnOK(approvals, row)
  BY <1>2, <1>3, <1>4, TurnNow DEF Same, TurnOK
<1>6. QED
  BY <1>1, <1>5, QuietStep

LEMMA ServeCallStep ==
    ASSUME ApprovalInv, NEW t \in Turns, ServeCall(t)
    PROVE  ApprovalInv'
<1>1. approvals' = approvals /\ grants' = grants /\ turns[t].pc = "run"
  BY DEF ServeCall, At
<1>2. CASE turns[t].every
  <2>1. Pause(t, Called(turns[t])) /\ Called(turns[t]).strict
    BY <1>2 DEF ServeCall, Called
  <2>2. QED
    BY <1>1, <2>1, PauseStep
<1>3. CASE ~turns[t].every
  <2> DEFINE todo == Tail(turns[t].todo)
             call == Called(turns[t])
             row == [turns[t] EXCEPT !.todo = todo, !.call = call, !.pc = "gate"]
  <2>1. turns' = [turns EXCEPT ![t] = row]
    BY <1>3, TurnNow DEF ServeCall
  <2> HIDE DEF todo, call
  <2>2. Same(row, turns[t]) /\ row.pc = "gate" /\ row.approved = turns[t].approved /\ row.call = call
    BY TurnNow DEF Same
  <2> HIDE DEF row
  <2>3. QED
    BY <1>1, <1>3, <2>1, <2>2, ToTheTool DEF call
<1>4. QED
  BY <1>2, <1>3

LEMMA MockCallStep ==
    ASSUME ApprovalInv, NEW t \in Turns, MockCall(t)
    PROVE  ApprovalInv'
<1>1. approvals' = approvals /\ grants' = grants /\ turns[t].pc = "run"
  BY DEF MockCall, At
<1>2. CASE turns[t].every
  <2>1. Pause(t, Called(turns[t])) /\ Called(turns[t]).strict
    BY <1>2 DEF MockCall, Called
  <2>2. QED
    BY <1>1, <2>1, PauseStep
<1>3. CASE ~turns[t].every
  <2> DEFINE todo == Tail(turns[t].todo)
             call == Called(turns[t])
             steps == turns[t].steps + 1
             row == [turns[t] EXCEPT !.steps = steps, !.todo = todo, !.call = call, !.pc = "gate"]
  <2>1. turns' = [turns EXCEPT ![t] = row]
    BY <1>3, TurnNow DEF MockCall
  <2> HIDE DEF todo, call, steps
  <2>2. Same(row, turns[t]) /\ row.pc = "gate" /\ row.approved = turns[t].approved /\ row.call = call
    BY TurnNow DEF Same
  <2> HIDE DEF row
  <2>3. QED
    BY <1>1, <1>3, <2>1, <2>2, ToTheTool DEF call
<1>4. QED
  BY <1>2, <1>3

-----------------------------------------------------------------------------
(* The gate of `execute` *)

\* A call goes to the sandbox when something covers it.
LEMMA ToTheSandbox ==
    ASSUME ApprovalInv, approvals' = approvals, grants' = grants,
           NEW t \in Turns, turns[t].pc = "gate", Goto(t, "exec"),
           Authorised(approvals, turns[t])
    PROVE  ApprovalInv'
<1> DEFINE row == [turns[t] EXCEPT !.pc = "exec"]
<1>1. turns' = [turns EXCEPT ![t] = row]
  BY DEF Goto
<1>2. Same(row, turns[t]) /\ row.pc = "exec" /\ row.approved = turns[t].approved
      /\ row.call = turns[t].call
  BY TurnNow DEF Same
<1> HIDE DEF row
<1>3. Resumes(row) => Resumes(turns[t]) /\ row.request = turns[t].request
  BY <1>2 DEF Same, Resumes
<1>4. AfterApproval(approvals, row)
  BY <1>2, TurnNow DEF Same, TurnOK, AfterApproval, ApprovedRow, DecidedRow
<1>5. StrictWaits(row)
  BY <1>2, TurnNow DEF Same, TurnOK, StrictWaits
<1>6. Authorised(approvals, row)
  BY <1>2 DEF Same, Authorised, Covers
<1>7. TurnOK(approvals, row)
  BY <1>2, <1>4, <1>5, <1>6 DEF Same, TurnOK
<1>8. QED
  BY <1>1, <1>3, <1>7, QuietStep

\* The command a human just approved: the row of the request covers it.
LEMMA ApprovedCovers ==
    ASSUME ApprovalInv, NEW t \in Turns, turns[t].pc = "gate",
           turns[t].call.command \in Commands, Approved(turns[t])
    PROVE  Authorised(approvals, turns[t])
<1> DEFINE x == turns[t]
<1>1. x.approved # NoCall
  BY TurnsAssumption DEF Approved, NoCall
<1>2. ApprovedRow(approvals, x) /\ x.call = approvals[x.request].call /\ ~x.call.strict
  BY <1>1, TurnNow DEF TurnOK, AfterApproval, Approved
<1>3. RowOK(approvals[x.request])
  BY <1>2 DEF ApprovedRow, DecidedRow, ApprovalInv, RowsOK
<1>4. DecisionOn(x.session, x.call.command) = "require_approval"
  BY <1>2, <1>3 DEF RowOK, ApprovedRow, DecidedRow
<1>5. Covers(approvals[x.request], x) /\ x.request \in DOMAIN approvals
  BY <1>2 DEF Covers, ApprovedRow, DecidedRow
<1>6. QED
  BY <1>4, <1>5 DEF Authorised

\* A standing grant of the actor: the row it comes from covers the command.
LEMMA GrantCovers ==
    ASSUME ApprovalInv, NEW x,
           DecisionOn(x.session, x.call.command) = "require_approval",
           Granted(x.actor, KeyOf(x.session, x.call.command), x.session)
    PROVE  Authorised(approvals, x)
<1> DEFINE key == KeyOf(x.session, x.call.command)
<1> HIDE DEF key
<1>1. PICK g \in grants :
          /\ g.actor = x.actor /\ g.key = key
          /\ g.scope = "always" \/ (g.scope = "session" /\ g.session = x.session)
  BY DEF Granted, key
<1>2. PICK r \in DOMAIN approvals :
          /\ approvals[r].state = "approved"
          /\ approvals[r].by = g.actor /\ approvals[r].key = g.key /\ approvals[r].scope = g.scope
          /\ g.scope = "session" => approvals[r].session = g.session
  BY DEF ApprovalInv, GrantOK
<1>3. Covers(approvals[r], x)
  BY <1>1, <1>2 DEF Covers, key, KeyOf
<1>4. QED
  BY <1>2, <1>3 DEF Authorised

LEMMA GateStep ==
    ASSUME ApprovalInv, NEW t \in Turns, Gate(t)
    PROVE  ApprovalInv'
<1> DEFINE x == turns[t]
           decision == DecisionOn(x.session, x.call.command)
           granted == Granted(x.actor, KeyOf(x.session, x.call.command), x.session)
<1>1. approvals' = approvals /\ grants' = grants /\ x.pc = "gate" /\ x.call.command \in Commands
  BY DEF Gate, At
<1>2. \/ Approved(x) /\ Goto(t, "exec")
      \/ decision = "deny" /\ NextStep(t)
      \/ decision = "require_approval" /\ Pause(t, x.call)
      \/ decision = "allow" /\ Goto(t, "exec")
      \/ decision = "require_approval" /\ granted /\ Goto(t, "exec")
  BY DEF Gate, DecisionOn, KeyOf
<1>3. CASE Approved(x) /\ Goto(t, "exec")
  BY <1>1, <1>3, ApprovedCovers, ToTheSandbox
<1>4. CASE NextStep(t)
  BY <1>1, <1>4, NextStepStep
<1>5. CASE decision = "require_approval" /\ Pause(t, x.call)
  BY <1>1, <1>5, PauseStep
<1>6. CASE decision = "allow" /\ Goto(t, "exec")
  <2>1. Authorised(approvals, x)
    BY <1>6 DEF Authorised
  <2>2. QED
    BY <1>1, <1>6, <2>1, ToTheSandbox
<1>7. CASE decision = "require_approval" /\ granted /\ Goto(t, "exec")
  <2>1. Authorised(approvals, x)
    BY <1>7, GrantCovers
  <2>2. QED
    BY <1>1, <1>7, <2>1, ToTheSandbox
<1>8. QED
  BY <1>2, <1>3, <1>4, <1>5, <1>6, <1>7

LEMMA OtherToolStep ==
    ASSUME ApprovalInv, NEW t \in Turns, OtherTool(t)
    PROVE  ApprovalInv'
<1>1. approvals' = approvals /\ grants' = grants /\ turns[t].pc = "gate"
  BY DEF OtherTool, At
<1>2. NextStep(t) \/ End(t)
  BY DEF OtherTool
<1>3. QED
  BY <1>1, <1>2, NextStepStep, EndStep

LEMMA ExecuteStep ==
    ASSUME ApprovalInv, NEW t \in Turns, Execute(t)
    PROVE  ApprovalInv'
<1>1. approvals' = approvals /\ grants' = grants /\ turns[t].pc = "exec" /\ NextStep(t)
  BY DEF Execute, At
<1>2. QED
  BY <1>1, NextStepStep

LEMMA FinishStep ==
    ASSUME ApprovalInv, NEW t \in Turns, Finish(t)
    PROVE  ApprovalInv'
<1>1. approvals' = approvals /\ grants' = grants /\ End(t)
  BY DEF Finish
<1>2. QED
  BY <1>1, EndStep

-----------------------------------------------------------------------------
(* Pauses and decisions *)

LEMMA CreateRowStep ==
    ASSUME ApprovalInv, NEW t \in Turns, CreateRow(t)
    PROVE  ApprovalInv'
<1> DEFINE x == turns[t]
           request == Len(approvals) + 1
           row == [x EXCEPT !.pc = "announce", !.request = request]
           open == Open(t)
<1>1. turns' = [turns EXCEPT ![t] = row] /\ grants' = grants /\ x.pc = "pause" /\ x.request = 0
      /\ approvals' = Append(approvals, open)
  BY TurnNow DEF CreateRow, At
<1>2. RowOK(open)
  <2>1. DOMAIN open = RowFields /\ open.session = x.session /\ open.call = x.call
    BY DEF Open, RowFields
  <2>2. ~x.call.strict => open.key = KeyOf(x.session, x.call.command)
    BY DEF Open, KeyOf
  <2>3. ~x.call.strict => DecisionOn(x.session, x.call.command) = "require_approval"
    BY <1>1, TurnNow DEF TurnOK
  <2> HIDE DEF open
  <2>4. QED
    BY <2>1, <2>2, <2>3 DEF RowOK
<1> HIDE DEF open
<1>3. PICK Rows : approvals \in Seq(Rows)
  BY DEF ApprovalInv, RowsOK
<1>4. approvals' \in Seq(Rows \cup {open}) /\ DOMAIN approvals \subseteq DOMAIN approvals'
      /\ DOMAIN approvals' = DOMAIN approvals \cup {request}
      /\ (\A r \in DOMAIN approvals : approvals'[r] = approvals[r])
      /\ approvals'[request] = open
  <2>1. approvals \in Seq(Rows \cup {open})
    BY <1>3
  <2>2. QED
    BY <1>1, <2>1
<1>5. Grows(approvals, approvals')
  BY <1>4 DEF Grows
<1>6. RowsOK'
  BY <1>2, <1>4 DEF ApprovalInv, RowsOK, RowOK
<1> HIDE DEF request
<1>7. DOMAIN row = Fields /\ row.pc = "announce"
  BY TurnNow
<1> HIDE DEF row
<1>8. TurnOK(approvals', row) /\ ~Resumes(row)
  BY <1>7 DEF TurnOK, StrictWaits, AfterApproval, Resumes
<1>9. TurnsOK'
  BY <1>1, <1>5, <1>8, OneTurnMoves
<1>10. \A g \in grants' : GrantOK(approvals', g)
  BY <1>1, <1>5, GrantStaysOK DEF ApprovalInv
<1>11. QED
  BY <1>6, <1>9, <1>10 DEF ApprovalInv, GrantOK

LEMMA AnnounceStep ==
    ASSUME ApprovalInv, NEW t \in Turns, Announce(t)
    PROVE  ApprovalInv'
<1>1. approvals' = approvals /\ grants' = grants /\ End(t)
  BY DEF Announce
<1>2. QED
  BY <1>1, EndStep

LEMMA DropPauseStep ==
    ASSUME ApprovalInv, NEW t \in Turns, DropPause(t)
    PROVE  ApprovalInv'
<1>1. approvals' = approvals /\ grants' = grants /\ End(t)
  BY DEF DropPause
<1>2. QED
  BY <1>1, EndStep

LEMMA DecideStep ==
    ASSUME ApprovalInv, NEW t \in Turns, NEW s \in Sessions, NEW actor,
           NEW r \in Request, NEW decision, Decide(t, s, actor, r, decision)
    PROVE  ApprovalInv'
<1> DEFINE row == [TurnRequest(s, actor, NoText) EXCEPT
                      !.pc = "resolve", !.request = r, !.decision = decision]
<1>1. turns' = [turns EXCEPT ![t] = row] /\ approvals' = approvals /\ grants' = grants
      /\ approvals[r].session = s
  BY DEF Decide
<1>2. DOMAIN row = Fields /\ row.pc = "resolve" /\ row.request = r /\ row.session = s
  BY DEF TurnRequest, Fields, NoTurn
<1> HIDE DEF row
<1>3. r \in DOMAIN approvals
  BY DEF Request, ApprovalInv, RowsOK
<1>4. TurnOK(approvals, row) /\ ~Resumes(row)
  BY <1>1, <1>2, <1>3 DEF TurnOK, StrictWaits, AfterApproval, Resumes
<1>5. QED
  BY <1>1, <1>4, QuietStep

\* The conditional UPDATE: the row was open, so no other turn goes on from it.
LEMMA ResolveStep ==
    ASSUME ApprovalInv, NEW t \in Turns, Resolve(t)
    PROVE  ApprovalInv'
<1> DEFINE x == turns[t]
           r == x.request
           resolved == Resolution(x)
           row == [x EXCEPT !.pc = "note"]
<1>1. grants' = grants /\ x.pc = "resolve"
  BY DEF Resolve, At
<1>2. CASE approvals[r].state # "open"
  <2>1. End(t) /\ approvals' = approvals
    BY <1>2 DEF Resolve
  <2>2. QED
    BY <1>1, <2>1, EndStep
<1>3. CASE approvals[r].state = "open"
  <2>1. approvals' = [approvals EXCEPT ![r] = resolved] /\ turns' = [turns EXCEPT ![t] = row]
    BY <1>3 DEF Resolve, Goto
  <2>2. r \in DOMAIN approvals /\ approvals[r].session = x.session /\ RowOK(approvals[r])
    BY <1>1, TurnNow DEF TurnOK, ApprovalInv, RowsOK
  <2>3. /\ DOMAIN resolved = RowFields
        /\ resolved.session = x.session /\ resolved.call = approvals[r].call
        /\ resolved.key = approvals[r].key /\ resolved.by = x.actor /\ resolved.scope = x.decision
        /\ resolved.state = IF x.decision = "decline" THEN "declined" ELSE "approved"
    BY <2>2 DEF Resolution, RowOK, RowFields
  <2>4. Same(row, x) /\ row.pc = "note"
    BY TurnNow DEF Same
  <2> HIDE DEF resolved, row
  <2>5. RowOK(resolved)
    BY <2>2, <2>3 DEF RowOK
  <2>6. DOMAIN approvals' = DOMAIN approvals /\ approvals'[r] = resolved
        /\ \A q \in DOMAIN approvals \ {r} : approvals'[q] = approvals[q]
    BY <2>1, <2>2
  <2>7. RowsOK'
    <3>1. PICK Rows : approvals \in Seq(Rows)
      BY DEF ApprovalInv, RowsOK
    <3>2. approvals' \in Seq(Rows \cup {resolved})
      <4>1. approvals \in Seq(Rows \cup {resolved})
        BY <3>1
      <4>2. QED
        BY <2>1, <2>2, <4>1
    <3>3. \A q \in DOMAIN approvals' : RowOK(approvals'[q])
      BY <2>5, <2>6 DEF ApprovalInv, RowsOK
    <3>4. QED
      BY <3>2, <3>3 DEF RowsOK, RowOK
  <2>8. Grows(approvals, approvals')
    BY <1>3, <2>2, <2>3, <2>6 DEF Grows
  <2>9. TurnOK(approvals', row)
    BY <2>2, <2>3, <2>4, <2>6 DEF Same, TurnOK, StrictWaits, AfterApproval, DecidedRow
  <2>10. \A u \in Turns \ {t} : Resumes(turns[u]) => turns[u].request # row.request
    <3>1. ASSUME NEW u \in Turns, Resumes(turns[u]) PROVE DecidedRow(approvals, turns[u])
      BY <3>1, TurnNow DEF TurnOK, Resumes, AfterApproval, ApprovedRow
    <3>2. QED
      BY <1>3, <2>4, <3>1 DEF DecidedRow, Same
  <2>11. TurnsOK'
    BY <2>1, <2>8, <2>9, <2>10, OneTurnMoves
  <2>12. \A g \in grants' : GrantOK(approvals', g)
    BY <1>1, <2>8, GrantStaysOK DEF ApprovalInv
  <2>13. QED
    BY <2>7, <2>11, <2>12 DEF ApprovalInv, GrantOK
<1>4. QED
  BY <1>2, <1>3

\* A turn that goes on from its approval.
LEMMA GoesOn ==
    ASSUME ApprovalInv, NEW t \in Turns, Resumes(turns[t]), ApprovedRow(approvals, turns[t]),
           NEW pc \in {"grant", "recall"}, NEW row, row = [turns[t] EXCEPT !.pc = pc]
    PROVE  TurnOK(approvals, row) /\ (Resumes(row) => row.request = turns[t].request)
<1>1. Same(row, turns[t]) /\ row.pc = pc
  BY TurnNow DEF Same
<1>2. QED
  BY <1>1 DEF Same, TurnOK, StrictWaits, AfterApproval, ApprovedRow, DecidedRow, Resumes

LEMMA NoteStep ==
    ASSUME ApprovalInv, NEW t \in Turns, Note(t)
    PROVE  ApprovalInv'
<1>1. approvals' = approvals /\ grants' = grants /\ turns[t].pc = "note"
  BY DEF Note, At
<1>2. DecidedRow(approvals, turns[t])
  BY <1>1, TurnNow DEF TurnOK
<1>3. CASE turns[t].decision = "decline"
  <2>1. End(t)
    BY <1>3 DEF Note
  <2>2. QED
    BY <1>1, <2>1, EndStep
<1>4. ASSUME turns[t].decision # "decline", NEW pc \in {"grant", "recall"}, Goto(t, pc)
      PROVE  ApprovalInv'
  <2> DEFINE row == [turns[t] EXCEPT !.pc = pc]
  <2>1. turns' = [turns EXCEPT ![t] = row]
    BY <1>4 DEF Goto
  <2>2. ApprovedRow(approvals, turns[t]) /\ Resumes(turns[t])
    BY <1>1, <1>2, <1>4, TurnNow DEF ApprovedRow, Resumes, DecidedRow, ApprovalInv, RowsOK
  <2> HIDE DEF row
  <2>3. TurnOK(approvals, row) /\ (Resumes(row) => row.request = turns[t].request)
    BY <1>4, <2>2, GoesOn DEF row
  <2>4. QED
    BY <1>1, <2>1, <2>2, <2>3, QuietStep
<1>5. CASE turns[t].decision # "decline"
  BY <1>4, <1>5 DEF Note
<1>6. QED
  BY <1>3, <1>5

LEMMA GrantStep ==
    ASSUME ApprovalInv, NEW t \in Turns, Grant(t)
    PROVE  ApprovalInv'
<1> DEFINE x == turns[t]
           grant == [actor |-> x.actor, key |-> approvals[x.request].key, scope |-> x.decision,
                     session |-> IF x.decision = "session" THEN x.session ELSE ""]
           row == [x EXCEPT !.pc = "recall"]
<1>1. approvals' = approvals /\ grants' = grants \cup {grant}
      /\ turns' = [turns EXCEPT ![t] = row]
  BY DEF Grant, Goto
<1> HIDE DEF grant, row
<1>2. x.pc = "grant"
  BY DEF Grant, At
<1>3. ApprovedRow(approvals, x) /\ Resumes(x)
  BY <1>2, TurnNow DEF TurnOK, ApprovedRow, Resumes, DecidedRow, ApprovalInv, RowsOK
<1>4. GrantOK(approvals, grant)
  BY <1>3 DEF GrantOK, ApprovedRow, DecidedRow, grant
<1>5. TurnOK(approvals, row) /\ (Resumes(row) => row.request = x.request)
  BY <1>3, GoesOn DEF row
<1>6. TurnsOK'
  BY <1>1, <1>3, <1>5, GrowsNot, OneTurnMoves
<1>7. RowsOK'
  BY <1>1 DEF ApprovalInv, RowsOK, RowOK
<1>8. \A g \in grants' : GrantOK(approvals, g)
  BY <1>1, <1>4 DEF ApprovalInv
<1>9. QED
  BY <1>1, <1>6, <1>7, <1>8 DEF ApprovalInv, GrantOK

LEMMA RecallStep ==
    ASSUME ApprovalInv, NEW t \in Turns, Recall(t)
    PROVE  ApprovalInv'
<1> DEFINE x == turns[t]
           original == LastQuestion(transcript[x.session])
           todo == Script(original)
           approved == approvals[x.request].call
           row == [x EXCEPT !.pc = "run", !.approved = approved, !.text = original, !.todo = todo]
<1>1. approvals' = approvals /\ grants' = grants /\ turns' = [turns EXCEPT ![t] = row]
  BY DEF Recall
<1> HIDE DEF original, todo, approved, row
<1>2. x.pc = "recall"
  BY DEF Recall, At
<1>3. ApprovedRow(approvals, x) /\ Resumes(x)
  BY <1>2, TurnNow DEF TurnOK, ApprovedRow, Resumes, DecidedRow, ApprovalInv, RowsOK
<1>4. Same(row, x) /\ row.pc = "run" /\ row.approved = approved
  BY TurnNow DEF Same, row
<1>5. AfterApproval(approvals, row) /\ row.request # 0
  BY <1>3, <1>4 DEF Same, AfterApproval, ApprovedRow, DecidedRow, Resumes, approved
<1>6. TurnOK(approvals, row)
  BY <1>4, <1>5 DEF Same, TurnOK, StrictWaits
<1>7. QED
  BY <1>1, <1>3, <1>4, <1>6, QuietStep DEF Same

LEMMA FailStep ==
    ASSUME ApprovalInv, NEW t \in Turns, Fail(t)
    PROVE  ApprovalInv'
<1>1. approvals' = approvals /\ grants' = grants /\ End(t)
  BY DEF Fail
<1>2. QED
  BY <1>1, EndStep

-----------------------------------------------------------------------------
(* The invariant *)

LEMMA InitApproval == Init => ApprovalInv
<1> SUFFICES ASSUME Init PROVE ApprovalInv
  OBVIOUS
<1>1. RowsOK
  <2>1. approvals \in Seq({}) /\ DOMAIN approvals = {}
    BY DEF Init
  <2>2. QED
    BY <2>1 DEF RowsOK
<1>2. TurnsOK
  BY NoTurnOK DEF Init, TurnsOK
<1>3. QED
  BY <1>1, <1>2 DEF Init, ApprovalInv

LEMMA BeginStep ==
    ASSUME ApprovalInv, NEW t \in Turns, Begin(t)
    PROVE  ApprovalInv'
<1>1. PICK s \in Sessions :
          \/ \E actor \in Actors : SendMessage(t, s, actor) \/ ResolveApproval(t, s, actor)
          \/ \E user \in Actors \cup Admins : ApiTurn(t, s, user)
  BY DEF Begin
<1>2. PICK actor \in Actors :
          \/ \E text \in Texts \ {NoText} : Ask(t, s, actor, text)
          \/ \E r \in Request, decision \in Resolutions : Decide(t, s, actor, r, decision)
  BY <1>1 DEF SendMessage, ResolveApproval, ApiTurn
<1>3. QED
  BY <1>2, AskStep, DecideStep

LEMMA NextApproval == ApprovalInv /\ [Next]_vars => ApprovalInv'
<1> SUFFICES ASSUME ApprovalInv, [Next]_vars PROVE ApprovalInv'
  OBVIOUS
<1>1. CASE UNCHANGED vars
  BY <1>1 DEF vars, ApprovalInv, RowsOK, RowOK, TurnsOK, GrantOK
<1>2. CASE Next
  <2>1. PICK t \in Turns : Begin(t) \/ Continue(t) \/ Fail(t)
    BY <1>2 DEF Next
  <2>2. CASE Begin(t)
    BY <2>2, BeginStep
  <2>3. CASE Continue(t)
    BY <2>3, ScreenStep, RecordQuestionStep, CompleteStep, ServeCallStep, RefuseArgumentsStep,
       MockCallStep, GateStep, OtherToolStep, ExecuteStep, FinishStep, CreateRowStep,
       AnnounceStep, DropPauseStep, ResolveStep, NoteStep, GrantStep, RecallStep
       DEF Continue
  <2>4. CASE Fail(t)
    BY <2>4, FailStep
  <2>5. QED
    BY <2>1, <2>2, <2>3, <2>4
<1>3. QED
  BY <1>1, <1>2

LEMMA ApprovalInvariant == Spec => []ApprovalInv
<1>1. QED
  BY InitApproval, NextApproval, PTL DEF Spec

-----------------------------------------------------------------------------
(* What it gives *)

\* Whatever turns, decisions, grants and failures interleave, a command that
\* the policy wants approved runs only under an approval of the person the turn
\* runs for, and a denied one never does: `execute` never relies on the model.
THEOREM Authorises == Spec => []RunsAreAuthorised
<1>1. ApprovalInv => RunsAreAuthorised
  <2> SUFFICES ASSUME ApprovalInv, NEW t \in Turns, At(t, "exec")
               PROVE  Authorised(approvals, turns[t]) /\ DOMAIN approvals = Request
    BY DEF RunsAreAuthorised, Authorised, DecisionOn
  <2>1. Authorised(approvals, turns[t])
    BY TurnNow DEF TurnOK, At
  <2>2. DOMAIN approvals = Request
    BY DEF ApprovalInv, RowsOK, Request
  <2>3. QED
    BY <2>1, <2>2
<1>2. QED
  BY <1>1, ApprovalInvariant, PTL

\* A double-click cannot approve twice: the conditional UPDATE lets one turn
\* through, and no other turn ever goes on from the same request.
THEOREM ResumesOnce == Spec => []OneResumption
<1>1. ApprovalInv => OneResumption
  BY DEF ApprovalInv, TurnsOK, OneResumption, Decided, Resumes
<1>2. QED
  BY <1>1, ApprovalInvariant, PTL

\* Where the posture is strict, a command runs only in a turn that goes on from
\* an approval given in its own session.
THEOREM StrictWaitsForAHuman == Spec => []StrictNeedsAHuman
<1>1. ApprovalInv => StrictNeedsAHuman
  <2> SUFFICES ASSUME ApprovalInv, NEW t \in Turns, At(t, "exec"),
                      Posture[turns[t].session] = "strict"
               PROVE  /\ turns[t].request # 0
                      /\ approvals[turns[t].request].state = "approved"
                      /\ approvals[turns[t].request].session = turns[t].session
    BY DEF StrictNeedsAHuman
  <2>1. turns[t].request # 0
    BY TurnNow DEF TurnOK, StrictWaits, At
  <2>2. ApprovedRow(approvals, turns[t])
    BY <2>1, TurnNow DEF TurnOK, AfterApproval, At
  <2>3. QED
    BY <2>1, <2>2 DEF ApprovedRow, DecidedRow
<1>2. QED
  BY <1>1, ApprovalInvariant, PTL

-----------------------------------------------------------------------------
(* The transcript.  Only the steps below touch it, or the two states in which *)
(* a turn is about to write of an approval.                                  *)

Writes(t) == RecordQuestion(t) \/ CreateRow(t) \/ Announce(t) \/ Resolve(t) \/ Note(t)
AboutToWrite == {"note", "announce"}

Resolved(entries, r) ==
    {i \in DOMAIN entries : entries[i].kind = "resolved" /\ entries[i].request = r}

EntryOK(rows, s, entry) ==
    /\ entry.kind \in {"request", "resolved"} =>
          entry.request \in DOMAIN rows /\ rows[entry.request].session = s
    /\ entry.kind = "resolved" => rows[entry.request].state # "open"

TranscriptInv ==
    /\ DOMAIN transcript = Sessions
    /\ \A s \in Sessions :
          /\ \E Entries : transcript[s] \in Seq(Entries)
          /\ \A i \in DOMAIN transcript[s] : EntryOK(approvals, s, transcript[s][i])
          /\ \A r : \A i, j \in Resolved(transcript[s], r) : i = j
    /\ \A t \in Turns : turns[t].pc = "announce" =>
          /\ turns[t].request \in DOMAIN approvals
          /\ approvals[turns[t].request].session = turns[t].session
    /\ \A t \in Turns : turns[t].pc = "note" /\ turns[t].session \in Sessions =>
          Resolved(transcript[turns[t].session], turns[t].request) = {}

\* Every other step leaves the transcript and the rows alone, and brings no turn
\* to a state in which it is about to write.
KeepsSilent == \A u \in Turns : turns'[u].pc \in AboutToWrite => turns'[u] = turns[u]

LEMMA OthersDoNotWrite ==
    ASSUME ApprovalInv, NEW t \in Turns, Begin(t) \/ Continue(t) \/ Fail(t), ~Writes(t)
    PROVE  transcript' = transcript /\ approvals' = approvals /\ KeepsSilent
<1>1. ASSUME NEW row, turns' = [turns EXCEPT ![t] = row], row.pc \notin AboutToWrite
      PROVE  KeepsSilent
  BY <1>1, TurnNow DEF KeepsSilent
<1>2. ASSUME NEW pc, pc \notin AboutToWrite, Goto(t, pc) PROVE KeepsSilent
  BY <1>2, TurnNow DEF Goto, KeepsSilent
<1>3. ASSUME End(t) PROVE KeepsSilent
  BY <1>1, <1>3, NoTurnOK DEF End, AboutToWrite
<1>4. ASSUME NextStep(t) PROVE KeepsSilent
  BY <1>4, TurnNow DEF NextStep, AboutToWrite, KeepsSilent
<1>5. ASSUME NEW call, Pause(t, call) PROVE KeepsSilent
  BY <1>5, TurnNow DEF Pause, AboutToWrite, KeepsSilent
<1>6. CASE Begin(t)
  <2>1. ASSUME NEW s \in Sessions, NEW actor, NEW text, Ask(t, s, actor, text)
        PROVE  transcript' = transcript /\ approvals' = approvals /\ KeepsSilent
    <3> DEFINE pc == IF SecurityPolicy(Posture[s]).screensInput THEN "screen" ELSE "record"
               every == SecurityPolicy(Posture[s]).asksForEveryTool
               row == [TurnRequest(s, actor, text) EXCEPT !.pc = pc, !.every = every]
    <3>1. turns' = [turns EXCEPT ![t] = row] /\ transcript' = transcript /\ approvals' = approvals
      BY <2>1 DEF Ask
    <3>2. row.pc = pc /\ pc \notin AboutToWrite
      BY DEF TurnRequest, NoTurn, AboutToWrite
    <3> HIDE DEF row
    <3>3. QED
      BY <1>1, <3>1, <3>2
  <2>2. ASSUME NEW s \in Sessions, NEW actor, NEW r \in Request, NEW decision,
               Decide(t, s, actor, r, decision)
        PROVE  transcript' = transcript /\ approvals' = approvals /\ KeepsSilent
    <3> DEFINE row == [TurnRequest(s, actor, NoText) EXCEPT
                          !.pc = "resolve", !.request = r, !.decision = decision]
    <3>1. turns' = [turns EXCEPT ![t] = row] /\ transcript' = transcript /\ approvals' = approvals
      BY <2>2 DEF Decide
    <3>2. row.pc \notin AboutToWrite
      BY DEF TurnRequest, NoTurn, AboutToWrite
    <3> HIDE DEF row
    <3>3. QED
      BY <1>1, <3>1, <3>2
  <2>3. QED
    BY <1>6, <2>1, <2>2 DEF Begin, SendMessage, ResolveApproval, ApiTurn
<1>7. CASE Screen(t)
  BY <1>2, <1>3, <1>7 DEF Screen, AboutToWrite
<1>8. CASE Complete(t)
  <2>1. transcript' = transcript /\ approvals' = approvals /\ turns[t].pc = "run"
    BY <1>8 DEF Complete, At
  <2>2. KeepsSilent
    BY <1>8, <2>1, TurnNow DEF Complete, KeepsSilent, AboutToWrite
  <2>3. QED
    BY <2>1, <2>2
<1>9. CASE ServeCall(t)
  <2>1. transcript' = transcript /\ approvals' = approvals
    BY <1>9 DEF ServeCall
  <2>2. turns[t].every => KeepsSilent
    BY <1>5, <1>9 DEF ServeCall
  <2>3. ~turns[t].every => KeepsSilent
    BY <1>9, TurnNow DEF ServeCall, KeepsSilent, AboutToWrite
  <2>4. QED
    BY <2>1, <2>2, <2>3
<1>10. CASE RefuseArguments(t)
  <2>1. transcript' = transcript /\ approvals' = approvals /\ turns[t].pc = "run"
    BY <1>10 DEF RefuseArguments, At
  <2>2. KeepsSilent
    BY <1>10, <2>1, TurnNow DEF RefuseArguments, KeepsSilent, AboutToWrite
  <2>3. QED
    BY <2>1, <2>2
<1>11. CASE MockCall(t)
  <2>1. transcript' = transcript /\ approvals' = approvals
    BY <1>11 DEF MockCall
  <2>2. turns[t].every => KeepsSilent
    BY <1>5, <1>11 DEF MockCall
  <2>3. ~turns[t].every => KeepsSilent
    BY <1>11, TurnNow DEF MockCall, KeepsSilent, AboutToWrite
  <2>4. QED
    BY <2>1, <2>2, <2>3
<1>12. CASE Gate(t)
  <2>1. transcript' = transcript /\ approvals' = approvals
    BY <1>12 DEF Gate
  <2>2. Goto(t, "exec") \/ NextStep(t) \/ Pause(t, turns[t].call)
    BY <1>12 DEF Gate
  <2>3. QED
    BY <1>2, <1>4, <1>5, <2>1, <2>2 DEF AboutToWrite
<1>13. CASE OtherTool(t)
  BY <1>3, <1>4, <1>13 DEF OtherTool
<1>14. CASE Execute(t)
  BY <1>4, <1>14 DEF Execute
<1>15. CASE Finish(t) \/ DropPause(t) \/ Fail(t)
  BY <1>3, <1>15 DEF Finish, DropPause, Fail
<1>16. CASE Grant(t)
  BY <1>2, <1>16 DEF Grant, AboutToWrite
<1>17. CASE Recall(t)
  <2> DEFINE original == LastQuestion(transcript[turns[t].session])
             todo == Script(original)
             approved == approvals[turns[t].request].call
             row == [turns[t] EXCEPT !.pc = "run", !.approved = approved, !.text = original,
                                     !.todo = todo]
  <2>1. turns' = [turns EXCEPT ![t] = row] /\ transcript' = transcript /\ approvals' = approvals
    BY <1>17 DEF Recall
  <2> HIDE DEF original, todo, approved
  <2>2. row.pc \notin AboutToWrite
    BY TurnNow DEF AboutToWrite
  <2> HIDE DEF row
  <2>3. QED
    BY <1>1, <2>1, <2>2
<1>18. QED
  BY <1>6, <1>7, <1>8, <1>9, <1>10, <1>11, <1>12, <1>13, <1>14, <1>15, <1>16, <1>17
     DEF Continue, Writes

LEMMA EntryStaysOK ==
    ASSUME NEW rows, NEW later, Grows(rows, later), NEW s, NEW entry, EntryOK(rows, s, entry)
    PROVE  EntryOK(later, s, entry)
BY DEF Grows, EntryOK

\* A step that writes no entry, and after which the turns that are about to
\* write one are right about it.
LEMMA NothingWritten ==
    ASSUME TranscriptInv, transcript' = transcript, Grows(approvals, approvals'),
           \A u \in Turns : turns'[u].pc = "announce" =>
              /\ turns'[u].request \in DOMAIN approvals'
              /\ approvals'[turns'[u].request].session = turns'[u].session,
           \A u \in Turns : turns'[u].pc = "note" /\ turns'[u].session \in Sessions =>
              Resolved(transcript[turns'[u].session], turns'[u].request) = {}
    PROVE  TranscriptInv'
<1>1. \A s \in Sessions : \A i \in DOMAIN transcript[s] : EntryOK(approvals', s, transcript[s][i])
  BY EntryStaysOK DEF TranscriptInv
<1>2. QED
  BY <1>1 DEF TranscriptInv, Resolved, EntryOK

LEMMA OtherStep ==
    ASSUME TranscriptInv, transcript' = transcript, approvals' = approvals, KeepsSilent
    PROVE  TranscriptInv'
BY GrowsNot, NothingWritten DEF TranscriptInv, KeepsSilent, AboutToWrite

\* A turn that writes an entry and is done with it.
LEMMA OneWritten ==
    ASSUME TranscriptInv, approvals' = approvals, KeepsSilent,
           NEW t \in Turns, turns'[t].pc # "note",
           NEW s, NEW entry, Write(s, entry), EntryOK(approvals, s, entry),
           entry.kind = "resolved" =>
              /\ s \in Sessions => Resolved(transcript[s], entry.request) = {}
              /\ \A u \in Turns \ {t} : turns[u].pc = "note" => turns[u].request # entry.request
    PROVE  TranscriptInv'
<1>1. DOMAIN transcript' = Sessions
      /\ \A q \in Sessions : transcript'[q] = IF q = s THEN Append(transcript[s], entry) ELSE transcript[q]
  BY DEF Write, TranscriptInv
<1>2. ASSUME NEW q \in Sessions
      PROVE  /\ \E Entries : transcript'[q] \in Seq(Entries)
             /\ \A i \in DOMAIN transcript'[q] :
                   \/ i \in DOMAIN transcript[q] /\ transcript'[q][i] = transcript[q][i]
                   \/ q = s /\ i = Len(transcript[q]) + 1 /\ transcript'[q][i] = entry
  <2>1. PICK Entries : transcript[q] \in Seq(Entries)
    BY DEF TranscriptInv
  <2>2. CASE q = s
    <3>1. transcript[q] \in Seq(Entries \cup {entry}) /\ entry \in Entries \cup {entry}
      BY <2>1
    <3>2. transcript'[q] = Append(transcript[q], entry)
      BY <1>1, <2>2
    <3>3. transcript'[q] \in Seq(Entries \cup {entry})
      BY <3>1, <3>2
    <3>4. QED
      BY <2>2, <3>1, <3>2, <3>3
  <2>3. CASE q # s
    BY <1>1, <2>1, <2>3
  <2>4. QED
    BY <2>2, <2>3
<1>3. \A q \in Sessions : \A i \in DOMAIN transcript'[q] : EntryOK(approvals', q, transcript'[q][i])
  BY <1>2 DEF TranscriptInv
<1>4. \A q \in Sessions : \A r : \A i, j \in Resolved(transcript'[q], r) : i = j
  BY <1>2 DEF TranscriptInv, Resolved
<1>5. \A u \in Turns : turns'[u].pc = "note" /\ turns'[u].session \in Sessions =>
          Resolved(transcript'[turns'[u].session], turns'[u].request) = {}
  <2> SUFFICES ASSUME NEW u \in Turns, turns'[u].pc = "note", turns'[u].session \in Sessions,
                      NEW i \in Resolved(transcript'[turns'[u].session], turns'[u].request)
               PROVE  FALSE
    OBVIOUS
  <2> DEFINE q == turns[u].session
  <2>1. turns'[u] = turns[u] /\ u # t /\ q \in Sessions
    BY DEF KeepsSilent, AboutToWrite
  <2>2. i \in DOMAIN transcript'[q] /\ transcript'[q][i].kind = "resolved"
        /\ transcript'[q][i].request = turns[u].request
    BY <2>1 DEF Resolved
  <2>3. Resolved(transcript[q], turns[u].request) = {} /\ turns[u].pc = "note"
    BY <2>1 DEF TranscriptInv
  <2>4. CASE i \in DOMAIN transcript[q] /\ transcript'[q][i] = transcript[q][i]
    BY <2>2, <2>3, <2>4 DEF Resolved
  <2>5. CASE transcript'[q][i] = entry
    BY <2>1, <2>2, <2>3, <2>5
  <2>6. QED
    BY <1>2, <2>1, <2>2, <2>4, <2>5
<1>6. QED
  BY <1>1, <1>2, <1>3, <1>4, <1>5 DEF TranscriptInv, KeepsSilent, AboutToWrite

LEMMA RecordQuestionWrites ==
    ASSUME ApprovalInv, TranscriptInv, NEW t \in Turns, RecordQuestion(t)
    PROVE  TranscriptInv'
<1> DEFINE entry == Entry("user", turns[t].text, 0)
           todo == Script(turns[t].text)
           row == [turns[t] EXCEPT !.pc = "run", !.todo = todo]
<1>1. Write(turns[t].session, entry) /\ approvals' = approvals /\ turns' = [turns EXCEPT ![t] = row]
  BY DEF RecordQuestion
<1>2. EntryOK(approvals, turns[t].session, entry) /\ entry.kind # "resolved"
  BY DEF Entry, EntryOK
<1> HIDE DEF entry, todo
<1>3. row.pc = "run"
  BY TurnNow
<1> HIDE DEF row
<1>4. KeepsSilent /\ turns'[t].pc # "note"
  BY <1>1, <1>3, TurnNow DEF KeepsSilent, AboutToWrite
<1>5. QED
  BY <1>1, <1>2, <1>4, OneWritten

LEMMA EndsSilent ==
    ASSUME ApprovalInv, NEW t \in Turns, End(t)
    PROVE  KeepsSilent /\ turns'[t].pc # "note"
BY NoTurnOK, TurnNow DEF End, KeepsSilent, AboutToWrite

LEMMA AnnounceWrites ==
    ASSUME ApprovalInv, TranscriptInv, NEW t \in Turns, Announce(t)
    PROVE  TranscriptInv'
<1> DEFINE x == turns[t]
           entry == Entry("request", NoText, x.request)
<1>1. Write(x.session, entry) /\ approvals' = approvals /\ End(t) /\ x.pc = "announce"
  BY DEF Announce, At
<1>2. entry.kind = "request" /\ entry.request = x.request
  BY DEF Entry
<1> HIDE DEF entry
<1>3. EntryOK(approvals, x.session, entry)
  BY <1>1, <1>2 DEF EntryOK, TranscriptInv
<1>4. QED
  BY <1>1, <1>2, <1>3, EndsSilent, OneWritten

LEMMA CreateRowWrites ==
    ASSUME ApprovalInv, TranscriptInv, NEW t \in Turns, CreateRow(t)
    PROVE  TranscriptInv'
<1> DEFINE x == turns[t]
           request == Len(approvals) + 1
           row == [x EXCEPT !.pc = "announce", !.request = request]
           open == Open(t)
<1>1. transcript' = transcript /\ approvals' = Append(approvals, open)
      /\ turns' = [turns EXCEPT ![t] = row]
  BY DEF CreateRow
<1>2. open.session = x.session
  BY DEF Open
<1> HIDE DEF open
<1>3. PICK Rows : approvals \in Seq(Rows)
  BY DEF ApprovalInv, RowsOK
<1>4. DOMAIN approvals' = DOMAIN approvals \cup {request}
      /\ (\A r \in DOMAIN approvals : approvals'[r] = approvals[r])
      /\ approvals'[request] = open
  <2>1. approvals \in Seq(Rows \cup {open})
    BY <1>3
  <2>2. QED
    BY <1>1, <2>1
<1> HIDE DEF request
<1>5. row.pc = "announce" /\ row.request = request /\ row.session = x.session
  BY TurnNow
<1> HIDE DEF row
<1>6. \A u \in Turns : turns'[u] = IF u = t THEN row ELSE turns[u]
  BY <1>1, TurnNow
<1>7. \A u \in Turns : turns'[u].pc = "announce" =>
          /\ turns'[u].request \in DOMAIN approvals'
          /\ approvals'[turns'[u].request].session = turns'[u].session
  BY <1>2, <1>4, <1>5, <1>6 DEF TranscriptInv
<1>8. \A u \in Turns : turns'[u].pc = "note" /\ turns'[u].session \in Sessions =>
          Resolved(transcript[turns'[u].session], turns'[u].request) = {}
  BY <1>5, <1>6 DEF TranscriptInv
<1>9. Grows(approvals, approvals')
  BY <1>4 DEF Grows
<1>10. QED
  BY <1>1, <1>7, <1>8, <1>9, NothingWritten

\* The row was open, so no entry can say that it is resolved.
LEMMA ResolveWrites ==
    ASSUME ApprovalInv, TranscriptInv, NEW t \in Turns, Resolve(t)
    PROVE  TranscriptInv'
<1> DEFINE x == turns[t]
           r == x.request
           resolved == Resolution(x)
           row == [x EXCEPT !.pc = "note"]
<1>1. transcript' = transcript /\ x.pc = "resolve"
  BY DEF Resolve, At
<1>2. CASE approvals[r].state # "open"
  <2>1. End(t) /\ approvals' = approvals
    BY <1>2 DEF Resolve
  <2>2. QED
    BY <1>1, <2>1, EndsSilent, OtherStep
<1>3. CASE approvals[r].state = "open"
  <2>1. approvals' = [approvals EXCEPT ![r] = resolved] /\ turns' = [turns EXCEPT ![t] = row]
    BY <1>3 DEF Resolve, Goto
  <2>2. r \in DOMAIN approvals /\ approvals[r].session = x.session /\ RowOK(approvals[r])
    BY <1>1, TurnNow DEF TurnOK, ApprovalInv, RowsOK
  <2>3. resolved.session = x.session
    BY <2>2 DEF Resolution, RowOK, RowFields
  <2>4. Same(row, x) /\ row.pc = "note"
    BY TurnNow DEF Same
  <2> HIDE DEF resolved, row
  <2>5. DOMAIN approvals' = DOMAIN approvals
        /\ \A q \in DOMAIN approvals : approvals'[q].session = approvals[q].session
                                       /\ (q # r => approvals'[q] = approvals[q])
    BY <2>1, <2>2, <2>3
  <2>6. \A u \in Turns : turns'[u] = IF u = t THEN row ELSE turns[u]
    BY <2>1, TurnNow
  <2>7. Grows(approvals, approvals')
    BY <1>3, <2>5 DEF Grows
  <2>8. \A u \in Turns : turns'[u].pc = "announce" =>
            /\ turns'[u].request \in DOMAIN approvals'
            /\ approvals'[turns'[u].request].session = turns'[u].session
    BY <2>4, <2>5, <2>6 DEF TranscriptInv
  <2>9. x.session \in Sessions => Resolved(transcript[x.session], r) = {}
    BY <1>3 DEF TranscriptInv, Resolved, EntryOK
  <2>10. \A u \in Turns : turns'[u].pc = "note" /\ turns'[u].session \in Sessions =>
            Resolved(transcript[turns'[u].session], turns'[u].request) = {}
    BY <2>4, <2>6, <2>9 DEF TranscriptInv, Same
  <2>11. QED
    BY <1>1, <2>7, <2>8, <2>10, NothingWritten
<1>4. QED
  BY <1>2, <1>3

\* No other turn notes the same request: one resumption.
LEMMA NoteWrites ==
    ASSUME ApprovalInv, TranscriptInv, NEW t \in Turns, Note(t)
    PROVE  TranscriptInv'
<1> DEFINE x == turns[t]
           entry == Entry("resolved", NoText, x.request)
<1>1. Write(x.session, entry) /\ approvals' = approvals /\ x.pc = "note"
  BY DEF Note, At
<1>2. entry.kind = "resolved" /\ entry.request = x.request
  BY DEF Entry
<1> HIDE DEF entry
<1>3. \A u \in Turns : turns[u].pc = "note" => DecidedRow(approvals, turns[u]) /\ Resumes(turns[u])
  BY TurnNow DEF TurnOK, DecidedRow, Resumes, ApprovalInv, RowsOK
<1>4. EntryOK(approvals, x.session, entry)
  BY <1>1, <1>2, <1>3 DEF EntryOK, DecidedRow
<1>5. \A u \in Turns \ {t} : turns[u].pc = "note" => turns[u].request # entry.request
  BY <1>1, <1>2, <1>3 DEF ApprovalInv, TurnsOK
<1>6. x.session \in Sessions => Resolved(transcript[x.session], entry.request) = {}
  BY <1>1, <1>2 DEF TranscriptInv
<1>7. KeepsSilent /\ turns'[t].pc # "note"
  <2>1. End(t) \/ Goto(t, "recall") \/ Goto(t, "grant")
    BY DEF Note
  <2>2. ASSUME NEW pc \in {"recall", "grant"}, Goto(t, pc)
        PROVE  KeepsSilent /\ turns'[t].pc # "note"
    BY <2>2, TurnNow DEF Goto, KeepsSilent, AboutToWrite
  <2>3. QED
    BY <2>1, <2>2, EndsSilent
<1>8. QED
  BY <1>1, <1>2, <1>4, <1>5, <1>6, <1>7, OneWritten

LEMMA InitTranscript == Init => TranscriptInv
<1> SUFFICES ASSUME Init PROVE TranscriptInv
  OBVIOUS
<1>1. \A s \in Sessions : transcript[s] \in Seq({}) /\ DOMAIN transcript[s] = {}
  BY DEF Init
<1>2. QED
  BY <1>1, NoTurnOK DEF Init, TranscriptInv, Resolved

LEMMA NextTranscript == ApprovalInv /\ TranscriptInv /\ [Next]_vars => TranscriptInv'
<1> SUFFICES ASSUME ApprovalInv, TranscriptInv, [Next]_vars PROVE TranscriptInv'
  OBVIOUS
<1>1. CASE UNCHANGED vars
  BY <1>1, OtherStep DEF vars, KeepsSilent
<1>2. CASE Next
  <2>1. PICK t \in Turns : Begin(t) \/ Continue(t) \/ Fail(t)
    BY <1>2 DEF Next
  <2>2. CASE Writes(t)
    BY <2>2, RecordQuestionWrites, CreateRowWrites, AnnounceWrites, ResolveWrites, NoteWrites
       DEF Writes
  <2>3. CASE ~Writes(t)
    BY <2>1, <2>3, OthersDoNotWrite, OtherStep
  <2>4. QED
    BY <2>2, <2>3
<1>3. QED
  BY <1>1, <1>2

\* What a transcript says about approvals is what the rows say, and it says that
\* a request was resolved once: page and history never show a decision that was
\* not taken, though the row and the entry are two writes with a gap between.
THEOREM TranscriptTellsTheRows == Spec => []TranscriptMatchesRows
<1>1. ApprovalInv /\ TranscriptInv => TranscriptMatchesRows
  <2> SUFFICES ASSUME ApprovalInv, TranscriptInv, NEW s \in Sessions
               PROVE  /\ \A i \in About(s, "request") \cup About(s, "resolved") :
                            /\ transcript[s][i].request \in Request
                            /\ approvals[transcript[s][i].request].session = s
                      /\ \A i \in About(s, "resolved") :
                            /\ approvals[transcript[s][i].request].state # "open"
                            /\ \A j \in About(s, "resolved") :
                                  transcript[s][j].request = transcript[s][i].request => i = j
    BY DEF TranscriptMatchesRows
  <2>1. DOMAIN approvals = Request
    BY DEF ApprovalInv, RowsOK, Request
  <2>2. QED
    BY <2>1 DEF TranscriptInv, EntryOK, About, Resolved
<1>2. QED
  BY <1>1, InitTranscript, NextTranscript, ApprovalInvariant, PTL DEF Spec

-----------------------------------------------------------------------------
(* Some arithmetic: least and greatest numbers, and sequences of sequences *)

\* Some naturals have a least one.
LEMMA LeastElement ==
    ASSUME NEW S \in SUBSET Nat, S # {}
    PROVE  \E t \in S : \A u \in S : t <= u
<1> DEFINE R == {p \in Nat \X Nat : p[1] < p[2]}
<1>1. OpToRel(<, Nat) = R
  BY DEF OpToRel
<1>2. IsWellFoundedOn(R, Nat)
  BY <1>1, NatLessThanWellFounded
<1> HIDE DEF R
<1>3. PICK t \in S : \A u \in S : ~ (<<u, t>> \in R)
  BY <1>2, WFMin
<1>4. \A u \in S : ~ (u < t)
  BY <1>3 DEF R
<1> QED BY <1>4

\* Some numbers up to k have a greatest one.
LEMMA GreatestElement ==
    ASSUME NEW k \in Nat, NEW S \in SUBSET (1..k), S # {}
    PROVE  \E t \in S : \A u \in S : u <= t
<1> DEFINE D == {d \in Nat : \E t \in S : d = k - t}
<1>1. D # {}
  <2>1. PICK t \in S : TRUE
    OBVIOUS
  <2>2. k - t \in Nat
    OBVIOUS
  <2>3. k - t \in D
    BY <2>2
  <2> QED BY <2>3
<1>2. D \in SUBSET Nat
  OBVIOUS
<1>3. \A u \in S : k - u \in D
  OBVIOUS
<1>4. \A d \in D : \E t \in S : d = k - t
  OBVIOUS
<1> HIDE DEF D
<1>5. PICK d \in D : \A e \in D : d <= e
  BY <1>1, <1>2, LeastElement
<1>6. PICK t \in S : d = k - t
  BY <1>4, <1>5
<1>7. ASSUME NEW u \in S PROVE u <= t
  <2>1. d <= k - u
    BY <1>3, <1>5
  <2> QED BY <1>6, <2>1
<1> QED BY <1>7

-----------------------------------------------------------------------------
(* What the policy and the texts give *)

\* The key of a verdict is one of Keys.
LEMMA VerdictHasKey ==
    ASSUME NEW policy \in Policy, NEW command
    PROVE  Evaluate(policy, command).key \in Keys
<1> DEFINE hits == Hits(policy, command)
           denied == Denials(policy, command)
           len == Len(policy.rules)
<1>1. policy.rules \in Seq(Rule) /\ len \in Nat /\ DOMAIN policy.rules = 1..len
  BY DEF Policy
<1>2. \A i \in DOMAIN policy.rules : RuleVerdict(policy, i).key \in Keys
  <2> TAKE i \in DOMAIN policy.rules
  <2>1. policy.rules[i] \in Rule /\ i \in Int
    BY <1>1
  <2> QED BY <2>1 DEF RuleVerdict, Rule, Keys
<1>3. hits \in SUBSET (1..len) /\ denied \in SUBSET hits
  BY <1>1 DEF Hits, Denials
<1> HIDE DEF hits, denied, len
<1>4. CASE denied # {}
  <2>1. denied \in SUBSET Nat
    BY <1>3
  <2>2. \E i \in denied : \A j \in denied : i <= j
    BY <1>4, <2>1, LeastElement
  <2> DEFINE first == CHOOSE i \in denied : \A j \in denied : i <= j
  <2>3. first \in denied
    BY <2>2
  <2>4. Evaluate(policy, command) = RuleVerdict(policy, first)
    BY <1>4 DEF Evaluate, denied
  <2> HIDE DEF first
  <2>5. first \in DOMAIN policy.rules
    BY <2>3, <1>1, <1>3
  <2> QED BY <2>4, <2>5, <1>2
<1>5. CASE denied = {} /\ hits # {}
  <2>1. \E i \in hits : \A j \in hits : j <= i
    BY <1>1, <1>3, <1>5, GreatestElement
  <2> DEFINE last == CHOOSE i \in hits : \A j \in hits : j <= i
  <2>2. last \in hits
    BY <2>1
  <2>3. Evaluate(policy, command) = RuleVerdict(policy, last)
    BY <1>5 DEF Evaluate, denied, hits
  <2> HIDE DEF last
  <2>4. last \in DOMAIN policy.rules
    BY <2>2, <1>1, <1>3
  <2> QED BY <2>3, <2>4, <1>2
<1>6. CASE denied = {} /\ hits = {}
  <2>1. NoKey \in Keys /\ AllowlistMiss \in Keys
    BY DEF NoKey, AllowlistMiss, Keys
  <2>2. Evaluate(policy, command).key \in {NoKey, AllowlistMiss}
    BY <1>6 DEF Evaluate, denied, hits
  <2> QED BY <2>1, <2>2
<1> QED BY <1>4, <1>5, <1>6

\* flat has put together the first k of some sequences.
FlatOf(flat, k, seqs) ==
    flat = [i \in 1..k |-> IF i = 1 THEN seqs[i] ELSE flat[i - 1] \o seqs[i]]

LEMMA FlatExists ==
    ASSUME NEW A, NEW len \in Nat, NEW seqs, DOMAIN seqs = 1..len,
           \A i \in 1..len : seqs[i] \in Seq(A)
    PROVE  \A k \in 0..len : \E flat \in [1..k -> Seq(A)] : FlatOf(flat, k, seqs)
<1> DEFINE None == {k \in Nat : k \in 0..len /\ ~ \E flat \in [1..k -> Seq(A)] : FlatOf(flat, k, seqs)}
<1> SUFFICES ASSUME NEW j \in 0..len, ~ \E flat \in [1..j -> Seq(A)] : FlatOf(flat, j, seqs)
             PROVE  FALSE
  OBVIOUS
<1>1. None \in SUBSET Nat /\ j \in None
  OBVIOUS
<1> HIDE DEF None
<1>2. PICK k \in None : \A i \in None : k <= i
  BY <1>1, LeastElement
<1>3. k \in Nat /\ k \in 0..len /\ ~ \E flat \in [1..k -> Seq(A)] : FlatOf(flat, k, seqs)
  BY <1>2 DEF None
<1>4. k # 0
  <2> DEFINE flat == [i \in 1..0 |-> <<>>]
  <2>1. flat \in [1..0 -> Seq(A)]
    OBVIOUS
  <2>2. flat = [i \in 1..0 |-> IF i = 1 THEN seqs[i] ELSE flat[i - 1] \o seqs[i]]
    OBVIOUS
  <2> HIDE DEF flat
  <2> QED BY <1>3, <2>1, <2>2 DEF FlatOf
<1> DEFINE m == k - 1
<1>5. m \in Nat /\ m \in 0..len /\ m < k /\ m + 1 = k
  BY <1>3, <1>4
<1>6. m \notin None
  BY <1>2, <1>5, <1>3
<1>7. PICK flat \in [1..m -> Seq(A)] : FlatOf(flat, m, seqs)
  BY <1>5, <1>6 DEF None
<1> HIDE DEF m
<1> DEFINE more == [i \in 1..k |-> IF i = k THEN (IF k = 1 THEN seqs[k] ELSE flat[m] \o seqs[k])
                                   ELSE flat[i]]
<1>8. \A i \in 1..k : i = k \/ i \in 1..m
  BY <1>5
<1>9. (IF k = 1 THEN seqs[k] ELSE flat[m] \o seqs[k]) \in Seq(A)
  <2>1. k \in 1..len /\ seqs[k] \in Seq(A)
    BY <1>3, <1>4
  <2>2. CASE k # 1
    <3>1. m \in 1..m
      BY <1>5, <2>2
    <3>2. flat[m] \in Seq(A)
      BY <3>1, <1>7
    <3> QED BY <2>1, <2>2, <3>2
  <2> QED BY <2>1, <2>2
<1>10. more \in [1..k -> Seq(A)]
  BY <1>8, <1>9, <1>7
<1>11. \A i \in 1..m : flat[i] = IF i = 1 THEN seqs[i] ELSE flat[i - 1] \o seqs[i]
  BY <1>7 DEF FlatOf
<1>12. \A i \in 1..k : more[i] = IF i = 1 THEN seqs[i] ELSE more[i - 1] \o seqs[i]
  <2> TAKE i \in 1..k
  <2>1. CASE i = k
    <3>1. i # 1 => i - 1 \in 1..k /\ i - 1 # k /\ more[i - 1] = flat[m]
      BY <1>3, <1>5, <2>1
    <3> QED BY <2>1, <3>1
  <2>2. CASE i # k
    <3>1. i \in 1..m /\ more[i] = flat[i]
      BY <1>8, <2>2
    <3>2. i # 1 => i - 1 \in 1..k /\ i - 1 # k /\ more[i - 1] = flat[i - 1]
      BY <1>3, <1>5, <2>2
    <3> QED BY <3>1, <3>2, <1>11
  <2> QED BY <2>1, <2>2
<1>13. FlatOf(more, k, seqs)
  <2>1. DOMAIN more = 1..k /\ more = [i \in 1..k |-> more[i]]
    OBVIOUS
  <2> HIDE DEF more
  <2> QED BY <1>12, <2>1 DEF FlatOf
<1> QED BY <1>3, <1>10, <1>13

\* Sequences over a set make up one over it.
LEMMA FlatIsTyped ==
    ASSUME NEW A, NEW seqs \in Seq(Seq(A))
    PROVE  FlattenSeq(seqs) \in Seq(A)
<1> DEFINE len == Len(seqs)
           Flat(f) == f = [i \in 1..Len(seqs) |-> IF i = 1 THEN seqs[i] ELSE f[i - 1] \o seqs[i]]
           all == CHOOSE f : Flat(f)
<1>1. len \in Nat /\ DOMAIN seqs = 1..len /\ \A i \in 1..len : seqs[i] \in Seq(A)
  OBVIOUS
<1>2. CASE len = 0
  <2>1. seqs = <<>>
    BY <1>2
  <2> QED BY <1>2, <2>1 DEF FlattenSeq
<1>3. CASE len # 0
  <2>1. FlattenSeq(seqs) = all[len]
    BY <1>3 DEF FlattenSeq
  <2>2. len \in 0..len
    BY <1>1
  <2>3. PICK flat \in [1..len -> Seq(A)] : FlatOf(flat, len, seqs)
    <3> HIDE DEF len
    <3> QED BY <1>1, <2>2, FlatExists
  <2>4. Flat(flat)
    BY <2>3 DEF FlatOf
  <2>5. Flat(all)
    BY <2>4
  <2> HIDE DEF all
  <2>6. DOMAIN all = 1..len /\ \A i \in 1..len : all[i] = IF i = 1 THEN seqs[i] ELSE all[i - 1] \o seqs[i]
    BY <2>5
  <2> HIDE DEF len
  <2> DEFINE Odd == {k \in Nat : k \in 1..len /\ all[k] \notin Seq(A)}
  <2>7. Odd = {}
    <3> SUFFICES ASSUME Odd # {} PROVE FALSE
      OBVIOUS
    <3>1. Odd \in SUBSET Nat
      OBVIOUS
    <3> HIDE DEF Odd
    <3>2. PICK k \in Odd : \A j \in Odd : k <= j
      BY <3>1, LeastElement
    <3>3. k \in Nat /\ k \in 1..len /\ all[k] \notin Seq(A)
      BY <3>2 DEF Odd
    <3>4. k # 1
      BY <3>3, <2>6, <1>1
    <3>5. k - 1 \in Nat /\ k - 1 \in 1..len /\ k - 1 < k
      BY <3>3, <3>4, <1>1
    <3>6. k - 1 \notin Odd
      BY <3>2, <3>3, <3>5
    <3>7. all[k - 1] \in Seq(A)
      BY <3>5, <3>6 DEF Odd
    <3>8. all[k] = all[k - 1] \o seqs[k]
      BY <3>3, <3>4, <2>6
    <3>9. seqs[k] \in Seq(A)
      BY <3>3, <1>1
    <3> QED BY <3>3, <3>7, <3>8, <3>9
  <2>8. len \in 1..len
    BY <1>1, <1>3
  <2> QED BY <2>1, <2>7, <2>8
<1> QED BY <1>2, <1>3

\* A text spells calls of tools.
LEMMA TextsSpellTools == ASSUME NEW text \in Texts PROVE Directives[text] \in Seq(Tools)
<1>1. \A line \in AnyLine : Spells(line) \in Seq(Tools)
  <2> TAKE line \in AnyLine
  <2>1. line.argument \in Tools \cup {""} /\ (line.verb = "exec" => line.argument \in Commands)
    BY DEF AnyLine
  <2>2. "read" \in Tools /\ "finish_silently" \in Tools /\ Commands \subseteq Tools
    BY DEF Tools
  <2>3. \A a \in Tools : <<a>> \in Seq(Tools)
    OBVIOUS
  <2>4. <<>> \in Seq(Tools)
    OBVIOUS
  <2> QED BY <2>1, <2>2, <2>3, <2>4 DEF Spells
<1> DEFINE spelled == [i \in DOMAIN LinesOf[text] |-> Spells(LinesOf[text][i])]
<1>2. LinesOf[text] \in Seq(AnyLine)
  BY TurnsAssumption
<1>3. PICK len \in Nat : DOMAIN LinesOf[text] = 1..len
  BY <1>2
<1>4. \A i \in 1..len : spelled[i] \in Seq(Tools)
  BY <1>1, <1>2, <1>3
<1>5. spelled \in Seq(Seq(Tools))
  <2>1. spelled \in [1..len -> Seq(Tools)]
    BY <1>3, <1>4
  <2> HIDE DEF spelled
  <2> QED BY <2>1
<1>6. Directives[text] = FlattenSeq(spelled)
  BY DEF Directives
<1> HIDE DEF spelled
<1> QED BY <1>5, <1>6, FlatIsTyped

LEMMA ScriptIsTyped ==
    ASSUME NEW text \in Texts \cup {NoText} PROVE Script(text) \in Seq(Tools)
<1>1. <<>> \in Seq(Tools)
  OBVIOUS
<1> QED BY <1>1, TextsSpellTools DEF Script

-----------------------------------------------------------------------------
(* The rows, the entries and the turns.  The number of rows is a parameter. *)

Places == {"screen", "record", "run", "gate", "exec", "pause",
           "announce", "resolve", "note", "grant", "recall"}
Given == {"", "decline", "once", "session", "always"}
TurnWith(len) ==
    [pc : Places, session : Sessions, actor : Actors, text : Texts \cup {NoText},
     approved : Call \cup {NoCall}, request : 0..len, decision : Given, every : BOOLEAN,
     steps : 0..MaxSteps, todo : Seq(Tools), call : Call \cup {NoCall}]
EntryWith(len) == [kind : EntryKinds, text : Texts \cup {NoText}, request : 0..len]
GrantRow == [actor : Actors, key : Keys, scope : {"session", "always"}, session : Sessions \cup {""}]

\* What a turn that stops, or that decides, holds.
Sound(x) ==
    /\ x.pc \in {"gate", "exec", "pause"} => x.call \in Call
    /\ x.pc = "pause" /\ ~x.call.strict => x.call.command \in Commands
    /\ x.pc \in {"resolve", "note"} => x.decision \in Resolutions
    /\ x.pc = "grant" => x.decision \in {"session", "always"}

TypedTurn(len, x) == x = NoTurn \/ (x \in TurnWith(len) /\ Sound(x))

TablesTyped ==
    /\ harness \in Harnesses
    /\ approvals \in Seq(Row)
    /\ transcript \in [Sessions -> Seq(EntryWith(Len(approvals)))]
    /\ grants \subseteq GrantRow
    /\ questions \in 0..MaxQuestions

TypedInv ==
    /\ TablesTyped
    /\ \E Rows : turns \in [Turns -> Rows]
    /\ \A t \in Turns : TypedTurn(Len(approvals), turns[t])

\* One turn moves on, with a row as it should be, and no row is taken back.
LEMMA OneTurnTyped ==
    ASSUME ApprovalInv, TypedInv, TablesTyped', Len(approvals) <= Len(approvals'),
           NEW t \in Turns, NEW row, TypedTurn(Len(approvals'), row),
           turns' = [turns EXCEPT ![t] = row]
    PROVE  TypedInv'
<1>1. Len(approvals) \in Nat /\ Len(approvals') \in Nat
  BY DEF TypedInv, TablesTyped
<1>2. \A x : TypedTurn(Len(approvals), x) => TypedTurn(Len(approvals'), x)
  <2>1. TurnWith(Len(approvals)) \subseteq TurnWith(Len(approvals'))
    <3> DEFINE m == Len(approvals)
               n == Len(approvals')
    <3>1. 0..m \subseteq 0..n
      BY <1>1
    <3> HIDE DEF m, n
    <3>2. TurnWith(m) \subseteq TurnWith(n)
      BY <3>1 DEF TurnWith
    <3> QED BY <3>2 DEF m, n
  <2> QED BY <2>1 DEF TypedTurn
<1>3. \A u \in Turns : turns'[u] = row \/ turns'[u] = turns[u]
  BY TurnNow
<1>4. \A u \in Turns : TypedTurn(Len(approvals'), turns'[u])
  BY <1>2, <1>3 DEF TypedInv
<1>5. \E Rows : turns' \in [Turns -> Rows]
  <2>1. PICK Rows : turns \in [Turns -> Rows]
    BY DEF TypedInv
  <2>2. turns' \in [Turns -> Rows \cup {row}]
    BY <2>1
  <2> QED BY <2>2
<1> QED BY <1>4, <1>5 DEF TypedInv, TypedTurn, TurnWith, Sound

\* A step that leaves the tables alone.
LEMMA SameTables ==
    ASSUME TypedInv, UNCHANGED <<harness, transcript, approvals, grants, questions>>
    PROVE  TablesTyped' /\ Len(approvals) <= Len(approvals')
BY DEF TypedInv, TablesTyped

\* A turn under way has a row of its own.
LEMMA UnderWay ==
    ASSUME TypedInv, NEW t \in Turns, turns[t].pc # "idle"
    PROVE  turns[t] \in TurnWith(Len(approvals)) /\ Sound(turns[t]) /\ Len(approvals) \in Nat
<1>1. NoTurn.pc = "idle"
  BY DEF NoTurn
<1>2. TypedTurn(Len(approvals), turns[t])
  BY DEF TypedInv
<1> QED BY <1>1, <1>2 DEF TypedInv, TablesTyped, TypedTurn

\* However a turn ends.
LEMMA EndTyped ==
    ASSUME ApprovalInv, TypedInv, TablesTyped', Len(approvals) <= Len(approvals'),
           NEW t \in Turns, End(t)
    PROVE  TypedInv'
BY OneTurnTyped DEF End, TypedTurn

\* A turn that goes to another place.
LEMMA GotoTyped ==
    ASSUME ApprovalInv, TypedInv, TablesTyped', Len(approvals) <= Len(approvals'),
           NEW t \in Turns, turns[t].pc # "idle",
           NEW pc \in Places, Sound([turns[t] EXCEPT !.pc = pc]), Goto(t, pc)
    PROVE  TypedInv'
<1> DEFINE row == [turns[t] EXCEPT !.pc = pc]
<1>1. turns' = [turns EXCEPT ![t] = row]
  BY TurnNow DEF Goto
<1>2. Len(approvals) \in Nat /\ Len(approvals') \in Nat
  BY DEF TypedInv, TablesTyped
<1>3. turns[t] \in TurnWith(Len(approvals'))
  BY <1>2, UnderWay DEF TurnWith
<1>4. row \in TurnWith(Len(approvals'))
  BY <1>3 DEF TurnWith
<1>5. Sound(row)
  OBVIOUS
<1> HIDE DEF row
<1> QED BY <1>1, <1>4, <1>5, OneTurnTyped DEF TypedTurn

LEMMA AskTyped ==
    ASSUME ApprovalInv, TypedInv, harness' = harness, NEW t \in Turns, NEW s \in Sessions,
           NEW actor \in Actors, NEW text \in Texts, Ask(t, s, actor, text)
    PROVE  TypedInv'
<1> DEFINE row == [TurnRequest(s, actor, text) EXCEPT
                      !.pc = IF Posture[s] = "auto" THEN "screen" ELSE "record",
                      !.every = Posture[s] = "strict"]
<1>1. turns' = [turns EXCEPT ![t] = row]
  BY DEF Ask, SecurityPolicy
<1>2. TablesTyped' /\ Len(approvals) <= Len(approvals') /\ Len(approvals') \in Nat
  <2>1. UNCHANGED <<transcript, approvals, grants>> /\ questions < MaxQuestions /\ questions' = questions + 1
    BY DEF Ask
  <2> QED BY <2>1, TurnsAssumption DEF TypedInv, TablesTyped
<1>3. /\ row.pc \in {"screen", "record"}
      /\ row \in TurnWith(Len(approvals'))
  <2>1. <<>> \in Seq(Tools) /\ 0 \in 0..MaxSteps /\ 0 \in 0..Len(approvals')
    BY <1>2, TurnsAssumption
  <2> QED BY <2>1 DEF TurnRequest, NoTurn, TurnWith, Places, Given
<1> HIDE DEF row
<1>4. Sound(row)
  BY <1>3 DEF Sound
<1> QED BY <1>1, <1>2, <1>3, <1>4, OneTurnTyped DEF TypedTurn

LEMMA ScreenTyped ==
    ASSUME ApprovalInv, TypedInv, harness' = harness, NEW t \in Turns, Screen(t)
    PROVE  TypedInv'
<1>1. TablesTyped' /\ Len(approvals) <= Len(approvals')
  BY SameTables DEF Screen
<1>2. turns[t].pc = "screen"
  BY DEF Screen, At
<1>3. CASE End(t)
  BY <1>1, <1>3, EndTyped
<1>4. CASE Goto(t, "record")
  <2>1. Sound([turns[t] EXCEPT !.pc = "record"])
    BY TurnNow DEF Sound
  <2> QED BY <1>1, <1>2, <1>4, <2>1, GotoTyped DEF Places
<1> QED BY <1>3, <1>4 DEF Screen

\* An entry at the end of a transcript.
LEMMA WriteTyped ==
    ASSUME TypedInv, NEW s \in Sessions, NEW entry \in EntryWith(Len(approvals)),
           Write(s, entry), UNCHANGED <<harness, approvals, grants, questions>>
    PROVE  TablesTyped' /\ Len(approvals) <= Len(approvals')
<1>1. transcript \in [Sessions -> Seq(EntryWith(Len(approvals)))]
  BY DEF TypedInv, TablesTyped
<1> DEFINE Rows == EntryWith(Len(approvals))
<1> HIDE DEF Rows
<1>2. transcript' \in [Sessions -> Seq(Rows)]
  <2>1. transcript \in [Sessions -> Seq(Rows)] /\ entry \in Rows
    BY <1>1 DEF Rows
  <2>2. Append(transcript[s], entry) \in Seq(Rows)
    BY <2>1
  <2> QED BY <2>1, <2>2 DEF Write
<1> QED BY <1>2 DEF Rows, TypedInv, TablesTyped

LEMMA RecordQuestionTyped ==
    ASSUME ApprovalInv, TypedInv, harness' = harness, NEW t \in Turns, RecordQuestion(t)
    PROVE  TypedInv'
<1> DEFINE todo == Script(turns[t].text)
           row == [turns[t] EXCEPT !.pc = "run", !.todo = todo]
<1>1. /\ turns' = [turns EXCEPT ![t] = row] /\ turns[t].pc = "record"
      /\ Write(turns[t].session, Entry("user", turns[t].text, 0))
      /\ UNCHANGED <<harness, approvals, grants, questions>>
  BY DEF RecordQuestion, At
<1>2. turns[t] \in TurnWith(Len(approvals)) /\ Len(approvals) \in Nat
  BY <1>1, UnderWay
<1>3. turns[t].session \in Sessions /\ turns[t].text \in Texts \cup {NoText}
  BY <1>2 DEF TurnWith
<1>4. Entry("user", turns[t].text, 0) \in EntryWith(Len(approvals))
  BY <1>2, <1>3 DEF Entry, EntryWith, EntryKinds
<1>5. TablesTyped' /\ Len(approvals) <= Len(approvals')
  BY <1>1, <1>3, <1>4, WriteTyped
<1>6. todo \in Seq(Tools)
  BY <1>3, ScriptIsTyped
<1> HIDE DEF todo
<1>7. row \in TurnWith(Len(approvals)) /\ row.pc = "run"
  BY <1>2, <1>6 DEF TurnWith, Places
<1> HIDE DEF row
<1>8. Sound(row)
  BY <1>7 DEF Sound
<1> QED BY <1>1, <1>5, <1>7, <1>8, OneTurnTyped DEF TypedTurn

-----------------------------------------------------------------------------
(* The loops and the gate *)

\* A turn that moves on with a row as it should be, and leaves the tables alone.
LEMMA RowTyped ==
    ASSUME ApprovalInv, TypedInv, UNCHANGED <<harness, transcript, approvals, grants, questions>>,
           NEW t \in Turns, NEW row \in TurnWith(Len(approvals)), Sound(row),
           turns' = [turns EXCEPT ![t] = row]
    PROVE  TypedInv'
<1>1. TablesTyped' /\ Len(approvals) <= Len(approvals') /\ Len(approvals') = Len(approvals)
  BY SameTables
<1> QED BY <1>1, OneTurnTyped DEF TypedTurn

LEMMA NextStepTyped ==
    ASSUME ApprovalInv, TypedInv, UNCHANGED <<harness, transcript, approvals, grants, questions>>,
           NEW t \in Turns, turns[t].pc # "idle", NextStep(t)
    PROVE  TypedInv'
<1> DEFINE row == [turns[t] EXCEPT !.pc = "run", !.call = NoCall]
<1>1. turns' = [turns EXCEPT ![t] = row]
  BY TurnNow DEF NextStep
<1>2. row \in TurnWith(Len(approvals)) /\ row.pc = "run"
  BY UnderWay DEF TurnWith, Places
<1> HIDE DEF row
<1>3. Sound(row)
  BY <1>2 DEF Sound
<1> QED BY <1>1, <1>2, <1>3, RowTyped

LEMMA PauseTyped ==
    ASSUME ApprovalInv, TypedInv, UNCHANGED <<harness, transcript, approvals, grants, questions>>,
           NEW t \in Turns, turns[t].pc # "idle", NEW call \in Call, Pause(t, call),
           call.strict \/ call.command \in Commands
    PROVE  TypedInv'
<1> DEFINE row == [turns[t] EXCEPT !.pc = "pause", !.call = call, !.todo = <<>>]
<1>1. turns' = [turns EXCEPT ![t] = row]
  BY TurnNow DEF Pause
<1>2. row \in TurnWith(Len(approvals)) /\ row.pc = "pause" /\ row.call = call
  <2>1. <<>> \in Seq(Tools)
    OBVIOUS
  <2> QED BY <2>1, UnderWay DEF TurnWith, Places
<1> HIDE DEF row
<1>3. Sound(row)
  BY <1>2 DEF Sound
<1> QED BY <1>1, <1>2, <1>3, RowTyped

\* The rest of what a turn has to do, and what it calls next.
LEMMA NextCall ==
    ASSUME TypedInv, NEW t \in Turns, turns[t].pc # "idle", turns[t].todo # <<>>
    PROVE  Tail(turns[t].todo) \in Seq(Tools) /\ Called(turns[t]) \in Call
<1>1. turns[t].todo \in Seq(Tools) /\ turns[t].every \in BOOLEAN
  BY UnderWay DEF TurnWith
<1>2. Head(turns[t].todo) \in Tools /\ Tail(turns[t].todo) \in Seq(Tools)
  BY <1>1
<1> QED BY <1>1, <1>2 DEF Called, Call

LEMMA CompleteTyped ==
    ASSUME ApprovalInv, TypedInv, harness' = harness, NEW t \in Turns, Complete(t)
    PROVE  TypedInv'
<1>1. PICK calls \in Replies : turns' = [turns EXCEPT ![t].steps = @ + 1, ![t].todo = calls]
  BY DEF Complete
<1>2. turns[t].pc = "run" /\ turns[t].steps < MaxSteps
      /\ UNCHANGED <<harness, transcript, approvals, grants, questions>>
  BY DEF Complete, At
<1>3. turns[t] \in TurnWith(Len(approvals))
  BY <1>2, UnderWay
<1> DEFINE steps == turns[t].steps + 1
           row == [turns[t] EXCEPT !.steps = steps, !.todo = calls]
<1>4. turns' = [turns EXCEPT ![t] = row]
  BY <1>1, TurnNow
<1>5. steps \in 0..MaxSteps
  BY <1>2, <1>3, TurnsAssumption DEF TurnWith
<1>6. calls \in Seq(Tools)
  <2>1. PICK n \in 1..MaxCalls : calls \in [1..n -> Offered]
    BY DEF Replies
  <2>2. n \in Nat /\ Offered \subseteq Tools
    BY TurnsAssumption
  <2>3. calls \in [1..n -> Tools]
    BY <2>1, <2>2
  <2> QED BY <2>2, <2>3
<1> HIDE DEF steps
<1>7. row \in TurnWith(Len(approvals)) /\ row.pc = "run"
  BY <1>2, <1>3, <1>5, <1>6 DEF TurnWith
<1> HIDE DEF row
<1>8. Sound(row)
  BY <1>7 DEF Sound
<1> QED BY <1>2, <1>4, <1>7, <1>8, RowTyped

LEMMA ServeCallTyped ==
    ASSUME ApprovalInv, TypedInv, harness' = harness, NEW t \in Turns, ServeCall(t)
    PROVE  TypedInv'
<1>1. turns[t].pc = "run" /\ turns[t].todo # <<>>
      /\ UNCHANGED <<harness, transcript, approvals, grants, questions>>
  BY DEF ServeCall, At
<1>2. turns[t] \in TurnWith(Len(approvals))
  BY <1>1, UnderWay
<1>3. Tail(turns[t].todo) \in Seq(Tools) /\ Called(turns[t]) \in Call
  BY <1>1, NextCall
<1>4. CASE turns[t].every
  <2>1. Pause(t, Called(turns[t])) /\ Called(turns[t]).strict
    BY <1>4 DEF ServeCall, Called
  <2> QED BY <1>1, <1>3, <2>1, PauseTyped
<1>5. CASE ~turns[t].every
  <2> DEFINE todo == Tail(turns[t].todo)
             call == Called(turns[t])
             row == [turns[t] EXCEPT !.todo = todo, !.call = call, !.pc = "gate"]
  <2>1. turns' = [turns EXCEPT ![t] = row]
    BY <1>5, TurnNow DEF ServeCall
  <2>2. todo \in Seq(Tools) /\ call \in Call
    BY <1>3
  <2> HIDE DEF todo, call
  <2>3. row \in TurnWith(Len(approvals)) /\ row.pc = "gate" /\ row.call = call
    BY <1>2, <2>2 DEF TurnWith, Places
  <2> HIDE DEF row
  <2>4. Sound(row)
    BY <2>2, <2>3 DEF Sound
  <2> QED BY <1>1, <2>1, <2>3, <2>4, RowTyped
<1> QED BY <1>4, <1>5

LEMMA RefuseArgumentsTyped ==
    ASSUME ApprovalInv, TypedInv, harness' = harness, NEW t \in Turns, RefuseArguments(t)
    PROVE  TypedInv'
<1>1. turns[t].pc = "run" /\ turns[t].todo # <<>>
      /\ UNCHANGED <<harness, transcript, approvals, grants, questions>>
  BY DEF RefuseArguments, At
<1> DEFINE todo == Tail(turns[t].todo)
           row == [turns[t] EXCEPT !.todo = todo]
<1>2. turns' = [turns EXCEPT ![t] = row]
  BY TurnNow DEF RefuseArguments
<1>3. todo \in Seq(Tools)
  BY <1>1, NextCall
<1> HIDE DEF todo
<1>4. row \in TurnWith(Len(approvals)) /\ row.pc = "run"
  BY <1>1, <1>3, UnderWay DEF TurnWith
<1> HIDE DEF row
<1>5. Sound(row)
  BY <1>4 DEF Sound
<1> QED BY <1>1, <1>2, <1>4, <1>5, RowTyped

LEMMA MockCallTyped ==
    ASSUME ApprovalInv, TypedInv, harness' = harness, NEW t \in Turns, MockCall(t)
    PROVE  TypedInv'
<1>1. turns[t].pc = "run" /\ turns[t].todo # <<>> /\ turns[t].steps < MaxSteps
      /\ UNCHANGED <<harness, transcript, approvals, grants, questions>>
  BY DEF MockCall, At
<1>2. turns[t] \in TurnWith(Len(approvals))
  BY <1>1, UnderWay
<1>3. Tail(turns[t].todo) \in Seq(Tools) /\ Called(turns[t]) \in Call
  BY <1>1, NextCall
<1>4. CASE turns[t].every
  <2>1. Pause(t, Called(turns[t])) /\ Called(turns[t]).strict
    BY <1>4 DEF MockCall, Called
  <2> QED BY <1>1, <1>3, <2>1, PauseTyped
<1>5. CASE ~turns[t].every
  <2> DEFINE todo == Tail(turns[t].todo)
             call == Called(turns[t])
             steps == turns[t].steps + 1
             row == [turns[t] EXCEPT !.steps = steps, !.todo = todo, !.call = call, !.pc = "gate"]
  <2>1. turns' = [turns EXCEPT ![t] = row]
    BY <1>5, TurnNow DEF MockCall
  <2>2. todo \in Seq(Tools) /\ call \in Call
    BY <1>3
  <2>3. steps \in 0..MaxSteps
    BY <1>1, <1>2, TurnsAssumption DEF TurnWith
  <2> HIDE DEF todo, call, steps
  <2>4. row \in TurnWith(Len(approvals)) /\ row.pc = "gate" /\ row.call = call
    BY <1>2, <2>2, <2>3 DEF TurnWith, Places
  <2> HIDE DEF row
  <2>5. Sound(row)
    BY <2>2, <2>4 DEF Sound
  <2> QED BY <1>1, <2>1, <2>4, <2>5, RowTyped
<1> QED BY <1>4, <1>5

LEMMA GateTyped ==
    ASSUME ApprovalInv, TypedInv, harness' = harness, NEW t \in Turns, Gate(t)
    PROVE  TypedInv'
<1>1. turns[t].pc = "gate" /\ turns[t].call.command \in Commands
      /\ UNCHANGED <<harness, transcript, approvals, grants, questions>>
  BY DEF Gate, At
<1>2. TablesTyped' /\ Len(approvals) <= Len(approvals')
  BY <1>1, SameTables
<1>3. turns[t].call \in Call
  BY <1>1, UnderWay DEF Sound
<1>4. CASE Goto(t, "exec")
  <2>1. Sound([turns[t] EXCEPT !.pc = "exec"])
    BY <1>3, TurnNow DEF Sound
  <2> QED BY <1>1, <1>2, <1>4, <2>1, GotoTyped DEF Places
<1>5. CASE NextStep(t)
  BY <1>1, <1>5, NextStepTyped
<1>6. CASE Pause(t, turns[t].call)
  BY <1>1, <1>3, <1>6, PauseTyped
<1>7. Goto(t, "exec") \/ NextStep(t) \/ Pause(t, turns[t].call)
  BY DEF Gate
<1> QED BY <1>4, <1>5, <1>6, <1>7

LEMMA OtherToolTyped ==
    ASSUME ApprovalInv, TypedInv, harness' = harness, NEW t \in Turns, OtherTool(t) \/ Execute(t)
    PROVE  TypedInv'
<1>1. turns[t].pc \in {"gate", "exec"} /\ (NextStep(t) \/ End(t))
      /\ UNCHANGED <<harness, transcript, approvals, grants, questions>>
  BY DEF OtherTool, Execute, At
<1>2. TablesTyped' /\ Len(approvals) <= Len(approvals')
  BY <1>1, SameTables
<1> QED BY <1>1, <1>2, NextStepTyped, EndTyped

LEMMA StopTyped ==
    ASSUME ApprovalInv, TypedInv, harness' = harness, NEW t \in Turns,
           Finish(t) \/ DropPause(t) \/ Fail(t)
    PROVE  TypedInv'
<1>1. End(t) /\ UNCHANGED <<harness, transcript, approvals, grants, questions>>
  BY DEF Finish, DropPause, Fail
<1>2. TablesTyped' /\ Len(approvals) <= Len(approvals')
  BY <1>1, SameTables
<1> QED BY <1>1, <1>2, EndTyped

-----------------------------------------------------------------------------
(* Approvals *)

\* The row of a pause.
LEMMA OpenIsRow ==
    ASSUME TypedInv, NEW t \in Turns, turns[t].pc = "pause"
    PROVE  Open(t) \in Row
<1> DEFINE x == turns[t]
           key == IF x.call.strict THEN StrictKey(x.call.command)
                  ELSE Evaluate(PolicyOf[x.session], x.call.command).key
<1>1. x.session \in Sessions /\ x.text \in Texts \cup {NoText} /\ x.call \in Call
  BY UnderWay DEF TurnWith, Sound
<1>2. key \in Keys
  <2>1. StrictKey(x.call.command) \in Keys
    BY DEF StrictKey, Keys
  <2>2. PolicyOf[x.session] \in Policy
    BY <1>1, TurnsAssumption
  <2> QED BY <2>1, <2>2, VerdictHasKey
<1>3. Open(t) = [session |-> x.session, call |-> x.call, key |-> key,
                 state |-> "open", by |-> "", scope |-> "", question |-> x.text]
  BY DEF Open
<1>4. \A s \in Sessions, call \in Call, k \in Keys, text \in Texts \cup {NoText} :
          [session |-> s, call |-> call, key |-> k,
           state |-> "open", by |-> "", scope |-> "", question |-> text] \in Row
  BY DEF Row
<1> HIDE DEF key
<1> QED BY <1>1, <1>2, <1>3, <1>4

LEMMA CreateRowTyped ==
    ASSUME ApprovalInv, TypedInv, harness' = harness, NEW t \in Turns, CreateRow(t)
    PROVE  TypedInv'
<1> DEFINE request == Len(approvals) + 1
           row == [turns[t] EXCEPT !.pc = "announce", !.request = request]
           open == Open(t)
<1>1. turns' = [turns EXCEPT ![t] = row] /\ turns[t].pc = "pause"
      /\ approvals' = Append(approvals, open) /\ UNCHANGED <<harness, transcript, grants, questions>>
  BY TurnNow DEF CreateRow, At
<1>2. open \in Row
  BY <1>1, OpenIsRow
<1> HIDE DEF open
<1>3. approvals \in Seq(Row) /\ Len(approvals) \in Nat
  BY DEF TypedInv, TablesTyped
<1>4. approvals' \in Seq(Row) /\ Len(approvals') = request /\ request \in Nat
  BY <1>1, <1>2, <1>3
<1>5. Len(approvals) <= Len(approvals') /\ 0..Len(approvals) \subseteq 0..Len(approvals')
      /\ request \in 0..Len(approvals')
  BY <1>3, <1>4
<1>6. TablesTyped'
  <2>1. EntryWith(Len(approvals)) \subseteq EntryWith(Len(approvals'))
    BY <1>5 DEF EntryWith
  <2>2. transcript \in [Sessions -> Seq(EntryWith(Len(approvals)))]
    BY DEF TypedInv, TablesTyped
  <2>3. transcript' \in [Sessions -> Seq(EntryWith(Len(approvals')))]
    <3> DEFINE A == EntryWith(Len(approvals))
               B == EntryWith(Len(approvals'))
    <3> HIDE DEF A, B
    <3>1. A \subseteq B /\ transcript \in [Sessions -> Seq(A)]
      BY <2>1, <2>2 DEF A, B
    <3>2. \A s \in Sessions : transcript[s] \in Seq(B)
      BY <3>1
    <3>3. transcript \in [Sessions -> Seq(B)]
      BY <3>1, <3>2
    <3> QED BY <1>1, <3>3 DEF B
  <2> QED BY <1>1, <1>4, <2>3 DEF TypedInv, TablesTyped
<1> HIDE DEF request
<1>7. row \in TurnWith(Len(approvals')) /\ row.pc = "announce"
  <2>1. turns[t] \in TurnWith(Len(approvals))
    BY <1>1, UnderWay
  <2> QED BY <1>5, <2>1 DEF TurnWith, Places
<1> HIDE DEF row
<1>8. Sound(row)
  BY <1>7 DEF Sound
<1> QED BY <1>1, <1>5, <1>6, <1>7, <1>8, OneTurnTyped DEF TypedTurn

LEMMA AnnounceTyped ==
    ASSUME ApprovalInv, TypedInv, harness' = harness, NEW t \in Turns, Announce(t)
    PROVE  TypedInv'
<1>1. turns[t].pc = "announce" /\ Write(turns[t].session, Entry("request", NoText, turns[t].request))
      /\ End(t) /\ UNCHANGED <<harness, approvals, grants, questions>>
  BY DEF Announce, At
<1>2. turns[t].session \in Sessions /\ turns[t].request \in 0..Len(approvals)
  BY <1>1, UnderWay DEF TurnWith
<1>3. Entry("request", NoText, turns[t].request) \in EntryWith(Len(approvals))
  BY <1>2 DEF Entry, EntryWith, EntryKinds
<1>4. TablesTyped' /\ Len(approvals) <= Len(approvals')
  BY <1>1, <1>2, <1>3, WriteTyped
<1> QED BY <1>1, <1>4, EndTyped

LEMMA DecideTyped ==
    ASSUME ApprovalInv, TypedInv, harness' = harness, NEW t \in Turns, NEW s \in Sessions,
           NEW actor \in Actors, NEW r \in Request, NEW decision \in Resolutions,
           Decide(t, s, actor, r, decision)
    PROVE  TypedInv'
<1> DEFINE row == [TurnRequest(s, actor, NoText) EXCEPT
                      !.pc = "resolve", !.request = r, !.decision = decision]
<1>1. turns' = [turns EXCEPT ![t] = row]
      /\ UNCHANGED <<harness, transcript, approvals, grants, questions>>
  BY DEF Decide
<1>2. Len(approvals) \in Nat
  BY DEF TypedInv, TablesTyped
<1>3. r \in 0..Len(approvals) /\ 0 \in 0..MaxSteps /\ <<>> \in Seq(Tools)
  BY <1>2, TurnsAssumption DEF Request
<1>4. decision \in Given
  BY DEF Resolutions, ParseScope, ScopeWords, Given
<1>5. row \in TurnWith(Len(approvals)) /\ row.pc = "resolve" /\ row.decision = decision
  BY <1>3, <1>4 DEF TurnRequest, NoTurn, TurnWith, Places, Given
<1> HIDE DEF row
<1>6. Sound(row)
  BY <1>5 DEF Sound
<1> QED BY <1>1, <1>5, <1>6, RowTyped

LEMMA ResolveTyped ==
    ASSUME ApprovalInv, TypedInv, harness' = harness, NEW t \in Turns, Resolve(t)
    PROVE  TypedInv'
<1> DEFINE x == turns[t]
           r == x.request
           resolved == Resolution(x)
<1>1. x.pc = "resolve" /\ UNCHANGED <<harness, transcript, grants, questions>>
  BY DEF Resolve, At
<1>2. x \in TurnWith(Len(approvals)) /\ x.decision \in Resolutions /\ Len(approvals) \in Nat
  BY <1>1, UnderWay DEF Sound
<1>3. approvals \in Seq(Row)
  BY DEF TypedInv, TablesTyped
<1>4. CASE approvals[r].state # "open"
  <2>1. End(t) /\ approvals' = approvals
    BY <1>4 DEF Resolve
  <2>2. TablesTyped' /\ Len(approvals) <= Len(approvals')
    BY <1>1, <2>1, SameTables
  <2> QED BY <2>1, <2>2, EndTyped
<1>5. CASE approvals[r].state = "open"
  <2>1. approvals' = [approvals EXCEPT ![r] = resolved] /\ Goto(t, "note")
    BY <1>5 DEF Resolve
  <2>2. r \in DOMAIN approvals
    BY <1>1, TurnNow DEF TurnOK
  <2>3. approvals[r] \in Row
    BY <1>3, <2>2
  <2>4. resolved \in Row
    <3>1. x.decision \in {"decline", "once", "session", "always"}
      BY <1>2 DEF Resolutions, ParseScope, ScopeWords
    <3>2. x.actor \in Actors
      BY <1>2 DEF TurnWith
    <3> QED BY <2>3, <3>1, <3>2 DEF Resolution, Row
  <2> HIDE DEF resolved
  <2>5. approvals' \in Seq(Row) /\ Len(approvals') = Len(approvals)
    BY <1>3, <2>1, <2>2, <2>4
  <2>6. TablesTyped' /\ Len(approvals) <= Len(approvals')
    <3>1. Len(approvals) <= Len(approvals')
      BY <1>2, <2>5
    <3> QED BY <1>1, <2>5, <3>1 DEF TypedInv, TablesTyped
  <2>7. Sound([turns[t] EXCEPT !.pc = "note"])
    BY <1>2, TurnNow DEF Sound
  <2> QED BY <1>1, <2>1, <2>6, <2>7, GotoTyped DEF Places
<1> QED BY <1>4, <1>5

LEMMA NoteTyped ==
    ASSUME ApprovalInv, TypedInv, harness' = harness, NEW t \in Turns, Note(t)
    PROVE  TypedInv'
<1>1. turns[t].pc = "note" /\ Write(turns[t].session, Entry("resolved", NoText, turns[t].request))
      /\ UNCHANGED <<harness, approvals, grants, questions>>
  BY DEF Note, At
<1>2. turns[t].session \in Sessions /\ turns[t].request \in 0..Len(approvals)
      /\ turns[t].decision \in Resolutions
  BY <1>1, UnderWay DEF TurnWith, Sound
<1>3. Entry("resolved", NoText, turns[t].request) \in EntryWith(Len(approvals))
  BY <1>2 DEF Entry, EntryWith, EntryKinds
<1>4. TablesTyped' /\ Len(approvals) <= Len(approvals')
  BY <1>1, <1>2, <1>3, WriteTyped
<1>5. CASE turns[t].decision = "decline"
  BY <1>4, <1>5, EndTyped DEF Note
<1>6. CASE turns[t].decision = "once"
  <2>1. Sound([turns[t] EXCEPT !.pc = "recall"])
    BY TurnNow DEF Sound
  <2>2. Goto(t, "recall")
    BY <1>6 DEF Note
  <2> QED BY <1>1, <1>4, <2>1, <2>2, GotoTyped DEF Places
<1>7. CASE turns[t].decision \notin {"decline", "once"}
  <2>1. turns[t].decision \in {"session", "always"}
    BY <1>2, <1>7 DEF Resolutions, ParseScope, ScopeWords
  <2>2. Sound([turns[t] EXCEPT !.pc = "grant"])
    BY <2>1, TurnNow DEF Sound
  <2>3. Goto(t, "grant")
    BY <1>7 DEF Note
  <2> QED BY <1>1, <1>4, <2>2, <2>3, GotoTyped DEF Places
<1> QED BY <1>5, <1>6, <1>7

\* The row a turn goes on from.
LEMMA RowBehind ==
    ASSUME ApprovalInv, TypedInv, NEW t \in Turns, turns[t].pc \in {"grant", "recall"}
    PROVE  approvals[turns[t].request] \in Row
<1>1. turns[t].request \in DOMAIN approvals
  BY TurnNow DEF TurnOK, ApprovedRow, DecidedRow
<1>2. approvals \in Seq(Row)
  BY DEF TypedInv, TablesTyped
<1> QED BY <1>1, <1>2

LEMMA GrantTyped ==
    ASSUME ApprovalInv, TypedInv, harness' = harness, NEW t \in Turns, Grant(t)
    PROVE  TypedInv'
<1> DEFINE x == turns[t]
           grant == [actor |-> x.actor, key |-> approvals[x.request].key, scope |-> x.decision,
                     session |-> IF x.decision = "session" THEN x.session ELSE ""]
<1>1. x.pc = "grant" /\ grants' = grants \cup {grant} /\ Goto(t, "recall")
      /\ UNCHANGED <<harness, transcript, approvals, questions>>
  BY DEF Grant, At
<1>2. x.actor \in Actors /\ x.session \in Sessions /\ x.decision \in {"session", "always"}
  BY <1>1, UnderWay DEF TurnWith, Sound
<1>3. approvals[x.request].key \in Keys
  BY <1>1, RowBehind DEF Row
<1>4. grant \in GrantRow
  BY <1>2, <1>3 DEF GrantRow
<1> HIDE DEF grant
<1>5. TablesTyped' /\ Len(approvals) <= Len(approvals')
  BY <1>1, <1>4 DEF TypedInv, TablesTyped
<1>6. Sound([turns[t] EXCEPT !.pc = "recall"])
  BY TurnNow DEF Sound
<1> QED BY <1>1, <1>5, <1>6, GotoTyped DEF Places

\* The last question of a transcript is a text somebody asked, or none.
LEMMA QuestionIsText ==
    ASSUME NEW len, NEW entries \in Seq(EntryWith(len))
    PROVE  LastQuestion(entries) \in Texts \cup {NoText}
<1> DEFINE asked == UserEntries(entries)
<1>1. PICK k \in Nat : DOMAIN entries = 1..k
  OBVIOUS
<1>2. asked \in SUBSET (1..k)
  BY <1>1 DEF UserEntries
<1>3. CASE asked = {}
  BY <1>3 DEF LastQuestion
<1>4. CASE asked # {}
  <2>1. \E i \in asked : \A j \in asked : j <= i
    <3> HIDE DEF asked
    <3> QED BY <1>2, <1>4, GreatestElement
  <2> DEFINE last == CHOOSE i \in asked : \A j \in asked : j <= i
  <2>2. last \in asked
    BY <2>1
  <2>3. LastQuestion(entries) = entries[last].text
    BY <1>4 DEF LastQuestion
  <2> HIDE DEF last, asked
  <2>4. last \in DOMAIN entries
    BY <1>1, <1>2, <2>2
  <2>5. entries[last] \in EntryWith(len)
    BY <2>4
  <2> QED BY <2>3, <2>5 DEF EntryWith
<1> QED BY <1>3, <1>4

LEMMA RecallTyped ==
    ASSUME ApprovalInv, TypedInv, harness' = harness, NEW t \in Turns, Recall(t)
    PROVE  TypedInv'
<1> DEFINE x == turns[t]
           original == LastQuestion(transcript[x.session])
           todo == Script(original)
           approved == approvals[x.request].call
           row == [x EXCEPT !.pc = "run", !.approved = approved, !.text = original, !.todo = todo]
<1>1. x.pc = "recall" /\ turns' = [turns EXCEPT ![t] = row]
      /\ UNCHANGED <<harness, transcript, approvals, grants, questions>>
  BY DEF Recall, At
<1>2. x \in TurnWith(Len(approvals))
  BY <1>1, UnderWay
<1>3. approved \in Call
  BY <1>1, RowBehind DEF Row
<1>4. original \in Texts \cup {NoText}
  <2>1. transcript[x.session] \in Seq(EntryWith(Len(approvals)))
    BY <1>2 DEF TurnWith, TypedInv, TablesTyped
  <2> QED BY <2>1, QuestionIsText
<1> HIDE DEF original, approved
<1>5. todo \in Seq(Tools)
  BY <1>4, ScriptIsTyped
<1> HIDE DEF todo
<1>6. row \in TurnWith(Len(approvals)) /\ row.pc = "run"
  BY <1>2, <1>3, <1>4, <1>5 DEF TurnWith, Places
<1> HIDE DEF row
<1>7. Sound(row)
  BY <1>6 DEF Sound
<1> QED BY <1>1, <1>6, <1>7, RowTyped

-----------------------------------------------------------------------------
(* Together *)

LEMMA InitTyped == Init => TypedInv
<1> SUFFICES ASSUME Init PROVE TypedInv
  OBVIOUS
<1>1. approvals \in Seq(Row) /\ Len(approvals) = 0
  BY DEF Init
<1>2. transcript \in [Sessions -> Seq(EntryWith(Len(approvals)))]
  <2>1. <<>> \in Seq(EntryWith(Len(approvals)))
    OBVIOUS
  <2> QED BY <2>1 DEF Init
<1>3. TablesTyped
  BY <1>1, <1>2, TurnsAssumption DEF Init, TablesTyped
<1>4. turns \in [Turns -> {NoTurn}] /\ \A t \in Turns : turns[t] = NoTurn
  BY DEF Init
<1> QED BY <1>3, <1>4 DEF TypedInv, TypedTurn

LEMMA BeginTyped ==
    ASSUME ApprovalInv, TypedInv, harness' = harness, NEW t \in Turns, Begin(t)
    PROVE  TypedInv'
<1>1. PICK s \in Sessions :
          \/ \E actor \in Actors : SendMessage(t, s, actor) \/ ResolveApproval(t, s, actor)
          \/ \E user \in Actors \cup Admins : ApiTurn(t, s, user)
  BY DEF Begin
<1>2. PICK actor \in Actors :
          \/ \E text \in Texts \ {NoText} : Ask(t, s, actor, text)
          \/ \E r \in Request, decision \in Resolutions : Decide(t, s, actor, r, decision)
  BY <1>1 DEF SendMessage, ResolveApproval, ApiTurn
<1> QED BY <1>2, AskTyped, DecideTyped

LEMMA NextTyped == ApprovalInv /\ TypedInv /\ [Next]_vars => TypedInv'
<1> SUFFICES ASSUME ApprovalInv, TypedInv, [Next]_vars PROVE TypedInv'
  OBVIOUS
<1>1. CASE UNCHANGED vars
  BY <1>1 DEF vars, TypedInv, TablesTyped, TypedTurn, TurnWith, Sound
<1>2. CASE Next
  <2>1. PICK t \in Turns : Begin(t) \/ Continue(t) \/ Fail(t)
    BY <1>2 DEF Next
  <2>2. harness' = harness
    BY <1>2 DEF Next
  <2>3. CASE Begin(t)
    BY <2>2, <2>3, BeginTyped
  <2>4. CASE Continue(t)
    BY <2>2, <2>4, ScreenTyped, RecordQuestionTyped, CompleteTyped, ServeCallTyped,
       RefuseArgumentsTyped, MockCallTyped, GateTyped, OtherToolTyped, StopTyped,
       CreateRowTyped, AnnounceTyped, ResolveTyped, NoteTyped, GrantTyped, RecallTyped
       DEF Continue
  <2>5. CASE Fail(t)
    BY <2>2, <2>5, StopTyped
  <2> QED BY <2>1, <2>3, <2>4, <2>5
<1> QED BY <1>1, <1>2

\* A turn never counts more steps than [harness].max_steps, whatever either
\* harness makes of a reply or of a text; what a turn asks about, runs or resumes
\* is a call of a tool, and its row has the key of its policy; a standing grant
\* has one of the two standing scopes; entries name rows that are there.
THEOREM TurnsTypeCorrect == Spec => []TypeOK
<1>1. ApprovalInv /\ TypedInv => TypeOK
  <2> SUFFICES ASSUME ApprovalInv, TypedInv PROVE TypeOK
    OBVIOUS
  <2>1. EntryWith(Len(approvals)) = EntryType /\ TurnWith(Len(approvals)) = Turn
    BY DEF EntryWith, EntryType, TurnWith, Turn, Places, Given
  <2>2. turns \in [Turns -> Turn \cup {NoTurn}]
    <3>1. \E A : turns \in [Turns -> A]
      BY DEF TypedInv
    <3>2. \A t \in Turns : turns[t] \in Turn \cup {NoTurn}
      BY <2>1 DEF TypedInv, TypedTurn
    <3> QED BY <3>1, <3>2
  <2> QED BY <2>1, <2>2 DEF TypedInv, TablesTyped, TypeOK, GrantRow
<1> QED BY <1>1, InitTyped, NextTyped, ApprovalInvariant, PTL DEF Spec
=============================================================================
