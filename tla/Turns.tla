-------------------------------- MODULE Turns --------------------------------
(***************************************************************************)
(* A turn from the request to the reply: the pages and the API that start   *)
(* one, orchestrator.rs, the loops of harness/openai.rs and harness/mock.rs, *)
(* the `execute` gate of tools.rs, and the approval rows of store/misc.rs.  *)
(*                                                                          *)
(* Nothing locks a session: two requests on one thread run as two turns,    *)
(* and every await, store call and model call lets the other one in.  Each  *)
(* action below ends at such a point.  Behind the gateway the language model *)
(* is free to call any tool, in any order, at every step; the mock harness  *)
(* calls what the lines of the question spell.                              *)
(*                                                                          *)
(* Of a transcript, the model keeps the questions, which turns read back,   *)
(* and the entries about approvals.  The others (calls, results, answers,   *)
(* refusals) only feed the language model, whose choices are free anyway;   *)
(* titles, audit rows and broadcast events are read by no turn.  The tools  *)
(* other than `execute` have no gate of their own beyond the strict         *)
(* posture: "read" stands for all of them that give the model an output.    *)
(***************************************************************************)
EXTENDS CommandPolicy, FiniteSets, SequencesExt

CONSTANTS
    Sessions,       \* threads; one nobody has used has no entry yet
    Actors,
    Admins,         \* who may run a turn as another principal
    Texts,          \* what people ask
    LinesOf,        \* LinesOf[text]: its lines
    Harnesses,      \* the harnesses the process may have been started with
    Turns,          \* requests handled at the same time
    Posture,        \* Posture[s]: "dangerous", "auto" or "strict"
    PolicyOf,       \* PolicyOf[s]: the composed policy of the session's scope
    MaxSteps,       \* [harness].max_steps
    Offered,        \* bound: the tools the gateway calls
    MaxCalls,       \* bound: tool calls of one of its replies
    MaxQuestions,   \* bound: turns that start from a text
    MayFail         \* bound: whether turns may fail half-way

Postures == {"dangerous", "auto", "strict"}

\* A tool and its argument: a command is the argument of `execute`.
Tools == Commands \cup {"read", "finish_silently"}

\* A line of a text: the word behind its "!" and what stands behind that, which is
\* a command where the word is `exec`.
Verbs == {"exec", "read", "remember", "recall", "silent", "write", "tool", ""}
AnyLine == {line \in [verb : Verbs, argument : Tools \cup {""}] :
               line.verb = "exec" => line.argument \in Commands}

ASSUME TurnsAssumption ==
    /\ Commands \cap {"none", "read", "finish_silently"} = {}
    /\ Harnesses \subseteq {"openai", "mock"}
    /\ Offered \subseteq Tools
    /\ \A text \in Texts : LinesOf[text] \in Seq(AnyLine)
    /\ MaxCalls \in Nat
    /\ Posture \in [Sessions -> Postures]
    /\ PolicyOf \in [Sessions -> Policy]
    /\ MaxSteps \in Nat
    /\ MaxQuestions \in Nat
    /\ MayFail \in BOOLEAN

VARIABLES
    harness,      \* the harness this process runs
    transcript,   \* transcript[s]: the rows of session_entries, by seq
    approvals,    \* the rows of pending_approvals, in the order of insertion
    grants,       \* the rows of command_approval_grants
    turns,        \* turns[t]: where a request is
    questions     \* turns started from a text so far
vars == <<harness, transcript, approvals, grants, turns, questions>>

-----------------------------------------------------------------------------
(* Values *)

\* What a tool call asks to run.  In the strict posture the row of a pause
\* holds the tool and its arguments, which is never the text of a command.
Call == [command : Tools, strict : BOOLEAN]
NoCall == [command |-> "none", strict |-> FALSE]

NoText == ""
EntryKinds == {"user", "request", "resolved"}
Request == 1..Len(approvals)

Entry(kind, text, request) == [kind |-> kind, text |-> text, request |-> request]
Write(s, entry) == transcript' = [transcript EXCEPT ![s] = Append(@, entry)]

\* `recent_history` returns the last 200 entries: in the model, all of them.
UserEntries(entries) == {i \in DOMAIN entries : entries[i].kind = "user"}

\* The last user entry of the recent history; no text when there is none.
LastQuestion(entries) ==
    IF UserEntries(entries) = {} THEN NoText
    ELSE entries[CHOOSE i \in UserEntries(entries) :
                     \A j \in UserEntries(entries) : j <= i].text

\* "tool:execute" and the like, the approval key of a pause in the strict posture.
StrictKey(command) ==
    [index |-> IF command \in Commands THEN -2 ELSE IF command = "read" THEN -3 ELSE -4,
     pattern |-> {}]

\* The calls that one line of a text spells to the mock harness: at most one.
\* `write` and `tool` take two words, and the second of `tool` is JSON: the
\* argument of such a line is the call they spell, or "" when they do not.
Spells(line) ==
    CASE line.verb = "exec" -> <<line.argument>>
      [] line.verb \in {"read", "remember", "recall"} -> <<"read">>
      [] line.verb = "silent" -> <<"finish_silently">>
      [] line.verb \in {"write", "tool"} /\ line.argument # "" -> <<line.argument>>
      [] OTHER -> <<>>

\* What a turn on a text has to do from the start: the gateway has not said.
Directives == [text \in Texts |->
    FlattenSeq([i \in DOMAIN LinesOf[text] |-> Spells(LinesOf[text][i])])]
Script(text) == IF harness = "mock" /\ text # NoText THEN Directives[text] ELSE <<>>

\* Mutant of Granted: a session grant is looked up without its session.
GrantedAnywhere(actor, key, s) == \E g \in grants : g.actor = actor /\ g.key = key

\* `is_granted`
Granted(actor, key, s) ==
    \/ [actor |-> actor, key |-> key, scope |-> "always", session |-> ""] \in grants
    \/ [actor |-> actor, key |-> key, scope |-> "session", session |-> s] \in grants

NoTurn == [pc |-> "idle", session |-> "", actor |-> "", text |-> NoText, approved |-> NoCall,
           request |-> 0, decision |-> "", every |-> FALSE, steps |-> 0, todo |-> <<>>,
           call |-> NoCall]
At(t, pc) == turns[t].pc = pc
Goto(t, pc) == turns' = [turns EXCEPT ![t].pc = pc]
NextStep(t) == turns' = [turns EXCEPT ![t].pc = "run", ![t].call = NoCall]
\* The harness returns: the rest of the reply is dropped.
Pause(t, call) == turns' = [turns EXCEPT ![t].pc = "pause", ![t].call = call, ![t].todo = <<>>]
End(t) == turns' = [turns EXCEPT ![t] = NoTurn]

\* A request, as every surface builds it for the orchestrator.
TurnRequest(s, actor, text) ==
    [NoTurn EXCEPT !.session = s, !.actor = actor, !.text = text]

-----------------------------------------------------------------------------
(* `handle_turn` with a text *)

\* `resolve_security_policy`: what a posture asks of a turn.
SecurityPolicy(posture) ==
    [screensInput |-> posture = "auto", asksForEveryTool |-> posture = "strict"]

\* Mutant of Ask: the posture of the scope is not looked at.
AskLax(t, s, actor, text) ==
    /\ At(t, "idle")
    /\ questions < MaxQuestions
    /\ questions' = questions + 1
    /\ turns' = [turns EXCEPT ![t] = [TurnRequest(s, actor, text) EXCEPT !.pc = "record"]]
    /\ UNCHANGED <<transcript, approvals, grants>>

Ask(t, s, actor, text) ==
    LET policy == SecurityPolicy(Posture[s]) IN
    /\ At(t, "idle")
    /\ questions < MaxQuestions
    /\ questions' = questions + 1
    /\ turns' = [turns EXCEPT ![t] = [TurnRequest(s, actor, text) EXCEPT
          !.pc = IF policy.screensInput THEN "screen" ELSE "record",
          !.every = policy.asksForEveryTool]]
    /\ UNCHANGED <<transcript, approvals, grants>>

\* The screener quarantines the input, or lets it (or an unscreened one) pass.
Screen(t) ==
    /\ At(t, "screen")
    /\ End(t) \/ Goto(t, "record")
    /\ UNCHANGED <<transcript, approvals, grants, questions>>

\* The question is on the transcript; the history read next only feeds the model.
RecordQuestion(t) ==
    /\ At(t, "record")
    /\ Write(turns[t].session, Entry("user", turns[t].text, 0))
    /\ turns' = [turns EXCEPT ![t].pc = "run", ![t].todo = Script(turns[t].text)]
    /\ UNCHANGED <<approvals, grants, questions>>

-----------------------------------------------------------------------------
(* The loops of the harnesses *)

\* What the gateway may ask for in one reply.
Replies == UNION {[1..n -> Offered] : n \in 1..MaxCalls}

\* Mutant of Complete: the step is not counted.
CompleteUncounted(t) ==
    /\ harness = "openai"
    /\ At(t, "run")
    /\ turns[t].todo = <<>>
    /\ turns[t].steps < MaxSteps
    /\ \E calls \in Replies : turns' = [turns EXCEPT ![t].todo = calls]
    /\ UNCHANGED <<transcript, approvals, grants, questions>>

\* The gateway completes the conversation with a reply that calls tools.
Complete(t) ==
    /\ harness = "openai"
    /\ At(t, "run")
    /\ turns[t].todo = <<>>
    /\ turns[t].steps < MaxSteps
    /\ \E calls \in Replies :
          turns' = [turns EXCEPT ![t].steps = @ + 1, ![t].todo = calls]
    /\ UNCHANGED <<transcript, approvals, grants, questions>>

Called(x) == [command |-> Head(x.todo), strict |-> x.every]

\* The next call of the reply; the strict posture pauses before it runs.
ServeCall(t) ==
    LET x == turns[t] IN
    /\ harness = "openai"
    /\ At(t, "run")
    /\ x.todo # <<>>
    /\ IF x.every THEN Pause(t, Called(x))
       ELSE turns' = [turns EXCEPT ![t].todo = Tail(@), ![t].call = Called(x), ![t].pc = "gate"]
    /\ UNCHANGED <<transcript, approvals, grants, questions>>

\* The model is told that the arguments of its call were not valid JSON.
RefuseArguments(t) ==
    /\ harness = "openai"
    /\ At(t, "run")
    /\ turns[t].todo # <<>>
    /\ turns' = [turns EXCEPT ![t].todo = Tail(@)]
    /\ UNCHANGED <<transcript, approvals, grants, questions>>

\* The mock harness counts every directive as a step.
MockCall(t) ==
    LET x == turns[t] IN
    /\ harness = "mock"
    /\ At(t, "run")
    /\ x.todo # <<>>
    /\ x.steps < MaxSteps
    /\ IF x.every THEN Pause(t, Called(x))
       ELSE turns' = [turns EXCEPT ![t].steps = @ + 1, ![t].todo = Tail(@),
                                   ![t].call = Called(x), ![t].pc = "gate"]
    /\ UNCHANGED <<transcript, approvals, grants, questions>>

\* The command the human just approved.
Approved(x) == x.approved = x.call

\* `execute`, up to the sandbox: the approved command, the policy, the grants.
Gate(t) ==
    LET x == turns[t]
        verdict == Evaluate(PolicyOf[x.session], x.call.command)
        asks == verdict.decision = "require_approval"
        granted == Granted(x.actor, verdict.key, x.session)
    IN
    /\ At(t, "gate")
    /\ x.call.command \in Commands
    /\ \/ Approved(x) /\ Goto(t, "exec")
       \/ ~Approved(x) /\ verdict.decision = "deny" /\ NextStep(t)
       \/ ~Approved(x) /\ asks /\ ~granted /\ Pause(t, x.call)
       \/ ~Approved(x) /\ (verdict.decision = "allow" \/ (asks /\ granted)) /\ Goto(t, "exec")
    /\ UNCHANGED <<transcript, approvals, grants, questions>>

\* The tools without a gate: an output for the model, or the end of the turn.
OtherTool(t) ==
    /\ At(t, "gate")
    /\ \/ turns[t].call.command = "read" /\ NextStep(t)
       \/ turns[t].call.command = "finish_silently" /\ End(t)
    /\ UNCHANGED <<transcript, approvals, grants, questions>>

\* The sandbox runs the command and the model reads its output.
Execute(t) ==
    /\ At(t, "exec")
    /\ NextStep(t)
    /\ UNCHANGED <<transcript, approvals, grants, questions>>

\* The model answers, or the step limit ends the turn: that of the gateway
\* after a whole reply, that of the mock harness between two directives.
Finish(t) ==
    /\ At(t, "run")
    /\ turns[t].todo = <<>> \/ (harness = "mock" /\ turns[t].steps = MaxSteps)
    /\ End(t)
    /\ UNCHANGED <<transcript, approvals, grants, questions>>

-----------------------------------------------------------------------------
(* Pauses *)

\* The row of a pause.  `question` is history: the turn the pause interrupts.
Open(t) ==
    [session |-> turns[t].session, call |-> turns[t].call,
     key |-> IF turns[t].call.strict THEN StrictKey(turns[t].call.command)
             ELSE Evaluate(PolicyOf[turns[t].session], turns[t].call.command).key,
     state |-> "open", by |-> "", scope |-> "", question |-> turns[t].text]

\* Mutant of CreateRow: the pause is announced and the row never written.
CreateRowForgotten(t) ==
    /\ At(t, "pause")
    /\ turns[t].request = 0
    /\ turns' = [turns EXCEPT ![t].pc = "announce", ![t].request = Len(approvals) + 1]
    /\ UNCHANGED <<transcript, approvals, grants, questions>>

\* `approvals.create`
CreateRow(t) ==
    /\ At(t, "pause")
    /\ turns[t].request = 0
    /\ approvals' = Append(approvals, Open(t))
    /\ turns' = [turns EXCEPT ![t].pc = "announce", ![t].request = Len(approvals) + 1]
    /\ UNCHANGED <<transcript, grants, questions>>

Announce(t) ==
    /\ At(t, "announce")
    /\ Write(turns[t].session, Entry("request", NoText, turns[t].request))
    /\ End(t)
    /\ UNCHANGED <<approvals, grants, questions>>

\* `resume_after_approval` never looks at the pause of the turn it re-ran.
DropPause(t) ==
    /\ At(t, "pause")
    /\ turns[t].request # 0
    /\ End(t)
    /\ UNCHANGED <<transcript, approvals, grants, questions>>

-----------------------------------------------------------------------------
(* `handle_turn` with a decision *)

\* The row is read and must be of this session.
Decide(t, s, actor, r, decision) ==
    /\ At(t, "idle")
    /\ approvals[r].session = s
    /\ turns' = [turns EXCEPT ![t] = [TurnRequest(s, actor, NoText) EXCEPT
          !.pc = "resolve", !.request = r, !.decision = decision]]
    /\ UNCHANGED <<transcript, approvals, grants, questions>>

Resolution(x) ==
    [approvals[x.request] EXCEPT
        !.state = IF x.decision = "decline" THEN "declined" ELSE "approved",
        !.by = x.actor, !.scope = x.decision]

\* Mutant of Resolve: an UPDATE without `resolved_at IS NULL`.
ResolveAlways(t) ==
    LET x == turns[t] IN
    /\ At(t, "resolve")
    /\ approvals' = [approvals EXCEPT ![x.request] = Resolution(x)]
    /\ Goto(t, "note")
    /\ UNCHANGED <<transcript, grants, questions>>

\* The conditional UPDATE of `resolve`; who decided is in the audit log.
Resolve(t) ==
    LET x == turns[t] IN
    /\ At(t, "resolve")
    /\ IF approvals[x.request].state = "open"
       THEN /\ approvals' = [approvals EXCEPT ![x.request] = Resolution(x)]
            /\ Goto(t, "note")
       ELSE End(t) /\ UNCHANGED approvals
    /\ UNCHANGED <<transcript, grants, questions>>

\* The decision goes on the transcript; one to decline ends the turn there.
Note(t) ==
    /\ At(t, "note")
    /\ Write(turns[t].session, Entry("resolved", NoText, turns[t].request))
    /\ CASE turns[t].decision = "decline" -> End(t)
         [] turns[t].decision = "once" -> Goto(t, "recall")
         [] OTHER -> Goto(t, "grant")
    /\ UNCHANGED <<approvals, grants, questions>>

\* A standing grant, of the actor who approved.
Grant(t) ==
    LET x == turns[t] IN
    /\ At(t, "grant")
    /\ grants' = grants \cup {[actor |-> x.actor, key |-> approvals[x.request].key,
                               scope |-> x.decision,
                               session |-> IF x.decision = "session" THEN x.session ELSE ""]}
    /\ Goto(t, "recall")
    /\ UNCHANGED <<transcript, approvals, questions>>

\* The original question is the last user entry, and no tool asks any more.
Recall(t) ==
    LET x == turns[t]
        original == LastQuestion(transcript[x.session])
    IN
    /\ At(t, "recall")
    /\ turns' = [turns EXCEPT ![t].pc = "run", ![t].approved = approvals[x.request].call,
                              ![t].text = original, ![t].todo = Script(original)]
    /\ UNCHANGED <<transcript, approvals, grants, questions>>

\* The process dies, or a store or model call fails: the turn stops where it is.
Fail(t) ==
    /\ MayFail
    /\ ~At(t, "idle")
    /\ End(t)
    /\ UNCHANGED <<transcript, approvals, grants, questions>>

-----------------------------------------------------------------------------
(* The surfaces that start a turn *)

\* The words of an approval form: any other word approves once.
ScopeWords == {"", "session", "always"}
ParseScope(word) == IF word \in {"session", "always"} THEN word ELSE "once"
Resolutions == {"decline"} \cup {ParseScope(word) : word \in ScopeWords}

\* The pages of a session; an empty message starts nothing.
SendMessage(t, s, actor) ==
    \E text \in Texts \ {NoText} : Ask(t, s, actor, text)
ResolveApproval(t, s, actor) ==
    \E r \in Request, decision \in Resolutions : Decide(t, s, actor, r, decision)

\* The API: as oneself, or as anybody when the caller is an admin.
ApiTurn(t, s, user) ==
    \E actor \in Actors :
        /\ actor = user \/ user \in Admins
        /\ \/ \E text \in Texts \ {NoText} : Ask(t, s, actor, text)
           \/ \E r \in Request, decision \in Resolutions : Decide(t, s, actor, r, decision)

Init ==
    /\ harness \in Harnesses
    /\ transcript = [s \in Sessions |-> <<>>]
    /\ approvals = <<>>
    /\ grants = {}
    /\ turns = [t \in Turns |-> NoTurn]
    /\ questions = 0

Begin(t) ==
    \E s \in Sessions :
        \/ \E actor \in Actors : SendMessage(t, s, actor) \/ ResolveApproval(t, s, actor)
        \/ \E user \in Actors \cup Admins : ApiTurn(t, s, user)

Continue(t) ==
    \/ Screen(t) \/ RecordQuestion(t)
    \/ Complete(t) \/ ServeCall(t) \/ RefuseArguments(t) \/ MockCall(t)
    \/ Gate(t) \/ OtherTool(t) \/ Execute(t) \/ Finish(t)
    \/ CreateRow(t) \/ Announce(t) \/ DropPause(t)
    \/ Resolve(t) \/ Note(t) \/ Grant(t) \/ Recall(t)

Next == (\E t \in Turns : Begin(t) \/ Continue(t) \/ Fail(t)) /\ UNCHANGED harness

Spec == Init /\ [][Next]_vars

\* Model, sandbox and store calls return: each has a timeout or is local.
Fairness == \A t \in Turns : WF_vars(Continue(t) /\ UNCHANGED harness)
FairSpec == Spec /\ Fairness

-----------------------------------------------------------------------------
(* Correctness *)

Keys == [index : Int, pattern : SUBSET Commands]
Row == [session : Sessions, call : Call, key : Keys, state : {"open", "approved", "declined"},
        by : Actors \cup {""}, scope : {"", "decline", "once", "session", "always"},
        question : Texts \cup {NoText}]
Turn == [pc : {"screen", "record", "run", "gate", "exec", "pause",
               "announce", "resolve", "note", "grant", "recall"},
         session : Sessions, actor : Actors, text : Texts \cup {NoText},
         approved : Call \cup {NoCall}, request : 0..Len(approvals),
         decision : {"", "decline", "once", "session", "always"}, every : BOOLEAN,
         steps : 0..MaxSteps, todo : Seq(Tools), call : Call \cup {NoCall}]
EntryType == [kind : EntryKinds, text : Texts \cup {NoText}, request : 0..Len(approvals)]

TypeOK ==
    /\ harness \in Harnesses
    /\ transcript \in [Sessions -> Seq(EntryType)]
    /\ approvals \in Seq(Row)
    /\ grants \subseteq [actor : Actors, key : Keys, scope : {"session", "always"},
                        session : Sessions \cup {""}]
    /\ turns \in [Turns -> Turn \cup {NoTurn}]
    /\ questions \in 0..MaxQuestions

\* An approval covers a run of the actor who gave it: of that command, in that
\* session; and of its whole class in the session, or in every session, when it
\* was given with that scope.
Covers(row, x) ==
    /\ row.state = "approved"
    /\ row.by = x.actor
    /\ \/ row.session = x.session /\ row.call = x.call
       \/ /\ row.key = Evaluate(PolicyOf[x.session], x.call.command).key
          /\ row.scope = "always" \/ (row.scope = "session" /\ row.session = x.session)

\* Whatever turns, decisions and grants interleave, the sandbox runs a command
\* that needs approval only when the person the turn runs for approved it, and
\* never one that a rule denies.
RunsAreAuthorised ==
    \A t \in Turns : At(t, "exec") =>
        LET x == turns[t]
            decision == Evaluate(PolicyOf[x.session], x.call.command).decision
        IN  /\ decision # "deny"
            /\ decision = "require_approval" => \E r \in Request : Covers(approvals[r], x)

\* In the strict posture nothing runs in a turn that no human approved.
StrictNeedsAHuman ==
    \A t \in Turns : At(t, "exec") /\ Posture[turns[t].session] = "strict" =>
        /\ turns[t].request # 0
        /\ approvals[turns[t].request].state = "approved"
        /\ approvals[turns[t].request].session = turns[t].session

\* A double-click cannot approve twice: one request resumes one turn.
Decided(t) == turns[t].pc \in {"note", "grant", "recall", "run", "gate", "exec"}
                 /\ turns[t].request # 0
OneResumption ==
    \A t, u \in Turns : Decided(t) /\ Decided(u) /\ t # u => turns[t].request # turns[u].request

\* What the transcript tells of an approval is in the rows: an entry that asks
\* names a row of its session, and one that resolves names a decided row and is
\* the only one to do so.
About(s, kind) == {i \in DOMAIN transcript[s] : transcript[s][i].kind = kind}
TranscriptMatchesRows ==
    \A s \in Sessions :
        /\ \A i \in About(s, "request") \cup About(s, "resolved") :
              /\ transcript[s][i].request \in Request
              /\ approvals[transcript[s][i].request].session = s
        /\ \A i \in About(s, "resolved") :
              /\ approvals[transcript[s][i].request].state # "open"
              /\ \A j \in About(s, "resolved") :
                    transcript[s][j].request = transcript[s][i].request => i = j

\* Every request is answered: the step limit ends a model that never stops
\* calling tools, and no turn waits for another.
TurnsEnd == \A t \in Turns : ~At(t, "idle") ~> At(t, "idle")

-----------------------------------------------------------------------------
(* What the documents say and the code does not do *)

\* "Re-run the turn the approval interrupted" (orchestrator.rs): the resumed
\* turn works on the question of the turn that paused.
ResumesItsQuestion ==
    \A t \in Turns : At(t, "run") /\ turns[t].request # 0 =>
        turns[t].text = approvals[turns[t].request].question
=============================================================================
