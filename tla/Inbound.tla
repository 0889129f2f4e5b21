------------------------------- MODULE Inbound -------------------------------
(***************************************************************************)
(* What both connectors do with a message once they have taken it: write    *)
(* down the sender and the channel, find the session, run the turn, and send *)
(* the reply in pieces.  A job is one call of handle_event (Slack) or handle *)
(* (Telegram); each step of a job ends at a store call or an await, where    *)
(* other jobs, an administrator or a crash come in.                          *)
(*                                                                          *)
(* A turn is one step that appends the message to its session and decides   *)
(* what is sent back: what happens inside is the matter of Turns.           *)
(***************************************************************************)
EXTENDS Directory, Sessions, SequencesExt

CONSTANTS
    Messages,      \* what people write: Telegram's are 1..n, in order
    Said,          \* Said[m]: a message, see Message below
    Configured,    \* accounts named in the configuration's principals
    ConfiguredAs,  \* ConfiguredAs[a]: the person the configuration names
    GuestOf,       \* GuestOf[a]: the guest id of an account, "slack:U1"
    DerivedOf,     \* DerivedOf[c]: the channel id of a conversation, "tg-5"
    AllowedChats,  \* the allowlist of conversations; {} allows all
    Workers,       \* tasks that handle messages
    Replies,       \* texts a turn may answer: the lengths of their lines
    MaxChars,      \* the longest message the platform takes
    Top            \* the root of a message that is in no thread

Message ==
    [account : Accounts, chat : Chats, private : BOOLEAN, addressed : BOOLEAN,
     root : Messages \cup {Top}, ours : BOOLEAN]

ASSUME InboundAssumption ==
    /\ Said \in [Messages -> Message]
    /\ ConfiguredAs \in [Configured -> People]
    /\ GuestOf \in [Accounts -> People]
    /\ DerivedOf \in [Chats -> ChannelIds]
    /\ GroupIds \subseteq ChannelIds        \* both are slugs
    /\ MaxChars \in Nat \ {0}
    \* A blank text is not sent, and a line has at least its line break.
    /\ Replies \subseteq Seq(Nat \ {0}) \ {<<>>}
    /\ Top \notin Messages
    /\ NoSession \notin [id : Messages, scope : Scopes]

VARIABLES
    jobs,      \* jobs[w]: what a task is doing
    settled,   \* history: messages whose handling ended, by itself
    turns,     \* history: turns[m]: turns started for a message
    ranIn,     \* history: ranIn[m]: the session of the turn
    answer,    \* history: answer[m]: what the turn answered
    posted     \* history: posted[m]: the lengths of the pieces sent
work == <<jobs, settled, turns, ranIn, answer, posted>>

Idle == [at |-> "idle", msg |-> Top, who |-> Nobody, scope |-> NoScope, rest |-> <<>>]
Steps == {"claim", "person", "channel", "member", "find", "insert", "run", "post"}
Busy(w) == jobs[w].at # "idle"
At(w, step) == jobs[w].at = step
Msg(w) == Said[jobs[w].msg]
GoTo(w, step) == jobs' = [jobs EXCEPT ![w].at = step]
Stop(w) == jobs' = [jobs EXCEPT ![w] = Idle]

\* The handling ends without a turn, or after it.
Settle(w) ==
    /\ Stop(w)
    /\ settled' = settled \cup {jobs[w].msg}

-----------------------------------------------------------------------------
(* Routing *)

\* An account is the person it is linked to, then the one configured, then a
\* guest of its own.
PersonOf(a) ==
    CASE identities[a] # Nobody -> identities[a]
      [] identities[a] = Nobody /\ a \in Configured -> ConfiguredAs[a]
      [] OTHER -> GuestOf[a]

ScopeOf(m) ==
    IF m.private THEN Personal(PersonOf(m.account))
    ELSE IF bindings[m.chat] # NoScope THEN bindings[m.chat]
    ELSE ChannelScope(DerivedOf[m.chat])

\* Mutant of KindOf: a linked account counts as configured.
KindOfLinked(a) == IF identities[a] # Nobody THEN "internal" ELSE "guest"

\* The configuration decides by the account, not by the person.
KindOf(a) == IF a \in Configured THEN "internal" ELSE "guest"

AllowedChat(c) == AllowedChats = {} \/ c \in AllowedChats

\* Nothing but a question of a person, where the bot listens, starts a turn.
Answerable(m) == ~m.ours /\ AllowedChat(m.chat) /\ (m.private \/ m.addressed)

Route(w) ==
    jobs' = [jobs EXCEPT ![w] = [@ EXCEPT !.at = "person", !.who = PersonOf(Msg(w).account),
                                          !.scope = ScopeOf(Msg(w))]]

-----------------------------------------------------------------------------
(* Replies *)

\* Mutant of AddLine: what was collected is not sent before a cut line.
AddLineUnflushed(soFar, line) ==
    CASE soFar.current + line <= MaxChars -> [soFar EXCEPT !.current = @ + line]
      [] soFar.current + line > MaxChars /\ line <= MaxChars ->
           [pieces |-> soFar.pieces, current |-> line]
      [] OTHER ->
           [pieces |-> soFar.pieces \o [i \in 1..(line \div MaxChars) |-> MaxChars],
            current |-> line % MaxChars]

\* split_message, over the lengths of lines: a line that does not fit starts a
\* new piece, and one that never fits is cut.
AddLine(soFar, line) ==
    LET flushed == IF soFar.current = 0 THEN soFar.pieces ELSE Append(soFar.pieces, soFar.current)
    IN  CASE soFar.current + line <= MaxChars ->
               [soFar EXCEPT !.current = @ + line]
          [] soFar.current + line > MaxChars /\ line <= MaxChars ->
               [pieces |-> flushed, current |-> line]
          [] OTHER ->
               [pieces |-> flushed \o [i \in 1..(line \div MaxChars) |-> MaxChars],
                current |-> line % MaxChars]

Length(text) == FoldLeft(+, 0, text)
Split(text) ==
    IF Length(text) <= MaxChars THEN <<Length(text)>>
    ELSE LET all == FoldLeft(AddLine, [pieces |-> <<>>, current |-> 0], text)
         IN  IF all.current = 0 THEN all.pieces ELSE Append(all.pieces, all.current)

-----------------------------------------------------------------------------
(* The steps of a job *)

Unchanged_run == UNCHANGED <<turns, ranIn, answer, posted>>

\* A shared scope has its channel and its member written first.  The reference
\* of a scope is taken for a channel's id, whatever the scope's kind is: a
\* conversation bound to a group makes a channel with the id of the group.
WritePerson(w, kind) ==
    /\ At(w, "person")
    /\ UpsertPrincipal(jobs[w].who, kind)
    /\ GoTo(w, IF IsShared(jobs[w].scope) THEN "channel" ELSE "find")
    /\ UNCHANGED <<channels, channelMembers, groupKey, groupMembers, identities, bindings,
                   log, settled>>
    /\ Unchanged_run

WriteChannel(w) ==
    /\ At(w, "channel")
    /\ UpsertChannel(jobs[w].scope.ref)
    /\ GoTo(w, "member")
    /\ UNCHANGED <<people, channelMembers, groupKey, groupMembers, identities, bindings,
                   log, settled>>
    /\ Unchanged_run

WriteMember(w) ==
    /\ At(w, "member")
    /\ AddChannelMember(jobs[w].scope.ref, jobs[w].who)
    /\ GoTo(w, "find")
    /\ UNCHANGED <<people, channels, groupKey, groupMembers, identities, bindings, log, settled>>
    /\ Unchanged_run

\* ensure, of handle_turn: the first SELECT, then the insert of whoever saw
\* nothing.
FindSession(w, thread) ==
    /\ At(w, "find")
    /\ GoTo(w, IF Exists(thread) THEN "run" ELSE "insert")
    /\ UNCHANGED <<directory, log, settled>>
    /\ Unchanged_run

InsertSession(w, thread) ==
    /\ At(w, "insert")
    /\ Open(thread, jobs[w].msg, jobs[w].scope)
    /\ GoTo(w, "run")
    /\ UNCHANGED <<directory, participants, entries, settled>>
    /\ Unchanged_run

\* The rest of handle_turn: it stays silent, fails, or answers; `posts` says
\* whether the caller sends the answer.
RunTurn(w, thread, posts) ==
    /\ At(w, "run")
    /\ LET m  == jobs[w].msg
           id == sessions[thread].id
       IN  /\ Join(id, jobs[w].who)
           /\ AppendEntry(id, m)
           /\ turns' = [turns EXCEPT ![m] = @ + 1]
           /\ ranIn' = [ranIn EXCEPT ![m] = id]
           /\ \/ Settle(w) /\ UNCHANGED answer
              \/ \E reply \in Replies :
                    /\ answer' = [answer EXCEPT ![m] = reply]
                    /\ IF posts
                       THEN /\ jobs' = [jobs EXCEPT ![w] =
                                           [@ EXCEPT !.at = "post", !.rest = Split(reply)]]
                            /\ UNCHANGED settled
                       ELSE Settle(w)
    /\ UNCHANGED <<directory, sessions, posted>>

\* One piece at a time, in order.
Post(w) ==
    /\ At(w, "post")
    /\ LET m == jobs[w].msg IN
        /\ posted' = [posted EXCEPT ![m] = Append(@, Head(jobs[w].rest))]
        /\ IF Len(jobs[w].rest) = 1 THEN Settle(w)
           ELSE /\ jobs' = [jobs EXCEPT ![w].rest = Tail(@)]
                /\ UNCHANGED settled
    /\ UNCHANGED <<directory, log, turns, ranIn, answer>>

\* A store call fails, or a piece is refused: the error ends the handling, and
\* what it wrote stays.
GiveUp(w) ==
    /\ Busy(w)
    /\ Settle(w)
    /\ UNCHANGED <<directory, log>>
    /\ Unchanged_run

InboundInit ==
    /\ jobs = [w \in Workers |-> Idle]
    /\ settled = {}
    /\ turns = [m \in Messages |-> 0]
    /\ ranIn = [m \in Messages |-> Top]
    /\ answer = [m \in Messages |-> <<>>]
    /\ posted = [m \in Messages |-> <<>>]
=============================================================================
