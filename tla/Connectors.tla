------------------------------ MODULE Connectors ------------------------------
(***************************************************************************)
(* A server with one chat connector, an administrator and crashes.  The     *)
(* configuration picks the transport at the start: Slack over a socket,      *)
(* Slack over the Events API, or Telegram.                                  *)
(***************************************************************************)
EXTENDS Slack, Telegram

CONSTANTS
    Transports,   \* the transports to check
    Bindable,      \* scopes an administrator binds conversations to
    Linkable,     \* people an administrator links accounts to
    MaxTrouble    \* bound: changes of an administrator, crashes, closed sockets
                  \* and lost answers, all together

ASSUME ConnectorsAssumption ==
    /\ Transports \subseteq {"socket", "events", "telegram"}
    /\ Bindable \subseteq Scopes
    /\ Linkable \subseteq People
    /\ Workers # {} /\ IsFiniteSet(Workers)
    /\ MaxTrouble \in Nat

VARIABLES
    transport,    \* the transport configured
    changes,      \* changes so far
    faults,       \* faults so far
    crashes       \* those of them that were crashes
vars == <<directory, log, work, slack, telegram, transport, changes, faults, crashes>>

OnSocket == transport = "socket"
OnEvents == transport = "events"
OnTelegram == transport = "telegram"

\* Known people are internal and active before anybody writes.
Init ==
    /\ people = [p \in People |-> IF p \in Linkable THEN [kind |-> "internal", active |-> TRUE]
                                  ELSE NoPerson]
    /\ channels = {} /\ channelMembers = {}
    /\ groupKey = [g \in GroupIds |-> Linkable]
    /\ groupMembers = GroupIds \X Linkable
    /\ identities = [a \in Accounts |-> Nobody]
    /\ bindings = [c \in Chats |-> NoScope]
    /\ sessions = [t \in Chats \X (Messages \cup {Top}) |-> NoSession]
    /\ participants = {} /\ entries = {}
    /\ InboundInit /\ SlackInit /\ TelegramInit
    /\ transport \in Transports
    /\ changes = 0 /\ faults = 0 /\ crashes = 0

-----------------------------------------------------------------------------
(* The server.  Tasks handle events in parallel; a socket and a poll do one   *)
(* at a time.                                                               *)

Fixed == UNCHANGED <<transport, changes, faults, crashes>>
First == CHOOSE w \in Workers : TRUE

SocketStep ==
    /\ OnSocket
    /\ \/ Connect
       \/ \E m \in Messages : Frame(First, m, held \ {m})
       \/ Claim(First) \/ SlackStep(First) \/ ReplyOnSocket(First) \/ PostMessage(First)
    /\ UNCHANGED telegram /\ Fixed

EventsStep ==
    /\ OnEvents
    /\ \/ \E m \in Messages : \E w \in Workers : Request(w, m, held \ {m})
       \/ \E w \in Workers : Claim(w) \/ SlackStep(w) \/ ReplyOnEvents(w)
    /\ UNCHANGED telegram /\ Fixed

TelegramLoop ==
    /\ OnTelegram
    /\ \/ Poll(First) \/ NextUpdate(First) \/ ReadUpdate(First)
       \/ TelegramStep(First) \/ Send(First)
    /\ UNCHANGED slack /\ Fixed

Sweep ==
    /\ ~OnTelegram
    /\ SweepDedupe
    /\ UNCHANGED telegram /\ Fixed

-----------------------------------------------------------------------------
(* What goes wrong *)

\* The process dies and is started again: its tasks, the socket and the batch
\* are gone, the tables stay.
Crash ==
    /\ jobs' = [w \in Workers |-> Idle]
    /\ connected' = FALSE
    /\ batch' = <<>>
    /\ UNCHANGED <<directory, log, held, claimed, offset,
                   settled, turns, ranIn, answer, posted>>

Fails(w) == GiveUp(w) /\ UNCHANGED <<slack, telegram>>

Fault ==
    /\ faults + changes < MaxTrouble
    /\ faults' = faults + 1
    /\ \/ Crash /\ crashes' = crashes + 1
       \/ /\ \/ OnSocket /\ Disconnect /\ UNCHANGED telegram
             \/ /\ OnSocket
                /\ \E m \in Messages : FrameNotAcked(First, m) \/ Frame(First, m, held)
                /\ UNCHANGED telegram
             \/ /\ OnEvents
                /\ \E m \in Messages, w \in Workers : Request(w, m, held)
                /\ UNCHANGED telegram
             \/ OnTelegram /\ PollFails(First) /\ UNCHANGED slack
             \/ \E w \in Workers : Fails(w)
          /\ UNCHANGED crashes
    /\ UNCHANGED <<transport, changes>>

-----------------------------------------------------------------------------
(* The administrator *)

LinkAccount ==
    /\ \E a \in Accounts : (\E p \in Linkable : LinkIdentity(a, p)) \/ UnlinkIdentity(a)
    /\ UNCHANGED <<people, channels, channelMembers, groupKey, groupMembers, bindings>>

\* Who writes in private is routed without a look at the bindings.
Bound == {Said[m].chat : m \in {n \in Messages : ~Said[n].private}}
BindChat ==
    /\ \E c \in Bound : (\E s \in Bindable : LinkChannel(c, s)) \/ UnlinkChannel(c)
    /\ UNCHANGED <<people, channels, channelMembers, groupKey, groupMembers, identities>>

Administer ==
    /\ faults + changes < MaxTrouble
    /\ changes' = changes + 1
    /\ LinkAccount \/ BindChat
    /\ directory' # directory       \* what changes nothing is not counted
    /\ UNCHANGED <<log, slack, telegram, transport, faults, crashes>>
    /\ UNCHANGED <<jobs, settled, turns, ranIn, answer, posted>>

Server == SocketStep \/ EventsStep \/ TelegramLoop
Next == Server \/ Sweep \/ Fault \/ Administer

Spec == Init /\ [][Next]_vars

\* The server's tasks run on, and Slack and Telegram send what they keep.
FairSpec == Spec /\ WF_vars(Server)

-----------------------------------------------------------------------------
(* Properties *)

Job ==
    [at : Steps, msg : Messages, who : People \cup {Nobody}, scope : Scopes \cup {NoScope},
     rest : Seq(Nat)] \cup {Idle}

SessionRow(t) == [id : Messages, scope : Scopes] \cup {NoSession}

\* People have rows before they are members, linked or spoken for; a session
\* opens for a message, a job is at a step of the handlers.
TypeOK ==
    /\ DirectoryTypeOK
    /\ \A t \in DOMAIN sessions : sessions[t] \in SessionRow(t)
    /\ participants \subseteq Messages \X People
    /\ entries \subseteq [session : Messages, seq : Nat, said : Messages]
    /\ jobs \in [Workers -> Job]
    /\ held \subseteq Messages /\ claimed \subseteq Messages /\ settled \subseteq Messages
    /\ offset \in 1..(Cardinality(Messages) + 1)
    /\ faults \in 0..MaxTrouble /\ changes \in 0..MaxTrouble

\* A message starts at most one turn, however often it is delivered, before or
\* after a crash: README, "Slack's retries never run a turn twice".
OneTurnPerMessage == \A m \in Messages : turns[m] <= 1

\* The thread a message is handled in.
ThreadOf(m) == IF OnTelegram THEN TelegramThread(m) ELSE SlackThread(m)

\* All turns of a thread ran in one session, the one that is found today, also
\* when its first messages arrived at once: `ensure` reads back what it wrote.
OneSessionPerThread ==
    \A m \in Messages :
        turns[m] > 0 =>
            /\ Exists(ThreadOf(m))
            /\ ranIn[m] = sessions[ThreadOf(m)].id
            /\ \E e \in History(ranIn[m]) : e.said = m

\* A message the server can still be given, or is handling.
Pending(m) ==
    \/ IF OnTelegram THEN m >= offset ELSE m \in held
    \/ \E w \in Workers : jobs[w].msg = m

\* A crash loses at most the messages that were being handled: those waiting
\* at Slack or Telegram are handled after the restart.
Parallel == IF OnEvents THEN Cardinality(Workers) ELSE 1
LossIsBounded ==
    Cardinality({m \in Messages : ~Pending(m) /\ m \notin settled}) <= crashes * Parallel

\* What is posted is the answer, from its beginning and in pieces the platform
\* takes; all of it unless a piece was refused or the process died.
PostsAreTheAnswer ==
    \A m \in Messages :
        /\ \A i \in DOMAIN posted[m] : posted[m][i] \in 1..MaxChars
        /\ Length(posted[m]) <= Length(answer[m])
        /\ \A w \in Workers :
              At(w, "post") /\ jobs[w].msg = m
                  => Length(posted[m]) + Length(jobs[w].rest) = Length(answer[m])

\* The kind of a person changes only when they speak; it rises to internal only
\* if their account is in the configuration, and falls only if it is not.
SpeaksAs(p, a) ==
    \E w \in Workers : At(w, "person") /\ jobs[w].who = p /\ Msg(w).account = a
ChangesKind(p) == people[p].kind # people'[p].kind
KindChange ==
    \A p \in People :
        ChangesKind(p) => \E a \in Accounts :
                              /\ SpeaksAs(p, a)
                              /\ people'[p].kind = "internal" <=> a \in Configured
KindFollowsConfiguration == [][KindChange]_vars

\* Every message is taken from Slack or Telegram in the end, and its handling
\* ends: no message waits for ever behind another that fails.
EveryMessageIsTaken == <>(\A m \in Messages : ~Pending(m))

=============================================================================
