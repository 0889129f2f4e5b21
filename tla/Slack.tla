-------------------------------- MODULE Slack --------------------------------
(***************************************************************************)
(* The Slack connector, connectors/slack.rs, with the Events API handler of  *)
(* web/api.rs.  Slack keeps a message until it is acknowledged, and sends it  *)
(* again when it is not; it gives up after more retries than a run has       *)
(* faults.  Over a socket the messages are acknowledged and handled one after *)
(* the other; over HTTP each is handled by a task of its own.  Either way one *)
(* row of slack_event_dedupe per event id decides which delivery is handled.  *)
(*                                                                          *)
(* A backoff only takes time, and signatures are checked before anything is   *)
(* read: a request that fails is no delivery.                                 *)
(***************************************************************************)
EXTENDS Inbound

VARIABLES
    held,        \* events Slack has and no acknowledgement for
    claimed,     \* the rows of slack_event_dedupe
    connected    \* whether the socket is open
slack == <<held, claimed, connected>>

SlackInit ==
    /\ held = Messages
    /\ claimed = {}
    /\ connected = FALSE

-----------------------------------------------------------------------------
(* The transports *)

\* connect_socket: open a connection; a failed attempt is tried again later.
Connect ==
    /\ ~connected
    /\ connected' = TRUE
    /\ UNCHANGED <<held, claimed, directory, log, work>>

\* Slack closes the socket, or reading it fails: serve_one_socket returns.
Disconnect ==
    /\ connected
    /\ \A w \in Workers : ~Busy(w)
    /\ connected' = FALSE
    /\ UNCHANGED <<held, claimed, directory, log, work>>

Deliver(w, m) ==
    /\ m \in held
    /\ ~Busy(w)

Take(w, m) == jobs' = [jobs EXCEPT ![w] = [Idle EXCEPT !.at = "claim", !.msg = m]]

\* A frame of the socket: acknowledge, then work.  `still` is what Slack holds
\* afterwards: the event too, when the acknowledgement is lost on the way.
Frame(w, m, still) ==
    /\ connected
    /\ \A v \in Workers : ~Busy(v)
    /\ Deliver(w, m)
    /\ Take(w, m)
    /\ held' = still
    /\ UNCHANGED <<claimed, connected, directory, log, settled>>
    /\ Unchanged_run

\* Sending the acknowledgement fails: the connection is given up, and the
\* event is not handled.
FrameNotAcked(w, m) ==
    /\ connected
    /\ \A v \in Workers : ~Busy(v)
    /\ Deliver(w, m)
    /\ connected' = FALSE
    /\ UNCHANGED <<held, claimed, directory, log, work>>

\* A request of the Events API: a task is spawned and the answer, 200, goes
\* out at once; it too may be lost.
Request(w, m, still) ==
    /\ Deliver(w, m)
    /\ Take(w, m)
    /\ held' = still
    /\ UNCHANGED <<claimed, connected, directory, log, settled>>
    /\ Unchanged_run

-----------------------------------------------------------------------------
(* handle_event *)

\* Mutant of Claim: whether the row was there is not looked at.
ClaimAlways(w) ==
    /\ At(w, "claim")
    /\ claimed' = claimed \cup {jobs[w].msg}
    /\ IF Answerable(Msg(w)) THEN Route(w) /\ UNCHANGED settled ELSE Settle(w)
    /\ UNCHANGED <<held, connected, directory, log>>
    /\ Unchanged_run

\* Mutant of Claim: a delivery of a message that was seen is not given up.
ClaimWaiting(w) ==
    /\ At(w, "claim")
    /\ jobs[w].msg \notin claimed
    /\ claimed' = claimed \cup {jobs[w].msg}
    /\ IF Answerable(Msg(w)) THEN Route(w) /\ UNCHANGED settled ELSE Settle(w)
    /\ UNCHANGED <<held, connected, directory, log>>
    /\ Unchanged_run

\* Who comes second with an event id stops.  The filters and the routing only
\* read.
Claim(w) ==
    /\ At(w, "claim")
    /\ claimed' = claimed \cup {jobs[w].msg}
    /\ \/ jobs[w].msg \in claimed /\ Stop(w) /\ UNCHANGED settled
       \/ jobs[w].msg \notin claimed /\ ~Answerable(Msg(w)) /\ Settle(w)
       \/ jobs[w].msg \notin claimed /\ Answerable(Msg(w)) /\ Route(w) /\ UNCHANGED settled
    /\ UNCHANGED <<held, connected, directory, log>>
    /\ Unchanged_run

\* A thread of a channel has a session of its own; all else in a conversation
\* shares one.
SlackThread(m) ==
    IF Said[m].private THEN <<Said[m].chat, Top>> ELSE <<Said[m].chat, Said[m].root>>

\* The steps of handle_event after the filters.
SlackStep(w) ==
    /\ \/ WritePerson(w, KindOf(Msg(w).account))
       \/ WriteChannel(w)
       \/ WriteMember(w)
       \/ FindSession(w, SlackThread(jobs[w].msg))
       \/ InsertSession(w, SlackThread(jobs[w].msg))
    /\ UNCHANGED slack

\* handle_and_reply posts what handle_event returns.
ReplyOnSocket(w) ==
    /\ RunTurn(w, SlackThread(jobs[w].msg), TRUE)
    /\ UNCHANGED slack

\* The handler of the Events API calls handle_event, and drops what it returns.
ReplyOnEvents(w) ==
    /\ RunTurn(w, SlackThread(jobs[w].msg), FALSE)
    /\ UNCHANGED slack

PostMessage(w) == Post(w) /\ UNCHANGED slack

\* The hourly sweep drops rows a day old: no task is left from that day, and
\* Slack is not sending the events any more.
SweepDedupe ==
    /\ \A w \in Workers : ~Busy(w)
    /\ claimed' = claimed \cap held
    /\ UNCHANGED <<held, connected, directory, log, work>>
=============================================================================
