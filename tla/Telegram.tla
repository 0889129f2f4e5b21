------------------------------- MODULE Telegram -------------------------------
(***************************************************************************)
(* The Telegram connector, connectors/telegram.rs: one loop that polls for   *)
(* updates from a stored offset and handles them in order.  Telegram keeps an *)
(* update until an offset beyond it is asked for.  Messages are 1..n here.   *)
(***************************************************************************)
EXTENDS Inbound

ASSUME TelegramAssumption ==
    /\ IsFiniteSet(Messages)
    /\ Messages = 1..Cardinality(Messages)

VARIABLES
    offset,     \* the setting telegram.offset; 1 when there is none
    batch       \* the updates of the last poll that are not handled yet
telegram == <<offset, batch>>

TelegramInit ==
    /\ offset = 1
    /\ batch = <<>>

\* getUpdates: some of the updates from the offset on, in order.
Poll(w) ==
    /\ batch = <<>>
    /\ ~Busy(w)
    /\ \E last \in offset..Cardinality(Messages) :
          batch' = [i \in 1..(last - offset + 1) |-> offset + i - 1]
    /\ UNCHANGED <<offset, directory, log, work>>

\* Mutant of NextUpdate: the offset goes behind the whole batch.
NextUpdateOfBatch(w) ==
    /\ ~Busy(w)
    /\ batch # <<>>
    /\ offset' = Last(batch) + 1
    /\ batch' = Tail(batch)
    /\ IF Answerable(Said[Head(batch)])
       THEN /\ jobs' = [jobs EXCEPT ![w] = [Idle EXCEPT !.at = "claim", !.msg = Head(batch)]]
            /\ UNCHANGED settled
       ELSE settled' = settled \cup {Head(batch)} /\ UNCHANGED jobs
    /\ UNCHANGED <<directory, log>>
    /\ Unchanged_run

\* The offset is stored before the update is handled.
NextUpdate(w) ==
    /\ ~Busy(w)
    /\ batch # <<>>
    /\ offset' = Head(batch) + 1
    /\ batch' = Tail(batch)
    /\ IF Answerable(Said[Head(batch)])
       THEN /\ jobs' = [jobs EXCEPT ![w] = [Idle EXCEPT !.at = "claim", !.msg = Head(batch)]]
            /\ UNCHANGED settled
       ELSE settled' = settled \cup {Head(batch)} /\ UNCHANGED jobs
    /\ UNCHANGED <<directory, log>>
    /\ Unchanged_run

\* Storing the offset fails: the rest of the poll is dropped, and asked for
\* again.
PollFails(w) ==
    /\ ~Busy(w)
    /\ batch # <<>>
    /\ batch' = <<>>
    /\ UNCHANGED <<offset, directory, log, work>>

\* Routing reads; no event ids are kept.
ReadUpdate(w) ==
    /\ At(w, "claim")
    /\ Route(w)
    /\ UNCHANGED <<offset, batch, directory, log, settled>>
    /\ Unchanged_run

\* A chat has one session, threads or not.
TelegramThread(m) == <<Said[m].chat, Top>>

\* The steps of handle after the filters.
TelegramStep(w) ==
    /\ \/ WritePerson(w, KindOf(Msg(w).account))
       \/ WriteChannel(w)
       \/ WriteMember(w)
       \/ FindSession(w, TelegramThread(jobs[w].msg))
       \/ InsertSession(w, TelegramThread(jobs[w].msg))
       \/ RunTurn(w, TelegramThread(jobs[w].msg), TRUE)
    /\ UNCHANGED telegram

Send(w) == Post(w) /\ UNCHANGED telegram
=============================================================================
