--------------------------- MODULE ConnectorsProofs ---------------------------
(***************************************************************************)
(* What TLAPS proves of Connectors: for any messages, people, conversations, *)
(* bindings, number of tasks and number of faults, over each transport.      *)
(***************************************************************************)
EXTENDS Connectors, FiniteSetTheorems, WellFoundedInduction, TLAPS

-----------------------------------------------------------------------------
(* The inductive invariant *)

Fields == DOMAIN Idle
Threads == Chats \X (Messages \cup {Top})

TablesOK ==
    /\ transport \in {"socket", "events", "telegram"}
    /\ people \in [People -> Person]
    /\ identities \in [Accounts -> People \cup {Nobody}]
    /\ bindings \in [Chats -> SharedScopes \cup {NoScope}]
    /\ DOMAIN sessions = Threads
    /\ \A t \in Threads : sessions[t] \in SessionRow(t)
    /\ turns \in [Messages -> {0, 1}]
    /\ DOMAIN ranIn = Messages
    /\ settled \subseteq Messages /\ held \subseteq Messages
    /\ crashes \in Nat

\* The updates of a poll that are left follow the offset.
BatchOK ==
    /\ offset \in Nat /\ offset >= 1
    /\ batch \in Seq(Messages)
    /\ \A i \in DOMAIN batch : batch[i] = offset + i - 1

Taken(row) == row.at # "claim"

\* A job whose message is taken is the only one with it, and until it has run
\* nothing has; one at its turn has found or made the session.
JobOK(w, row) ==
    \/ row = Idle
    \/ /\ DOMAIN row = Fields
       /\ row.at \in Steps /\ row.msg \in Messages
       /\ ~OnEvents => w = First
       /\ OnTelegram => row.msg < offset
       /\ Taken(row) => row.who \in People /\ row.scope \in Scopes
       /\ Taken(row) /\ ~OnTelegram => row.msg \in claimed
       /\ (Taken(row) \/ OnTelegram) /\ row.at # "post" => turns[row.msg] = 0
       /\ row.at = "run" => Exists(ThreadOf(row.msg))
JobsOK ==
    /\ jobs = [w \in Workers |-> jobs[w]]
    /\ \A w \in Workers : JobOK(w, jobs[w])

Past(w) == Busy(w) /\ Taken(jobs[w])
Apart ==
    \A v, w \in Workers : Past(v) /\ Past(w) /\ jobs[v].msg = jobs[w].msg => v = w

\* A message that had its turn is never started again: its id is claimed, or
\* nobody has it any more.
Over(m) ==
    IF OnTelegram THEN m < offset
    ELSE m \in claimed \/ (m \notin held /\ \A w \in Workers : jobs[w].msg # m)
TurnsAreOver == \A m \in Messages : turns[m] = 1 => Over(m)

\* A message that no delivery gets handled any more: one that nobody has, and
\* one that is claimed by nobody alive.
Doomed ==
    {m \in Messages : /\ m \notin settled
                      /\ m \in claimed \/ ~Pending(m)
                      /\ ~\E w \in Workers : Past(w) /\ jobs[w].msg = m}

\* Only a crash dooms a message.
LossOK == Cardinality(Doomed) <= crashes * Parallel

ChatInv ==
    /\ TablesOK /\ BatchOK /\ JobsOK /\ Apart /\ TurnsAreOver
    /\ OneSessionPerThread /\ LossOK
    /\ OnTelegram => claimed = {}

-----------------------------------------------------------------------------
(* Constants *)

LEMMA FirstWorks == First \in Workers
BY ConnectorsAssumption DEF First

LEMMA ParallelIsNat == Parallel \in Nat
BY ConnectorsAssumption, FS_CardinalityType DEF Parallel

LEMMA EmptyJob ==
    /\ Idle.at = "idle" /\ Idle.msg = Top /\ Top \notin Messages
    /\ DOMAIN Idle = Fields
    /\ "idle" \notin Steps
BY InboundAssumption DEF Idle, Fields, Steps

\* What is said is said somewhere.
LEMMA ThreadsExist ==
    ASSUME NEW m \in Messages
    PROVE  ThreadOf(m) \in Threads
<1>1. Said[m] \in Message
  BY InboundAssumption
<1>2. QED
  BY <1>1 DEF ThreadOf, SlackThread, TelegramThread, Threads, Message

LEMMA SameThreads ==
    ASSUME transport' = transport
    PROVE  \A m : (ThreadOf(m))' = ThreadOf(m)
BY DEF ThreadOf, SlackThread, TelegramThread, OnTelegram

-----------------------------------------------------------------------------
(* One job moves *)

\* What the new row of a job has to be.
Fits(w, row) ==
    \/ row = Idle
    \/ /\ DOMAIN row = Fields
       /\ row.at \in Steps /\ row.msg \in Messages
       /\ ~OnEvents => w = First
       /\ OnTelegram => row.msg < offset'
       /\ Taken(row) => row.who \in People /\ row.scope \in Scopes
       /\ Taken(row) /\ ~OnTelegram => row.msg \in claimed'
       /\ (Taken(row) \/ OnTelegram) /\ row.at # "post" => turns'[row.msg] = 0
       /\ row.at = "run" => sessions'[ThreadOf(row.msg)] # NoSession

\* No id is taken back, no session lost, and nobody's turn is run by another.
Onward(w) ==
    /\ claimed \subseteq claimed'
    /\ offset' \in Nat /\ offset <= offset'
    /\ \A t \in Threads : Exists(t) => sessions'[t] = sessions[t]
    /\ \A v \in Workers \ {w} :
          Busy(v) /\ (Past(v) \/ OnTelegram) => turns'[jobs[v].msg] = turns[jobs[v].msg]

LEMMA JobMoves ==
    ASSUME ChatInv, transport' = transport, NEW w \in Workers, NEW row,
           jobs' = [jobs EXCEPT ![w] = row], Fits(w, row), Onward(w)
    PROVE  JobsOK'
<1>1. jobs' = [v \in Workers |-> jobs'[v]]
  BY DEF ChatInv, JobsOK
<1>2. ASSUME NEW v \in Workers
      PROVE  Fits(v, jobs'[v])
  <2>1. CASE v = w
    BY <2>1 DEF ChatInv, JobsOK
  <2>2. CASE v # w
    <3>1. jobs'[v] = jobs[v]
      BY <2>2 DEF ChatInv, JobsOK
    <3>2. CASE jobs[v] = Idle
      BY <3>1, <3>2 DEF Fits
    <3>3. CASE jobs[v] # Idle
      <4>1. JobOK(v, jobs[v])
        BY DEF ChatInv, JobsOK
      <4>2. Busy(v) /\ jobs[v].msg \in Messages
        BY <3>3, <4>1, EmptyJob DEF JobOK, Busy
      <4>3. OnTelegram => jobs[v].msg < offset'
        <5>1. jobs[v].msg \in Nat /\ offset \in Nat
          BY <4>2, TelegramAssumption, FS_CardinalityType DEF ChatInv, BatchOK
        <5>2. QED
          BY <3>3, <4>1, <5>1 DEF JobOK, Onward
      <4>4. Taken(jobs[v]) => Past(v)
        BY <4>2 DEF Past
      <4>5. (Taken(jobs[v]) \/ OnTelegram) /\ jobs[v].at # "post" => turns'[jobs[v].msg] = 0
        BY <2>2, <3>3, <4>1, <4>2, <4>4 DEF JobOK, Onward
      <4>6. jobs[v].at = "run" => sessions'[ThreadOf(jobs[v].msg)] # NoSession
        BY <3>3, <4>1, <4>2, ThreadsExist DEF JobOK, Onward, Exists
      <4>7. QED
        BY <3>1, <3>3, <4>1, <4>3, <4>5, <4>6 DEF JobOK, Fits, Onward
    <3>4. QED
      BY <3>2, <3>3
  <2>3. QED
    BY <2>1, <2>2
<1>3. \A m : (ThreadOf(m))' = ThreadOf(m)
  BY SameThreads
<1>4. ASSUME NEW v \in Workers
      PROVE  JobOK(v, jobs[v])'
  BY <1>2, <1>3 DEF JobOK, Fits, OnEvents, OnTelegram, Exists
<1>5. QED
  BY <1>1, <1>4 DEF JobsOK

LEMMA StaysApart ==
    ASSUME ChatInv, NEW w \in Workers, NEW row,
           jobs' = [jobs EXCEPT ![w] = row],
           \/ row.at = "idle" \/ ~Taken(row)
           \/ Past(w) /\ row.msg = jobs[w].msg
           \/ \A v \in Workers \ {w} : Past(v) => jobs[v].msg # row.msg
    PROVE  Apart'
<1>1. \A v \in Workers : jobs'[v] = IF v = w THEN row ELSE jobs[v]
  BY DEF ChatInv, JobsOK
<1>2. \A v \in Workers : v # w => (Past(v)' <=> Past(v))
  BY <1>1 DEF Past, Busy
<1>3. Past(w)' => row.at # "idle" /\ Taken(row)
  BY <1>1 DEF Past, Busy
<1>4. QED
  BY <1>1, <1>2, <1>3 DEF ChatInv, Apart

\* Nobody gets a message that was over.
LEMMA StaysOver ==
    ASSUME ChatInv, transport' = transport, turns' = turns,
           claimed \subseteq claimed', held' \subseteq held,
           offset' \in Nat, offset <= offset',
           ~OnTelegram => \A w \in Workers : jobs'[w].msg \in {jobs[w].msg, Top} \cup held
    PROVE  TurnsAreOver'
<1>1. ASSUME NEW m \in Messages, Over(m)
      PROVE  Over(m)'
  <2>1. CASE OnTelegram
    <3>1. m \in Nat /\ offset \in Nat
      BY TelegramAssumption, FS_CardinalityType DEF ChatInv, BatchOK
    <3>2. QED
      BY <1>1, <2>1, <3>1 DEF Over, OnTelegram
  <2>2. CASE ~OnTelegram
    <3>1. m # Top
      BY EmptyJob
    <3>2. QED
      BY <1>1, <2>2, <3>1 DEF Over, OnTelegram
  <2>3. QED
    BY <2>1, <2>2
<1>2. QED
  BY <1>1 DEF ChatInv, TurnsAreOver

LEMMA StaysLossy ==
    ASSUME ChatInv, transport' = transport, crashes' = crashes, Doomed' \subseteq Doomed
    PROVE  LossOK'
<1>1. IsFiniteSet(Doomed)
  BY TelegramAssumption, FS_Subset DEF Doomed
<1>2. Cardinality(Doomed') <= Cardinality(Doomed)
  BY <1>1, FS_Subset
<1>3. Cardinality(Doomed) \in Nat /\ Cardinality(Doomed') \in Nat
  BY <1>1, FS_Subset, FS_CardinalityType
<1>4. Parallel' = Parallel
  BY DEF Parallel, OnEvents
<1>5. Cardinality(Doomed) <= crashes * Parallel
  BY DEF ChatInv, LossOK
<1>6. crashes * Parallel \in Nat
  BY ParallelIsNat DEF ChatInv, TablesOK
<1>7. QED
  BY <1>2, <1>3, <1>4, <1>5, <1>6 DEF LossOK

LEMMA ThreadsStay ==
    ASSUME ChatInv, transport' = transport, turns' = turns, ranIn' = ranIn,
           entries \subseteq entries',
           \A t \in Threads : Exists(t) => sessions'[t] = sessions[t]
    PROVE  OneSessionPerThread'
<1>1. \A m : (ThreadOf(m))' = ThreadOf(m)
  BY SameThreads
<1>2. ASSUME NEW m \in Messages, turns[m] > 0
      PROVE  /\ sessions'[ThreadOf(m)] # NoSession
             /\ ranIn[m] = sessions'[ThreadOf(m)].id
             /\ \E e \in entries' : e.session = ranIn[m] /\ e.said = m
  <2>1. /\ Exists(ThreadOf(m)) /\ ranIn[m] = sessions[ThreadOf(m)].id
        /\ \E e \in History(ranIn[m]) : e.said = m
    BY <1>2 DEF ChatInv, OneSessionPerThread
  <2>2. ThreadOf(m) \in Threads
    BY ThreadsExist
  <2>3. QED
    BY <2>1, <2>2 DEF Exists, History
<1>3. QED
  BY <1>1, <1>2 DEF OneSessionPerThread, Exists, History

-----------------------------------------------------------------------------
(* The ways a step may go *)

SameTables ==
    UNCHANGED <<transport, people, identities, bindings, sessions, entries, turns, ranIn, crashes>>
SameFeed == UNCHANGED <<held, claimed, offset, batch>>

\* A step of a job whose message is taken.
LEMMA Advances ==
    ASSUME ChatInv, NEW w \in Workers, NEW row, Past(w),
           jobs' = [jobs EXCEPT ![w] = row],
           SameFeed,
           UNCHANGED <<transport, identities, bindings, settled, turns, ranIn, entries, crashes>>,
           DOMAIN row = Fields, row.at \in Steps, Taken(row),
           row.msg = jobs[w].msg, row.who = jobs[w].who, row.scope = jobs[w].scope,
           jobs[w].at = "post" => row.at = "post",
           row.at = "run" => sessions'[ThreadOf(row.msg)] # NoSession,
           people' \in [People -> Person],
           DOMAIN sessions' = Threads,
           \A t \in Threads : /\ sessions'[t] \in SessionRow(t)
                              /\ Exists(t) => sessions'[t] = sessions[t]
    PROVE  ChatInv'
<1>1. JobOK(w, jobs[w]) /\ jobs[w] # Idle /\ Taken(jobs[w])
  BY EmptyJob DEF ChatInv, JobsOK, Past, Busy
<1>2. offset \in Nat
  BY DEF ChatInv, BatchOK
<1>3. Onward(w)
  BY <1>2 DEF Onward, SameFeed
<1>4. Fits(w, row)
  BY <1>1 DEF JobOK, Fits, SameFeed
<1>5. JobsOK'
  BY <1>3, <1>4, JobMoves
<1>6. Apart'
  BY StaysApart
<1>7. \A v \in Workers : jobs'[v] = IF v = w THEN row ELSE jobs[v]
  BY DEF ChatInv, JobsOK
<1>8. TurnsAreOver'
  <2>1. \A v \in Workers : jobs'[v].msg = jobs[v].msg
    BY <1>7
  <2>2. QED
    BY <1>2, <2>1, StaysOver DEF SameFeed
<1>9. LossOK'
  <2>1. Past(w)'
    BY <1>7, EmptyJob DEF Past, Busy
  <2>2. \A v \in Workers : (Past(v)' <=> Past(v)) /\ jobs'[v].msg = jobs[v].msg
    BY <1>7, <2>1 DEF Past, Busy
  <2>3. Doomed' = Doomed
    BY <2>2 DEF Doomed, Pending, OnTelegram, SameFeed
  <2>4. QED
    BY <2>3, StaysLossy
<1>10. OneSessionPerThread'
  BY ThreadsStay
<1>11. TablesOK' /\ BatchOK'
  BY DEF ChatInv, TablesOK, BatchOK, SessionRow, SameFeed
<1>12. (OnTelegram => claimed = {})'
  BY DEF ChatInv, OnTelegram, SameFeed
<1>13. QED
  BY <1>5, <1>6, <1>8, <1>9, <1>10, <1>11, <1>12 DEF ChatInv

\* The handling of a message ends.
LEMMA Ends ==
    ASSUME ChatInv, NEW w \in Workers, Busy(w), jobs' = [jobs EXCEPT ![w] = Idle],
           settled' = settled \cup {jobs[w].msg}, SameTables, SameFeed
    PROVE  ChatInv'
<1>1. JobOK(w, jobs[w]) /\ jobs[w] # Idle /\ jobs[w].msg \in Messages
  BY EmptyJob DEF ChatInv, JobsOK, JobOK, Busy
<1>2. offset \in Nat
  BY DEF ChatInv, BatchOK
<1>3. JobsOK'
  <2>1. Onward(w)
    BY <1>2 DEF Onward, SameFeed, SameTables
  <2>2. Fits(w, Idle)
    BY DEF Fits
  <2>3. QED
    BY <2>1, <2>2, JobMoves DEF SameTables
<1>4. Apart'
  BY StaysApart, EmptyJob
<1>5. \A v \in Workers : jobs'[v] = IF v = w THEN Idle ELSE jobs[v]
  BY DEF ChatInv, JobsOK
<1>6. TurnsAreOver'
  <2>1. \A v \in Workers : jobs'[v].msg \in {jobs[v].msg, Top}
    BY <1>5, EmptyJob
  <2>2. QED
    BY <1>2, <2>1, StaysOver DEF SameFeed, SameTables
<1>7. LossOK'
  <2>1. ASSUME NEW m \in Doomed' PROVE m \in Doomed
    <3>1. m \in Messages /\ m \notin settled /\ m # jobs[w].msg
      BY DEF Doomed
    <3>2. \A v \in Workers : v # w => jobs'[v] = jobs[v] /\ (Past(v)' <=> Past(v))
      BY <1>5 DEF Past, Busy
    <3>3. \A v \in Workers : jobs[v].msg = m => jobs'[v].msg = m
      BY <1>5, <3>1
    <3>4. Pending(m) => Pending(m)'
      BY <3>3 DEF Pending, OnTelegram, SameFeed, SameTables
    <3>5. QED
      BY <3>1, <3>2, <3>4 DEF Doomed, SameFeed
  <2>2. QED
    BY <2>1, StaysLossy DEF SameTables
<1>8. OneSessionPerThread'
  BY ThreadsStay DEF SameTables
<1>9. TablesOK' /\ BatchOK'
  BY <1>1 DEF ChatInv, TablesOK, BatchOK, SessionRow, SameFeed, SameTables
<1>10. (OnTelegram => claimed = {})'
  BY DEF ChatInv, OnTelegram, SameFeed, SameTables
<1>11. QED
  BY <1>3, <1>4, <1>6, <1>7, <1>8, <1>9, <1>10 DEF ChatInv

\* Nothing happens to the messages.
LEMMA Rests ==
    ASSUME ChatInv, transport' = transport,
           UNCHANGED <<people, sessions, entries, turns, ranIn, crashes>>,
           UNCHANGED <<held, claimed, offset, jobs, settled>>,
           identities' \in [Accounts -> People \cup {Nobody}],
           bindings' \in [Chats -> SharedScopes \cup {NoScope}],
           BatchOK'
    PROVE  ChatInv'
<1>1. TablesOK'
  BY DEF ChatInv, TablesOK, SessionRow
<1>2. \A m : (ThreadOf(m))' = ThreadOf(m)
  BY SameThreads
<1>3. JobsOK'
  BY <1>2 DEF ChatInv, JobsOK, JobOK, OnEvents, OnTelegram, Exists
<1>4. Apart' /\ TurnsAreOver'
  BY DEF ChatInv, Apart, TurnsAreOver, Past, Busy, Over, OnTelegram
<1>5. OneSessionPerThread'
  BY ThreadsStay
<1>6. LossOK'
  <2>1. Doomed' = Doomed
    BY DEF Doomed, Pending, Past, Busy, OnTelegram
  <2>2. QED
    BY <2>1, StaysLossy
<1>7. QED
  BY <1>1, <1>3, <1>4, <1>5, <1>6 DEF ChatInv, OnTelegram

-----------------------------------------------------------------------------
(* Deliveries *)

Serves(w) == ~OnEvents => w = First
TakenRow(m) == [Idle EXCEPT !.at = "claim", !.msg = m]

LEMMA TakenRowIs ==
    ASSUME NEW m
    PROVE  /\ DOMAIN TakenRow(m) = Fields
           /\ TakenRow(m).at = "claim" /\ TakenRow(m).msg = m
           /\ ~Taken(TakenRow(m)) /\ TakenRow(m).at \in Steps
BY DEF TakenRow, Idle, Fields, Taken, Steps

LEMMA IdleHasNone ==
    ASSUME ChatInv, NEW w \in Workers, ~Busy(w)
    PROVE  jobs[w] = Idle /\ jobs[w].msg \notin Messages /\ ~Past(w)
<1>1. jobs[w] = Idle
  BY EmptyJob DEF ChatInv, JobsOK, JobOK, Busy
<1>2. QED
  BY <1>1, EmptyJob DEF Past

\* Slack delivers what it holds.
LEMMA Takes ==
    ASSUME ChatInv, ~OnTelegram, NEW w \in Workers, Serves(w), ~Busy(w),
           NEW m \in held, jobs' = [jobs EXCEPT ![w] = TakenRow(m)],
           held' \subseteq held, held \ {m} \subseteq held',
           SameTables, UNCHANGED <<claimed, offset, batch, settled>>
    PROVE  ChatInv'
<1>1. m \in Messages /\ offset \in Nat
  BY DEF ChatInv, TablesOK, BatchOK
<1>2. JobsOK'
  <2>1. Fits(w, TakenRow(m))
    BY <1>1, TakenRowIs DEF Fits, Serves
  <2>2. Onward(w)
    BY <1>1 DEF Onward, SameTables
  <2> QED BY <2>1, <2>2, JobMoves DEF SameTables
<1>3. Apart'
  <2>1. ~Taken(TakenRow(m))
    BY TakenRowIs
  <2> HIDE DEF TakenRow
  <2> QED BY <2>1, StaysApart
<1>4. \A v \in Workers : jobs'[v] = IF v = w THEN TakenRow(m) ELSE jobs[v]
  BY DEF ChatInv, JobsOK
<1>5. TurnsAreOver'
  <2>1. \A v \in Workers : jobs'[v].msg \in {jobs[v].msg, m}
    BY <1>4, TakenRowIs
  <2> QED BY <1>1, <2>1, StaysOver DEF SameTables
<1>6. LossOK'
  <2>1. ASSUME NEW n \in Doomed' PROVE n \in Doomed
    <3>1. n \in Messages /\ n \notin settled
      BY DEF Doomed
    <3>2. Pending(n) => Pending(n)'
      <4>1. CASE n = m
        BY <1>4, <4>1, TakenRowIs DEF Pending
      <4>2. CASE n # m
        <5>1. \A v \in Workers : jobs[v].msg = n => jobs'[v].msg = n
          BY <1>4, <3>1, IdleHasNone
        <5> QED BY <4>2, <5>1 DEF Pending, OnTelegram, SameTables
      <4> QED BY <4>1, <4>2
    <3>3. \A v \in Workers : Past(v) /\ jobs[v].msg = n => Past(v)' /\ jobs'[v].msg = n
      BY <1>4, IdleHasNone DEF Past, Busy
    <3> QED BY <3>1, <3>2, <3>3 DEF Doomed
  <2> QED BY <2>1, StaysLossy DEF SameTables
<1>7. OneSessionPerThread'
  BY ThreadsStay DEF SameTables
<1>8. TablesOK' /\ BatchOK'
  BY DEF ChatInv, TablesOK, BatchOK, SessionRow, SameTables
<1> QED
  BY <1>2, <1>3, <1>5, <1>6, <1>7, <1>8 DEF ChatInv, OnTelegram, SameTables

\* Telegram's next update: the offset goes behind it, whether or not it is for us.
LEMMA Updates ==
    ASSUME ChatInv, OnTelegram, NEW w \in Workers, Serves(w), NextUpdate(w),
           UNCHANGED <<transport, crashes, claimed, held>>
    PROVE  ChatInv'
<1> DEFINE m == Head(batch)
<1>1. ~Busy(w) /\ batch # <<>> /\ offset' = m + 1 /\ batch' = Tail(batch)
  BY DEF NextUpdate
<1>2. batch \in Seq(Messages) /\ offset \in Nat /\ offset >= 1 /\ claimed = {}
  BY DEF ChatInv, BatchOK
<1>3. m = offset /\ m \in Messages
  BY <1>1, <1>2 DEF ChatInv, BatchOK
<1>4. SameTables
  BY DEF NextUpdate, SameTables, directory, log, Unchanged_run
<1>5. \/ jobs' = [jobs EXCEPT ![w] = TakenRow(m)] /\ settled' = settled
      \/ jobs' = jobs /\ settled' = settled \cup {m}
  BY DEF NextUpdate, TakenRow
<1>6. \A n \in Messages : n \in Nat
  BY TelegramAssumption, FS_CardinalityType
<1>7. turns[m] = 0
  <2>1. ~Over(m)
    BY <1>3, <1>2 DEF Over
  <2> QED BY <2>1, <1>3 DEF ChatInv, TurnsAreOver, TablesOK
<1>8. BatchOK'
  <2>1. batch' \in Seq(Messages) /\ Len(batch') = Len(batch) - 1
    BY <1>1, <1>2
  <2>2. ASSUME NEW i \in DOMAIN batch' PROVE batch'[i] = offset' + i - 1
    <3>1. i \in 1..Len(batch) - 1 /\ i + 1 \in DOMAIN batch
      BY <1>2, <2>1
    <3>2. batch'[i] = batch[i + 1]
      BY <1>1, <1>2, <3>1
    <3>3. batch[i + 1] = offset + (i + 1) - 1
      BY <3>1 DEF ChatInv, BatchOK
    <3> QED BY <1>1, <1>2, <1>3, <3>1, <3>2, <3>3
  <2>3. offset' \in Nat /\ offset' >= 1
    BY <1>1, <1>2, <1>3
  <2> QED BY <2>1, <2>2, <2>3 DEF BatchOK
<1> HIDE DEF m
<1>9. Onward(w)
  BY <1>1, <1>2, <1>3, <1>4 DEF Onward, SameTables
<1>10. PICK row : jobs' = [jobs EXCEPT ![w] = row] /\ row \in {Idle, TakenRow(m)}
  <2>1. jobs = [jobs EXCEPT ![w] = Idle]
    BY <1>1, IdleHasNone DEF ChatInv, JobsOK
  <2> QED BY <1>5, <2>1
<1>11. Fits(w, row)
  <2>1. Fits(w, Idle)
    BY DEF Fits
  <2>2. turns' = turns /\ m < offset' /\ OnTelegram
    BY <1>1, <1>2, <1>3, <1>4 DEF SameTables
  <2>3. Fits(w, TakenRow(m))
    BY <1>3, <1>7, <2>2, TakenRowIs DEF Fits, Serves
  <2> QED BY <1>10, <2>1, <2>3
<1>12. JobsOK'
  BY <1>9, <1>10, <1>11, JobMoves DEF SameTables
<1>13. Apart'
  <2>1. row.at = "idle" \/ ~Taken(row)
    BY <1>10, TakenRowIs, EmptyJob
  <2> QED BY <1>10, <2>1, StaysApart
<1>14. TurnsAreOver'
  BY <1>1, <1>2, <1>3, <1>4, StaysOver DEF SameTables
<1>15. LossOK'
  <2>1. \A v \in Workers : jobs'[v] = IF v = w THEN row ELSE jobs[v]
    BY <1>10 DEF ChatInv, JobsOK
  <2>2. ASSUME NEW n \in Doomed' PROVE n \in Doomed
    <3>1. n \in Messages /\ n \notin settled' /\ settled \subseteq settled' /\ n \notin claimed
          /\ ~Pending(n)'
      BY <1>2, <1>5 DEF Doomed
    <3>2. n < offset'
      BY <3>1, <1>2, <1>1, <1>3, <1>6 DEF Pending, OnTelegram
    <3>3. n # m
      <4>1. CASE settled' = settled \cup {m}
        BY <4>1, <3>1
      <4>2. CASE jobs' = [jobs EXCEPT ![w] = TakenRow(m)]
        <5>1. jobs'[w].msg = m
          BY <4>2, TakenRowIs DEF ChatInv, JobsOK
        <5> QED BY <3>1, <5>1 DEF Pending
      <4> QED BY <1>5, <4>1, <4>2
    <3>4. ~(n >= offset)
      BY <3>2, <3>3, <1>1, <1>2, <1>3, <1>6, <3>1
    <3>5. \A v \in Workers : jobs[v].msg = n => jobs'[v].msg = n
      BY <2>1, <1>1, <3>1, IdleHasNone
    <3>6. ~Pending(n)
      BY <3>1, <3>4, <3>5 DEF Pending
    <3> QED BY <3>1, <3>6 DEF Doomed, Pending
  <2> QED BY <2>2, <1>4, StaysLossy DEF SameTables
<1>16. OneSessionPerThread'
  BY <1>4, ThreadsStay DEF SameTables
<1>17. TablesOK'
  BY <1>3, <1>4, <1>5 DEF ChatInv, TablesOK, SessionRow, SameTables
<1> QED
  BY <1>2, <1>8, <1>12, <1>13, <1>14, <1>15, <1>16, <1>17 DEF ChatInv

-----------------------------------------------------------------------------
(* Claims and routing *)

\* Everybody who writes is a person, and every conversation has a scope.
LEMMA Routing ==
    ASSUME ChatInv, NEW m \in Messages
    PROVE  PersonOf(Said[m].account) \in People /\ ScopeOf(Said[m]) \in Scopes
<1>1. Said[m].account \in Accounts /\ Said[m].chat \in Chats
  BY InboundAssumption DEF Message
<1>2. PersonOf(Said[m].account) \in People
  <2>1. identities[Said[m].account] \in People \cup {Nobody}
    BY <1>1 DEF ChatInv, TablesOK
  <2>2. Said[m].account \in Configured => ConfiguredAs[Said[m].account] \in People
    BY InboundAssumption
  <2>3. GuestOf[Said[m].account] \in People
    BY <1>1, InboundAssumption
  <2> QED BY <2>1, <2>2, <2>3 DEF PersonOf
<1>3. Personal(PersonOf(Said[m].account)) \in Scopes
  BY <1>2 DEF Scopes
<1>4. bindings[Said[m].chat] \in SharedScopes \cup {NoScope}
  BY <1>1 DEF ChatInv, TablesOK
<1>5. ChannelScope(DerivedOf[Said[m].chat]) \in Scopes
  BY <1>1, InboundAssumption DEF Scopes, SharedScopes
<1>6. ScopeOf(Said[m]) \in Scopes
  BY <1>3, <1>4, <1>5 DEF ScopeOf, Scopes
<1> QED BY <1>2, <1>6

Routed(w) == [jobs[w] EXCEPT !.at = "person", !.who = PersonOf(Msg(w).account),
                             !.scope = ScopeOf(Msg(w))]

LEMMA RoutedIs ==
    ASSUME ChatInv, NEW w \in Workers, At(w, "claim")
    PROVE  /\ DOMAIN Routed(w) = Fields /\ Routed(w).at = "person"
           /\ Routed(w).at \in Steps /\ Taken(Routed(w))
           /\ Routed(w).msg = jobs[w].msg /\ jobs[w].msg \in Messages
           /\ Routed(w).who \in People /\ Routed(w).scope \in Scopes
           /\ Busy(w) /\ ~Past(w) /\ Serves(w) /\ JobOK(w, jobs[w]) /\ jobs[w] # Idle
<1>1. JobOK(w, jobs[w]) /\ jobs[w] # Idle
  BY EmptyJob DEF ChatInv, JobsOK, At
<1>2. DOMAIN jobs[w] = Fields /\ jobs[w].msg \in Messages /\ Serves(w)
  BY <1>1 DEF JobOK, Serves
<1>3. PersonOf(Msg(w).account) \in People /\ ScopeOf(Msg(w)) \in Scopes
  BY <1>2, Routing DEF Msg
<1>4. /\ DOMAIN Routed(w) = Fields /\ Routed(w).at = "person"
      /\ Routed(w).msg = jobs[w].msg
      /\ Routed(w).who = PersonOf(Msg(w).account) /\ Routed(w).scope = ScopeOf(Msg(w))
  BY <1>2 DEF Routed, Fields, Idle
<1>5. Busy(w) /\ ~Past(w)
  BY DEF At, Busy, Past, Taken
<1> QED BY <1>1, <1>2, <1>3, <1>4, <1>5 DEF Taken, Steps

\* The message of a job that was routed is nobody else's, and it had no turn.
LEMMA Routes ==
    ASSUME ChatInv, NEW w \in Workers, At(w, "claim"), jobs' = [jobs EXCEPT ![w] = Routed(w)],
           SameTables, UNCHANGED <<held, offset, batch, settled>>,
           \/ OnTelegram /\ claimed' = claimed
           \/ /\ ~OnTelegram /\ jobs[w].msg \notin claimed
              /\ claimed' = claimed \cup {jobs[w].msg}
    PROVE  ChatInv'
<1> USE RoutedIs
<1>1. offset \in Nat
  BY DEF ChatInv, BatchOK
<1>2. turns[jobs[w].msg] = 0
  <2>1. CASE OnTelegram
    BY <2>1 DEF JobOK, At
  <2>2. CASE ~OnTelegram
    <3>1. ~Over(jobs[w].msg)
      BY <2>2 DEF Over
    <3> QED BY <3>1 DEF ChatInv, TurnsAreOver, TablesOK
  <2> QED BY <2>1, <2>2
<1>3. JobsOK'
  <2>1. Fits(w, Routed(w))
    BY <1>2 DEF Fits, JobOK, Serves, SameTables
  <2>2. Onward(w)
    BY <1>1 DEF Onward, SameTables
  <2> QED BY <2>1, <2>2, JobMoves DEF SameTables
<1>4. Apart'
  <2>1. ASSUME NEW v \in Workers \ {w}, Past(v) PROVE jobs[v].msg # jobs[w].msg
    <3>1. JobOK(v, jobs[v]) /\ jobs[v] # Idle /\ Taken(jobs[v])
      BY <2>1, EmptyJob DEF ChatInv, JobsOK, Past, Busy
    <3>2. OnTelegram => v = First /\ w = First
      BY <3>1 DEF JobOK, Serves, OnTelegram, OnEvents
    <3> QED BY <3>1, <3>2 DEF JobOK
  <2> QED BY <2>1, StaysApart
<1>5. \A v \in Workers : jobs'[v] = IF v = w THEN Routed(w) ELSE jobs[v]
  BY DEF ChatInv, JobsOK
<1>6. TurnsAreOver'
  <2>1. \A v \in Workers : jobs'[v].msg = jobs[v].msg
    BY <1>5
  <2> QED BY <1>1, <2>1, StaysOver DEF SameTables
<1>7. LossOK'
  <2>1. \A v \in Workers : jobs'[v].msg = jobs[v].msg /\ (Past(v) => Past(v)')
    BY <1>5 DEF Past, Busy
  <2>2. Past(w)'
    BY <1>5 DEF Past, Busy
  <2>3. \A m : Pending(m)' <=> Pending(m)
    BY <2>1 DEF Pending, OnTelegram, SameTables
  <2>4. Doomed' \subseteq Doomed
    BY <2>1, <2>2, <2>3, <1>5 DEF Doomed
  <2> QED BY <2>4, StaysLossy DEF SameTables
<1>8. OneSessionPerThread'
  BY ThreadsStay DEF SameTables
<1>9. TablesOK' /\ BatchOK'
  BY DEF ChatInv, TablesOK, BatchOK, SessionRow, SameTables
<1> QED
  BY <1>3, <1>4, <1>6, <1>7, <1>8, <1>9 DEF ChatInv, OnTelegram, SameTables

\* Who comes second with an event id stops.  If nobody handles the message any
\* more, it was lost before.
LEMMA ComesSecond ==
    ASSUME ChatInv, NEW w \in Workers, At(w, "claim"), jobs[w].msg \in claimed,
           jobs' = [jobs EXCEPT ![w] = Idle], SameTables, SameFeed, settled' = settled
    PROVE  ChatInv'
<1> USE RoutedIs
<1>1. offset \in Nat
  BY DEF ChatInv, BatchOK
<1>2. JobsOK'
  <2>1. Fits(w, Idle)
    BY DEF Fits
  <2>2. Onward(w)
    BY <1>1 DEF Onward, SameTables, SameFeed
  <2> QED BY <2>1, <2>2, JobMoves DEF SameTables
<1>3. Apart'
  BY StaysApart, EmptyJob
<1>4. \A v \in Workers : jobs'[v] = IF v = w THEN Idle ELSE jobs[v]
  BY DEF ChatInv, JobsOK
<1>5. TurnsAreOver'
  <2>1. \A v \in Workers : jobs'[v].msg \in {jobs[v].msg, Top}
    BY <1>4, EmptyJob
  <2> QED BY <1>1, <2>1, StaysOver DEF SameTables, SameFeed
<1>6. LossOK'
  <2>1. ASSUME NEW m \in Doomed' PROVE m \in Doomed
    <3>1. m \in Messages /\ m \notin settled
      BY DEF Doomed
    <3>2. \A v \in Workers : v # w => jobs'[v] = jobs[v] /\ (Past(v)' <=> Past(v))
      BY <1>4 DEF Past, Busy
    <3>3. ~\E v \in Workers : Past(v) /\ jobs[v].msg = m
      BY <3>2 DEF Doomed
    <3>4. CASE m = jobs[w].msg
      BY <3>1, <3>3, <3>4 DEF Doomed
    <3>5. CASE m # jobs[w].msg
      <4>1. \A v \in Workers : jobs[v].msg = m => jobs'[v].msg = m
        BY <1>4, <3>5
      <4>2. Pending(m) => Pending(m)'
        BY <4>1 DEF Pending, OnTelegram, SameTables, SameFeed
      <4> QED BY <3>1, <3>3, <4>2 DEF Doomed, SameFeed
    <3> QED BY <3>4, <3>5
  <2> QED BY <2>1, StaysLossy DEF SameTables
<1>7. OneSessionPerThread'
  BY ThreadsStay DEF SameTables
<1>8. TablesOK' /\ BatchOK'
  BY DEF ChatInv, TablesOK, BatchOK, SessionRow, SameTables, SameFeed
<1> QED
  BY <1>2, <1>3, <1>5, <1>6, <1>7, <1>8 DEF ChatInv, OnTelegram, SameTables, SameFeed

\* A message that starts no turn is claimed and over with.
LEMMA NotForUs ==
    ASSUME ChatInv, NEW w \in Workers, At(w, "claim"), ~OnTelegram,
           jobs' = [jobs EXCEPT ![w] = Idle], SameTables,
           UNCHANGED <<held, offset, batch>>,
           claimed' = claimed \cup {jobs[w].msg}, settled' = settled \cup {jobs[w].msg}
    PROVE  ChatInv'
<1> USE RoutedIs
<1>1. offset \in Nat
  BY DEF ChatInv, BatchOK
<1>2. JobsOK'
  <2>1. Fits(w, Idle)
    BY DEF Fits
  <2>2. Onward(w)
    BY <1>1 DEF Onward, SameTables
  <2> QED BY <2>1, <2>2, JobMoves DEF SameTables
<1>3. Apart'
  BY StaysApart, EmptyJob
<1>4. \A v \in Workers : jobs'[v] = IF v = w THEN Idle ELSE jobs[v]
  BY DEF ChatInv, JobsOK
<1>5. TurnsAreOver'
  <2>1. \A v \in Workers : jobs'[v].msg \in {jobs[v].msg, Top}
    BY <1>4, EmptyJob
  <2> QED BY <1>1, <2>1, StaysOver DEF SameTables
<1>6. LossOK'
  <2>1. ASSUME NEW m \in Doomed' PROVE m \in Doomed
    <3>1. m \in Messages /\ m \notin settled /\ m # jobs[w].msg
      BY DEF Doomed
    <3>2. \A v \in Workers : v # w => jobs'[v] = jobs[v] /\ (Past(v)' <=> Past(v))
      BY <1>4 DEF Past, Busy
    <3>3. \A v \in Workers : jobs[v].msg = m => jobs'[v].msg = m
      BY <1>4, <3>1
    <3>4. Pending(m) => Pending(m)'
      BY <3>3 DEF Pending, OnTelegram, SameTables
    <3> QED BY <3>1, <3>2, <3>4 DEF Doomed
  <2> QED BY <2>1, StaysLossy DEF SameTables
<1>7. OneSessionPerThread'
  BY ThreadsStay DEF SameTables
<1>8. TablesOK' /\ BatchOK'
  BY DEF ChatInv, TablesOK, BatchOK, SessionRow, SameTables
<1> QED
  BY <1>2, <1>3, <1>5, <1>6, <1>7, <1>8 DEF ChatInv, OnTelegram, SameTables

-----------------------------------------------------------------------------
(* The turn *)

\* The message had no turn and is nobody else's; its session is there.
LEMMA Runs ==
    ASSUME ChatInv, NEW w \in Workers, NEW posts, RunTurn(w, ThreadOf(jobs[w].msg), posts),
           SameFeed, UNCHANGED <<transport, crashes>>
    PROVE  ChatInv'
<1>0. PICK m : m = jobs[w].msg
  OBVIOUS
<1> USE <1>0
<1>1. JobOK(w, jobs[w]) /\ jobs[w] # Idle /\ jobs[w].at = "run"
  BY EmptyJob DEF ChatInv, JobsOK, RunTurn, At
<1>2. /\ m \in Messages /\ turns[m] = 0 /\ Exists(ThreadOf(m)) /\ Past(w) /\ Serves(w)
      /\ DOMAIN jobs[w] = Fields
      /\ OnTelegram => m < offset
      /\ ~OnTelegram => m \in claimed
  BY <1>1 DEF JobOK, Taken, Past, Busy, Serves
<1>3. /\ turns' = [turns EXCEPT ![m] = @ + 1]
      /\ ranIn' = [ranIn EXCEPT ![m] = sessions[ThreadOf(m)].id]
      /\ entries' = entries \cup {[session |-> sessions[ThreadOf(m)].id,
                                   seq |-> NextSeq(sessions[ThreadOf(m)].id), said |-> m]}
      /\ UNCHANGED <<people, identities, bindings, sessions>>
  BY DEF RunTurn, AppendEntry, directory
<1>4. PICK row : /\ jobs' = [jobs EXCEPT ![w] = row]
                 /\ \/ row = Idle /\ settled' = settled \cup {m}
                    \/ /\ settled' = settled /\ row.at = "post"
                       /\ \E rest : row = [jobs[w] EXCEPT !.at = "post", !.rest = rest]
  <2>1. CASE Settle(w)
    BY <2>1 DEF Settle, Stop
  <2>2. CASE \E rest : jobs' = [jobs EXCEPT ![w] = [@ EXCEPT !.at = "post", !.rest = rest]]
             /\ settled' = settled
    <3>1. PICK rest : jobs' = [jobs EXCEPT ![w] = [@ EXCEPT !.at = "post", !.rest = rest]]
      BY <2>2
    <3>2. jobs' = [jobs EXCEPT ![w] = [jobs[w] EXCEPT !.at = "post", !.rest = rest]]
      BY <3>1 DEF ChatInv, JobsOK
    <3>3. [jobs[w] EXCEPT !.at = "post", !.rest = rest].at = "post"
      BY <1>2 DEF Fields, Idle
    <3> QED BY <2>2, <3>2, <3>3
  <2> QED BY <2>1, <2>2 DEF RunTurn
<1>5. offset \in Nat
  BY DEF ChatInv, BatchOK
<1>6. row = Idle \/ /\ DOMAIN row = Fields /\ row.at = "post" /\ row.msg = m
                    /\ row.who = jobs[w].who /\ row.scope = jobs[w].scope
  BY <1>2, <1>4 DEF Fields, Idle
<1>7. turns \in [Messages -> {0, 1}] /\ turns'[m] = 1
      /\ \A n \in Messages : n # m => turns'[n] = turns[n]
  BY <1>2, <1>3 DEF ChatInv, TablesOK
<1>8. JobsOK'
  <2>1. Fits(w, row)
    BY <1>1, <1>2, <1>6 DEF Fits, JobOK, SameFeed, Taken, Steps
  <2>2. ASSUME NEW v \in Workers \ {w}, Busy(v), Past(v) \/ OnTelegram
        PROVE  turns'[jobs[v].msg] = turns[jobs[v].msg]
    <3>1. JobOK(v, jobs[v]) /\ jobs[v] # Idle
      BY <2>2, EmptyJob DEF ChatInv, JobsOK, Busy
    <3>2. ~OnTelegram
      BY <3>1, <1>2 DEF JobOK, Serves, OnTelegram, OnEvents
    <3>3. jobs[v].msg # m
      BY <2>2, <3>2, <1>2 DEF ChatInv, Apart
    <3> QED BY <1>7, <3>1, <3>3 DEF JobOK
  <2>3. Onward(w)
    BY <1>3, <1>5, <2>2 DEF Onward, SameFeed
  <2> QED BY <1>4, <2>1, <2>3, JobMoves
<1>9. Apart'
  BY <1>2, <1>4, <1>6, StaysApart, EmptyJob
<1>10. \A v \in Workers : jobs'[v] = IF v = w THEN row ELSE jobs[v]
  BY <1>4 DEF ChatInv, JobsOK
<1>11. TurnsAreOver'
  <2>1. ASSUME NEW n \in Messages, n # m, Over(n) PROVE Over(n)'
    <3>1. \A v \in Workers : jobs'[v].msg \in {jobs[v].msg, Top}
      BY <1>6, <1>10, EmptyJob
    <3> QED BY <2>1, <3>1, EmptyJob DEF Over, OnTelegram, SameFeed
  <2>2. Over(m)'
    BY <1>2 DEF Over, OnTelegram, SameFeed
  <2> QED BY <1>7, <2>1, <2>2 DEF ChatInv, TurnsAreOver
<1>12. LossOK'
  <2>1. ASSUME NEW n \in Doomed' PROVE n \in Doomed
    <3>1. n \in Messages /\ n \notin settled' /\ settled \subseteq settled'
      BY <1>4 DEF Doomed
    <3>2. n # m
      <4>1. CASE row = Idle /\ settled' = settled \cup {m}
        BY <3>1, <4>1
      <4>2. CASE row.at = "post" /\ row.msg = m
        <5>1. Past(w)' /\ jobs'[w].msg = m
          BY <1>10, <4>2 DEF Past, Busy, Taken
        <5> QED BY <5>1 DEF Doomed
      <4>3. Idle.at # "post"
        BY EmptyJob
      <4> QED BY <1>4, <1>6, <4>1, <4>2, <4>3
    <3>3. \A v \in Workers : v # w => jobs'[v] = jobs[v] /\ (Past(v)' <=> Past(v))
      BY <1>10 DEF Past, Busy
    <3>4. \A v \in Workers : jobs[v].msg = n => jobs'[v].msg = n
      BY <1>10, <3>2
    <3>5. Pending(n) => Pending(n)'
      BY <3>4 DEF Pending, OnTelegram, SameFeed
    <3> QED BY <3>1, <3>2, <3>3, <3>5 DEF Doomed, SameFeed
  <2> QED BY <2>1, StaysLossy
<1>13. OneSessionPerThread'
  <2>1. \A n : (ThreadOf(n))' = ThreadOf(n)
    BY SameThreads
  <2>2. ASSUME NEW n \in Messages, turns'[n] > 0
        PROVE  /\ sessions[ThreadOf(n)] # NoSession
               /\ ranIn'[n] = sessions[ThreadOf(n)].id
               /\ \E e \in entries' : e.session = ranIn'[n] /\ e.said = n
    <3>1. CASE n = m
      <4>1. ranIn'[m] = sessions[ThreadOf(m)].id
        BY <1>2, <1>3 DEF ChatInv, TablesOK
      <4>2. PICK e \in entries' : e.session = sessions[ThreadOf(m)].id /\ e.said = m
        <5> DEFINE new == [session |-> sessions[ThreadOf(m)].id,
                           seq |-> NextSeq(sessions[ThreadOf(m)].id), said |-> m]
        <5>1. new \in entries'
          BY <1>3
        <5>2. new.session = sessions[ThreadOf(m)].id /\ new.said = m
          OBVIOUS
        <5> HIDE DEF new
        <5> QED BY <5>1, <5>2
      <4>3. sessions[ThreadOf(m)] # NoSession
        BY <1>2 DEF Exists
      <4> HIDE <1>0
      <4> QED BY <3>1, <4>1, <4>2, <4>3
    <3>2. CASE n # m
      <4>1. /\ Exists(ThreadOf(n)) /\ ranIn[n] = sessions[ThreadOf(n)].id
            /\ \E e \in History(ranIn[n]) : e.said = n
        BY <1>7, <2>2, <3>2 DEF ChatInv, OneSessionPerThread
      <4>2. ranIn'[n] = ranIn[n]
        BY <1>3, <3>2 DEF ChatInv, TablesOK
      <4> QED BY <1>3, <4>1, <4>2 DEF Exists, History
    <3> QED BY <3>1, <3>2
  <2> QED BY <1>3, <2>1, <2>2 DEF OneSessionPerThread, Exists, History
<1>14. TablesOK' /\ BatchOK'
  <2>1. turns' \in [Messages -> {0, 1}] /\ settled' \subseteq Messages /\ DOMAIN ranIn' = Messages
    BY <1>2, <1>3, <1>4, <1>7 DEF ChatInv, TablesOK
  <2> QED BY <1>3, <2>1 DEF ChatInv, TablesOK, BatchOK, SessionRow, SameFeed
<1> QED
  BY <1>8, <1>9, <1>11, <1>12, <1>13, <1>14 DEF ChatInv, OnTelegram, SameFeed

-----------------------------------------------------------------------------
(* The sweep and the crash *)

\* A row that is swept is of no job, and of no event that Slack still sends.
LEMMA Sweeps ==
    ASSUME ChatInv, SweepDedupe, ~OnTelegram, UNCHANGED telegram, Fixed
    PROVE  ChatInv'
<1>1. /\ SameTables /\ UNCHANGED <<held, offset, batch, jobs, settled>>
      /\ claimed' = claimed \cap held
  BY DEF SweepDedupe, SameTables, directory, log, work, telegram, Fixed
<1>2. \A w \in Workers : jobs[w] = Idle /\ jobs[w].msg \notin Messages /\ ~Past(w)
  BY IdleHasNone DEF SweepDedupe
<1>3. TablesOK' /\ BatchOK'
  BY <1>1 DEF ChatInv, TablesOK, BatchOK, SessionRow, SameTables
<1>4. JobsOK' /\ Apart'
  BY <1>1, <1>2 DEF ChatInv, JobsOK, JobOK, Apart, Past, Busy
<1>5. TurnsAreOver'
  <2>1. ASSUME NEW m \in Messages, Over(m) PROVE Over(m)'
    BY <1>1, <1>2, <2>1 DEF Over, OnTelegram, SameTables
  <2> QED BY <1>1, <2>1 DEF ChatInv, TurnsAreOver, SameTables
<1>6. LossOK'
  <2>1. Doomed' \subseteq Doomed
    BY <1>1 DEF Doomed, Pending, Past, Busy, OnTelegram, SameTables
  <2> QED BY <1>1, <2>1, StaysLossy DEF SameTables
<1>7. OneSessionPerThread'
  BY <1>1, ThreadsStay DEF SameTables
<1> QED
  BY <1>1, <1>3, <1>4, <1>5, <1>6, <1>7 DEF ChatInv, OnTelegram, SameTables

\* What a process has in hand when it dies.
InHand == {jobs[w].msg : w \in {v \in Workers : Busy(v)}}

LEMMA HandsAreFew ==
    ASSUME ChatInv
    PROVE  IsFiniteSet(InHand) /\ Cardinality(InHand) <= Parallel
<1>1. CASE OnEvents
  <2> DEFINE W == {v \in Workers : Busy(v)}
  <2>1. IsFiniteSet(W) /\ Cardinality(W) <= Cardinality(Workers)
    BY ConnectorsAssumption, FS_Subset
  <2>2. \A w \in W : jobs[w].msg \in InHand
    BY DEF InHand
  <2> DEFINE f == [w \in W |-> jobs[w].msg]
  <2>3. f \in Surjection(W, InHand)
    BY DEF InHand, Surjection
  <2>4. IsFiniteSet(InHand) /\ Cardinality(InHand) <= Cardinality(W)
    BY <2>1, <2>3, FS_Surjection
  <2>5. /\ Cardinality(InHand) \in Nat /\ Cardinality(W) \in Nat
        /\ Cardinality(Workers) \in Nat
    BY <2>1, <2>4, ConnectorsAssumption, FS_CardinalityType
  <2> QED BY <1>1, <2>1, <2>4, <2>5 DEF Parallel
<1>2. CASE ~OnEvents
  <2>1. \A w \in Workers : Busy(w) => w = First
    BY <1>2, EmptyJob DEF ChatInv, JobsOK, JobOK, Busy
  <2>2. InHand \subseteq {jobs[First].msg}
    BY <2>1 DEF InHand
  <2>3. IsFiniteSet({jobs[First].msg}) /\ Cardinality({jobs[First].msg}) = 1
    BY FS_Singleton
  <2> QED BY <1>2, <2>2, <2>3, FS_Subset DEF Parallel
<1> QED BY <1>1, <1>2

LEMMA Crashes ==
    ASSUME ChatInv, Crash, crashes' = crashes + 1, transport' = transport
    PROVE  ChatInv'
<1>1. /\ jobs' = [w \in Workers |-> Idle] /\ batch' = <<>>
      /\ UNCHANGED <<people, identities, bindings, sessions, entries, held, claimed, offset,
                     settled, turns, ranIn>>
  BY DEF Crash, directory, log
<1>2. TablesOK' /\ BatchOK'
  BY <1>1 DEF ChatInv, TablesOK, BatchOK, SessionRow
<1>3. JobsOK' /\ Apart'
  BY <1>1, EmptyJob DEF JobsOK, JobOK, Apart, Past, Busy
<1>4. TurnsAreOver'
  <2>1. ASSUME NEW m \in Messages, Over(m) PROVE Over(m)'
    BY <1>1, <2>1, EmptyJob DEF Over, OnTelegram
  <2> QED BY <1>1, <2>1 DEF ChatInv, TurnsAreOver
<1>5. LossOK'
  <2>1. ASSUME NEW m \in Doomed' PROVE m \in Doomed \cup InHand
    <3>1. SUFFICES ASSUME m \notin InHand PROVE m \in Doomed
      OBVIOUS
    <3>2. m \in Messages /\ m \notin settled /\ (m \in claimed \/ ~Pending(m)')
      BY <1>1 DEF Doomed
    <3>3. \A w \in Workers : Busy(w) => jobs[w].msg # m
      BY <3>1 DEF InHand
    <3>4. \A w \in Workers : jobs[w].msg # m
      BY <3>2, <3>3, IdleHasNone
    <3>5. Pending(m) => Pending(m)'
      BY <3>4, <1>1 DEF Pending, OnTelegram
    <3> QED BY <3>2, <3>4, <3>5 DEF Doomed
  <2>2. IsFiniteSet(Doomed)
    BY TelegramAssumption, FS_Subset DEF Doomed
  <2>3. /\ IsFiniteSet(Doomed \cup InHand)
        /\ Cardinality(Doomed \cup InHand)
              = Cardinality(Doomed) + Cardinality(InHand) - Cardinality(Doomed \cap InHand)
    BY <2>2, HandsAreFew, FS_Union
  <2>4. IsFiniteSet(Doomed \cap InHand)
    BY <2>2, FS_Intersection
  <2>5. /\ Cardinality(Doomed) \in Nat /\ Cardinality(InHand) \in Nat
        /\ Cardinality(Doomed \cap InHand) \in Nat
    BY <2>2, <2>4, HandsAreFew, FS_CardinalityType
  <2>6. IsFiniteSet(Doomed') /\ Cardinality(Doomed') <= Cardinality(Doomed \cup InHand)
    BY <2>1, <2>3, FS_Subset
  <2>7. Cardinality(Doomed') \in Nat
    BY <2>6, FS_CardinalityType
  <2>8. Cardinality(Doomed') <= Cardinality(Doomed) + Parallel
    BY <2>3, <2>5, <2>6, <2>7, HandsAreFew, ParallelIsNat
  <2>9. Cardinality(Doomed) <= crashes * Parallel
    BY DEF ChatInv, LossOK
  <2>10. (crashes + 1) * Parallel = crashes * Parallel + Parallel /\ crashes * Parallel \in Nat
    BY ParallelIsNat DEF ChatInv, TablesOK
  <2>11. Parallel' = Parallel
    BY DEF Parallel, OnEvents
  <2> QED BY <2>5, <2>7, <2>8, <2>9, <2>10, <2>11, ParallelIsNat DEF LossOK
<1>6. OneSessionPerThread'
  BY <1>1, ThreadsStay
<1> QED
  BY <1>1, <1>2, <1>3, <1>4, <1>5, <1>6 DEF ChatInv, OnTelegram

-----------------------------------------------------------------------------
(* The actions *)

\* A job goes to its next step.
LEMMA GoesTo ==
    ASSUME ChatInv, NEW w \in Workers, NEW step \in Steps \ {"claim"}, GoTo(w, step),
           Past(w), jobs[w].at # "post", SameFeed,
           UNCHANGED <<transport, identities, bindings, settled, turns, ranIn, entries, crashes>>,
           step = "run" => sessions'[ThreadOf(jobs[w].msg)] # NoSession,
           people' \in [People -> Person],
           DOMAIN sessions' = Threads,
           \A t \in Threads : /\ sessions'[t] \in SessionRow(t)
                              /\ Exists(t) => sessions'[t] = sessions[t]
    PROVE  ChatInv'
<1> DEFINE row == [jobs[w] EXCEPT !.at = step]
<1>1. DOMAIN jobs[w] = Fields
  BY EmptyJob DEF ChatInv, JobsOK, JobOK, Past, Busy
<1>2. /\ DOMAIN row = Fields /\ row.at = step /\ row.msg = jobs[w].msg
      /\ row.who = jobs[w].who /\ row.scope = jobs[w].scope
  BY <1>1 DEF Fields, Idle
<1>3. jobs' = [jobs EXCEPT ![w] = row]
  BY DEF GoTo, ChatInv, JobsOK
<1>4. Taken(row)
  BY <1>2 DEF Taken
<1> HIDE DEF row
<1> QED BY <1>2, <1>3, <1>4, Advances

\* What holds of a job that is at a step after its claim.
LEMMA Midway ==
    ASSUME ChatInv, NEW w \in Workers, NEW step \in Steps \ {"claim"}, At(w, step)
    PROVE  /\ Past(w) /\ Busy(w) /\ jobs[w].msg \in Messages /\ DOMAIN jobs[w] = Fields
           /\ jobs[w].who \in People /\ jobs[w].scope \in Scopes
           /\ ThreadOf(jobs[w].msg) \in Threads
           /\ people \in [People -> Person]
           /\ DOMAIN sessions = Threads /\ \A t \in Threads : sessions[t] \in SessionRow(t)
<1>1. jobs[w] # Idle /\ Taken(jobs[w]) /\ Past(w) /\ Busy(w)
  BY EmptyJob DEF At, Taken, Past, Busy
<1>2. JobOK(w, jobs[w])
  BY DEF ChatInv, JobsOK
<1> QED BY <1>1, <1>2, ThreadsExist DEF JobOK, ChatInv, TablesOK

Served(w) == SameFeed /\ UNCHANGED <<transport, crashes>>

LEMMA PersonStep ==
    ASSUME ChatInv, NEW w \in Workers, NEW kind \in Kinds, WritePerson(w, kind), Served(w)
    PROVE  ChatInv'
<1>1. At(w, "person") /\ "person" \in Steps \ {"claim"}
  BY DEF WritePerson, Steps
<1>2. people' \in [People -> Person]
  <2>1. [kind |-> kind, active |-> TRUE] \in Person
    BY DEF Person
  <2>2. Known(jobs[w].who) => [people[jobs[w].who] EXCEPT !.kind = kind] \in Person
    BY <1>1, Midway DEF Known, Person, NoPerson
  <2> QED BY <1>1, <2>1, <2>2, Midway DEF WritePerson, UpsertPrincipal
<1>3. PICK step \in {"channel", "find"} : GoTo(w, step)
  BY DEF WritePerson
<1>4. UNCHANGED <<identities, bindings, settled, turns, ranIn, entries, sessions>>
  BY DEF WritePerson, log, Unchanged_run
<1>5. jobs[w].at # "post" /\ step \in Steps \ {"claim"} /\ step # "run"
  BY <1>1 DEF At, Steps
<1> QED BY <1>1, <1>2, <1>3, <1>4, <1>5, Midway, GoesTo DEF Served

LEMMA ChannelStep ==
    ASSUME ChatInv, NEW w \in Workers, WriteChannel(w) \/ WriteMember(w), Served(w)
    PROVE  ChatInv'
<1>1. PICK at \in {"channel", "member"} : At(w, at)
  BY DEF WriteChannel, WriteMember
<1>2. at \in Steps \ {"claim"}
  BY DEF Steps
<1>3. PICK step \in {"member", "find"} : GoTo(w, step)
  BY DEF WriteChannel, WriteMember
<1>4. UNCHANGED <<people, identities, bindings, settled, turns, ranIn, entries, sessions>>
  BY DEF WriteChannel, WriteMember, log, Unchanged_run
<1>5. jobs[w].at # "post" /\ step \in Steps \ {"claim"} /\ step # "run"
  BY <1>1 DEF At, Steps
<1>6. Past(w) /\ people \in [People -> Person]
      /\ DOMAIN sessions = Threads /\ \A t \in Threads : sessions[t] \in SessionRow(t)
  BY <1>1, <1>2, Midway
<1> QED BY <1>3, <1>4, <1>5, <1>6, GoesTo DEF Served

\* Whoever sees no session inserts one, or finds that of another.
LEMMA SessionStep ==
    ASSUME ChatInv, NEW w \in Workers, NEW thread, thread = ThreadOf(jobs[w].msg),
           FindSession(w, thread) \/ InsertSession(w, thread), Served(w)
    PROVE  ChatInv'
<1>1. PICK at \in {"find", "insert"} : At(w, at)
  BY DEF FindSession, InsertSession
<1>2. at \in Steps \ {"claim"}
  BY DEF Steps
<1>3. /\ Past(w) /\ people \in [People -> Person] /\ jobs[w].msg \in Messages
      /\ jobs[w].scope \in Scopes /\ thread \in Threads
      /\ DOMAIN sessions = Threads /\ \A t \in Threads : sessions[t] \in SessionRow(t)
  BY <1>1, <1>2, Midway
<1>4. PICK step \in {"run", "insert"} :
          /\ GoTo(w, step)
          /\ step = "run" => Exists(thread) \/ InsertSession(w, thread)
  BY DEF FindSession, InsertSession
<1>5. UNCHANGED <<people, identities, bindings, settled, turns, ranIn, entries>>
  BY DEF FindSession, InsertSession, directory, log, Unchanged_run
<1>6. jobs[w].at # "post" /\ step \in Steps \ {"claim"}
  BY <1>1 DEF At, Steps
<1> DEFINE row == [id |-> jobs[w].msg, scope |-> jobs[w].scope]
<1>7. row \in SessionRow(thread) /\ row # NoSession
  BY <1>3, InboundAssumption DEF SessionRow
<1>8. \/ sessions' = sessions
      \/ sessions' = [sessions EXCEPT ![thread] = row] /\ ~Exists(thread)
  BY DEF FindSession, InsertSession, Open, log
<1>9. InsertSession(w, thread) => Exists(thread) \/ sessions' = [sessions EXCEPT ![thread] = row]
  BY DEF InsertSession, Open
<1> HIDE DEF row
<1>10. /\ DOMAIN sessions' = Threads
       /\ \A t \in Threads : /\ sessions'[t] \in SessionRow(t)
                             /\ Exists(t) => sessions'[t] = sessions[t]
  BY <1>3, <1>7, <1>8 DEF SessionRow, Exists
<1>11. step = "run" => sessions'[thread] # NoSession
  BY <1>3, <1>4, <1>7, <1>8, <1>9 DEF Exists
<1> QED BY <1>3, <1>4, <1>5, <1>6, <1>10, <1>11, GoesTo DEF Served

LEMMA PostStep ==
    ASSUME ChatInv, NEW w \in Workers, Post(w), Served(w)
    PROVE  ChatInv'
<1>1. At(w, "post") /\ "post" \in Steps \ {"claim"}
  BY DEF Post, Steps
<1>2. /\ Past(w) /\ Busy(w) /\ people \in [People -> Person] /\ DOMAIN jobs[w] = Fields
      /\ DOMAIN sessions = Threads /\ \A t \in Threads : sessions[t] \in SessionRow(t)
  BY <1>1, Midway
<1>3. UNCHANGED <<people, identities, bindings, sessions, entries, turns, ranIn>>
  BY DEF Post, directory, log
<1>4. CASE Settle(w)
  BY <1>2, <1>3, <1>4, Ends DEF Settle, Stop, Served, SameTables
<1>5. CASE jobs' = [jobs EXCEPT ![w].rest = Tail(@)] /\ settled' = settled
  <2> DEFINE row == [jobs[w] EXCEPT !.rest = Tail(jobs[w].rest)]
  <2>1. jobs' = [jobs EXCEPT ![w] = row]
    BY <1>5 DEF ChatInv, JobsOK
  <2>2. /\ DOMAIN row = Fields /\ row.at = "post" /\ row.msg = jobs[w].msg
        /\ row.who = jobs[w].who /\ row.scope = jobs[w].scope
    BY <1>1, <1>2 DEF Fields, Idle, At
  <2> HIDE DEF row
  <2>3. Taken(row) /\ row.at \in Steps
    BY <2>2 DEF Taken, Steps
  <2> QED BY <1>2, <1>3, <1>5, <2>1, <2>2, <2>3, Advances DEF Served
<1> QED BY <1>4, <1>5 DEF Post

LEMMA GiveUpStep ==
    ASSUME ChatInv, NEW w \in Workers, GiveUp(w), Served(w)
    PROVE  ChatInv'
BY Ends DEF GiveUp, Settle, Stop, Served, SameTables, directory, log, Unchanged_run

LEMMA ClaimStep ==
    ASSUME ChatInv, NEW w \in Workers, Claim(w), ~OnTelegram, UNCHANGED telegram, Fixed
    PROVE  ChatInv'
<1>1. /\ At(w, "claim") /\ claimed' = claimed \cup {jobs[w].msg}
      /\ SameTables /\ UNCHANGED <<held, offset, batch>>
  BY DEF Claim, SameTables, directory, log, Unchanged_run, telegram, Fixed
<1>2. CASE jobs[w].msg \in claimed /\ Stop(w) /\ settled' = settled
  <2>1. claimed' = claimed
    BY <1>1, <1>2
  <2> QED BY <1>1, <1>2, <2>1, ComesSecond DEF Stop, SameFeed
<1>3. CASE Settle(w)
  BY <1>1, <1>3, NotForUs DEF Settle, Stop
<1>4. CASE jobs[w].msg \notin claimed /\ Route(w) /\ settled' = settled
  <2>1. jobs' = [jobs EXCEPT ![w] = Routed(w)]
    BY <1>4 DEF Route, Routed, ChatInv, JobsOK
  <2> QED BY <1>1, <1>4, <2>1, Routes
<1> QED BY <1>2, <1>3, <1>4 DEF Claim

LEMMA ReadStep ==
    ASSUME ChatInv, NEW w \in Workers, ReadUpdate(w), OnTelegram, UNCHANGED slack, Fixed
    PROVE  ChatInv'
<1>1. jobs' = [jobs EXCEPT ![w] = Routed(w)]
  BY DEF ReadUpdate, Route, Routed, ChatInv, JobsOK
<1> QED BY <1>1, Routes DEF ReadUpdate, SameTables, directory, log, Unchanged_run, slack, Fixed

LEMMA PollStep ==
    ASSUME ChatInv, NEW w \in Workers, Poll(w) \/ PollFails(w), UNCHANGED slack,
           UNCHANGED <<transport, crashes>>
    PROVE  ChatInv'
<1>1. /\ UNCHANGED <<people, identities, bindings, sessions, entries, turns, ranIn>>
      /\ UNCHANGED <<held, claimed, offset, jobs, settled>>
  BY DEF Poll, PollFails, directory, log, work, slack
<1>2. BatchOK'
  <2>1. CASE batch' = <<>>
    BY <1>1, <2>1 DEF ChatInv, BatchOK
  <2>2. ASSUME NEW last \in offset..Cardinality(Messages),
               batch' = [i \in 1..(last - offset + 1) |-> offset + i - 1]
        PROVE  BatchOK'
    <3>1. offset \in Nat /\ offset >= 1 /\ last \in Nat /\ Cardinality(Messages) \in Nat
      BY TelegramAssumption, FS_CardinalityType DEF ChatInv, BatchOK
    <3>2. \A i \in 1..(last - offset + 1) : offset + i - 1 \in Messages
      BY <3>1, <2>2, TelegramAssumption
    <3>3. last - offset + 1 \in Nat
      BY <3>1, <2>2
    <3>4. batch' \in Seq(Messages)
      BY <2>2, <3>2, <3>3
    <3> QED BY <1>1, <2>2, <3>1, <3>4 DEF BatchOK
  <2> QED BY <2>1, <2>2 DEF Poll, PollFails
<1>3. identities \in [Accounts -> People \cup {Nobody}]
      /\ bindings \in [Chats -> SharedScopes \cup {NoScope}]
  BY DEF ChatInv, TablesOK
<1> QED BY <1>1, <1>2, <1>3, Rests

LEMMA AdministerStep ==
    ASSUME ChatInv, Administer
    PROVE  ChatInv'
<1>1. /\ UNCHANGED <<transport, people, sessions, entries, turns, ranIn, crashes>>
      /\ UNCHANGED <<held, claimed, offset, batch, jobs, settled>>
  BY DEF Administer, LinkAccount, BindChat, log, slack, telegram
<1>2. /\ identities \in [Accounts -> People \cup {Nobody}]
      /\ bindings \in [Chats -> SharedScopes \cup {NoScope}]
  BY DEF ChatInv, TablesOK
<1>3. identities' \in [Accounts -> People \cup {Nobody}]
  <2>1. CASE LinkAccount
    BY <1>2, <2>1, ConnectorsAssumption DEF LinkAccount, LinkIdentity, UnlinkIdentity
  <2>2. CASE BindChat
    BY <1>2, <2>2 DEF BindChat
  <2> QED BY <2>1, <2>2 DEF Administer
<1>4. bindings' \in [Chats -> SharedScopes \cup {NoScope}]
  <2>1. CASE LinkAccount
    BY <1>2, <2>1 DEF LinkAccount
  <2>2. ASSUME NEW c, NEW s \in Bindable, LinkChannel(c, s)
        PROVE  bindings' \in [Chats -> SharedScopes \cup {NoScope}]
    <3>1. s \in Scopes /\ s.kind \in {"channel", "group"}
      BY <2>2, ConnectorsAssumption DEF LinkChannel, IsShared
    <3>2. s \in SharedScopes
      BY <3>1 DEF Scopes, Personal, Org
    <3> QED BY <1>2, <2>2, <3>2 DEF LinkChannel
  <2>3. ASSUME NEW c, UnlinkChannel(c)
        PROVE  bindings' \in [Chats -> SharedScopes \cup {NoScope}]
    BY <1>2, <2>3 DEF UnlinkChannel
  <2> QED BY <2>1, <2>2, <2>3 DEF Administer, BindChat
<1>5. BatchOK'
  BY <1>1 DEF ChatInv, BatchOK
<1> QED BY <1>1, <1>3, <1>4, <1>5, Rests

\* Steps in which no message moves.
LEMMA QuietStep ==
    ASSUME ChatInv,
           \/ Connect \/ Disconnect \/ \E w \in Workers, m \in Messages : FrameNotAcked(w, m),
           UNCHANGED <<telegram, transport, crashes>>
    PROVE  ChatInv'
<1>1. /\ UNCHANGED <<people, identities, bindings, sessions, entries, turns, ranIn>>
      /\ UNCHANGED <<held, claimed, offset, batch, jobs, settled>>
  BY DEF Connect, Disconnect, FrameNotAcked, directory, log, work, telegram
<1>2. /\ identities \in [Accounts -> People \cup {Nobody}]
      /\ bindings \in [Chats -> SharedScopes \cup {NoScope}]
  BY DEF ChatInv, TablesOK
<1>3. BatchOK'
  BY <1>1 DEF ChatInv, BatchOK
<1> QED BY <1>1, <1>2, <1>3, Rests

LEMMA TakeStep ==
    ASSUME ChatInv, ~OnTelegram, NEW w \in Workers, Serves(w), NEW m \in Messages, NEW still,
           held \ {m} \subseteq still, still \subseteq held,
           Frame(w, m, still) \/ Request(w, m, still),
           UNCHANGED <<telegram, transport, crashes>>
    PROVE  ChatInv'
<1>1. /\ m \in held /\ ~Busy(w) /\ jobs' = [jobs EXCEPT ![w] = TakenRow(m)]
      /\ held' = still /\ UNCHANGED <<claimed, settled>>
      /\ UNCHANGED <<people, identities, bindings, sessions, entries, turns, ranIn>>
  BY DEF Frame, Request, Deliver, Take, TakenRow, directory, log, Unchanged_run
<1> QED BY <1>1, Takes DEF SameTables, telegram

LEMMA KindsOfPeople == \A a : KindOf(a) \in Kinds
BY DEF KindOf, Kinds

LEMMA SlackJobStep ==
    ASSUME ChatInv, ~OnTelegram, NEW w \in Workers,
           SlackStep(w) \/ ReplyOnSocket(w) \/ ReplyOnEvents(w) \/ PostMessage(w),
           UNCHANGED telegram, Fixed
    PROVE  ChatInv'
<1>1. Served(w)
  BY DEF SlackStep, ReplyOnSocket, ReplyOnEvents, PostMessage, Served, SameFeed, slack, telegram,
         Fixed
<1>2. SlackThread(jobs[w].msg) = ThreadOf(jobs[w].msg)
  BY DEF ThreadOf
<1>3. CASE SlackStep(w)
  BY <1>1, <1>2, <1>3, KindsOfPeople, PersonStep, ChannelStep, SessionStep DEF SlackStep
<1>4. CASE ReplyOnSocket(w) \/ ReplyOnEvents(w)
  BY <1>1, <1>2, <1>4, Runs DEF ReplyOnSocket, ReplyOnEvents, Served
<1>5. CASE PostMessage(w)
  BY <1>1, <1>5, PostStep DEF PostMessage
<1> QED BY <1>3, <1>4, <1>5

LEMMA SocketSteps == ASSUME ChatInv, SocketStep PROVE ChatInv'
<1>1. ~OnTelegram /\ Serves(First) /\ UNCHANGED telegram /\ Fixed
  BY DEF SocketStep, OnSocket, OnTelegram, OnEvents, Serves
<1>2. ASSUME NEW m \in Messages, Frame(First, m, held \ {m}) PROVE ChatInv'
  BY <1>1, <1>2, FirstWorks, TakeStep DEF Fixed
<1>3. CASE Connect
  BY <1>1, <1>3, QuietStep DEF Fixed
<1>4. CASE Claim(First)
  BY <1>1, <1>4, FirstWorks, ClaimStep
<1>5. CASE SlackStep(First) \/ ReplyOnSocket(First) \/ PostMessage(First)
  BY <1>1, <1>5, FirstWorks, SlackJobStep
<1> QED BY <1>2, <1>3, <1>4, <1>5 DEF SocketStep

LEMMA EventsSteps == ASSUME ChatInv, EventsStep PROVE ChatInv'
<1>1. ~OnTelegram /\ (\A w : Serves(w)) /\ UNCHANGED telegram /\ Fixed
  BY DEF EventsStep, OnTelegram, OnEvents, Serves
<1>2. ASSUME NEW m \in Messages, NEW w \in Workers, Request(w, m, held \ {m}) PROVE ChatInv'
  BY <1>1, <1>2, TakeStep DEF Fixed
<1>3. ASSUME NEW w \in Workers, Claim(w) PROVE ChatInv'
  BY <1>1, <1>3, ClaimStep
<1>4. ASSUME NEW w \in Workers, SlackStep(w) \/ ReplyOnEvents(w) PROVE ChatInv'
  BY <1>1, <1>4, SlackJobStep
<1> QED BY <1>2, <1>3, <1>4 DEF EventsStep

LEMMA TelegramSteps == ASSUME ChatInv, TelegramLoop PROVE ChatInv'
<1>1. OnTelegram /\ Serves(First) /\ UNCHANGED slack /\ Fixed
  BY FirstWorks DEF TelegramLoop, Serves
<1>2. CASE Poll(First)
  BY <1>1, <1>2, FirstWorks, PollStep DEF Fixed
<1>3. CASE NextUpdate(First)
  BY <1>1, <1>3, FirstWorks, Updates DEF slack, Fixed
<1>4. CASE ReadUpdate(First)
  BY <1>1, <1>4, FirstWorks, ReadStep
<1>5. CASE TelegramStep(First) \/ Send(First)
  <2>1. Served(First)
    BY <1>1, <1>5 DEF TelegramStep, Send, Served, SameFeed, slack, telegram, Fixed
  <2>2. TelegramThread(jobs[First].msg) = ThreadOf(jobs[First].msg)
    BY <1>1 DEF ThreadOf
  <2>3. CASE RunTurn(First, TelegramThread(jobs[First].msg), TRUE)
    BY <2>1, <2>2, <2>3, FirstWorks, Runs DEF Served
  <2>4. CASE Send(First)
    BY <2>1, <2>4, FirstWorks, PostStep DEF Send
  <2> QED BY <1>5, <2>1, <2>2, <2>3, <2>4, FirstWorks, KindsOfPeople,
             PersonStep, ChannelStep, SessionStep DEF TelegramStep
<1> QED BY <1>2, <1>3, <1>4, <1>5 DEF TelegramLoop

LEMMA FaultSteps == ASSUME ChatInv, Fault PROVE ChatInv'
<1>1. transport' = transport
  BY DEF Fault
<1>2. CASE Crash /\ crashes' = crashes + 1
  BY <1>1, <1>2, Crashes
<1>3. CASE OnSocket /\ Disconnect /\ UNCHANGED <<telegram, crashes>>
  BY <1>1, <1>3, QuietStep
<1>4. ASSUME OnSocket, NEW m \in Messages, FrameNotAcked(First, m) \/ Frame(First, m, held),
             UNCHANGED <<telegram, crashes>>
      PROVE  ChatInv'
  <2>1. ~OnTelegram /\ Serves(First)
    BY <1>4 DEF OnSocket, OnTelegram, OnEvents, Serves
  <2>2. CASE FrameNotAcked(First, m)
    BY <1>1, <1>4, <2>2, FirstWorks, QuietStep
  <2>3. CASE Frame(First, m, held)
    BY <1>1, <1>4, <2>1, <2>3, FirstWorks, TakeStep
  <2> QED BY <1>4, <2>2, <2>3
<1>5. ASSUME OnEvents, NEW m \in Messages, NEW w \in Workers, Request(w, m, held),
             UNCHANGED <<telegram, crashes>>
      PROVE  ChatInv'
  <2>1. ~OnTelegram /\ Serves(w)
    BY <1>5 DEF OnTelegram, OnEvents, Serves
  <2> QED BY <1>1, <1>5, <2>1, TakeStep
<1>6. CASE OnTelegram /\ PollFails(First) /\ UNCHANGED <<slack, crashes>>
  BY <1>1, <1>6, FirstWorks, PollStep
<1>7. ASSUME NEW w \in Workers, Fails(w), UNCHANGED crashes
      PROVE  ChatInv'
  BY <1>1, <1>7, GiveUpStep DEF Fails, Served, SameFeed, slack, telegram
<1> QED BY <1>2, <1>3, <1>4, <1>5, <1>6, <1>7 DEF Fault

-----------------------------------------------------------------------------
(* The invariant holds *)

LEMMA InitChat == Init => ChatInv
<1> SUFFICES ASSUME Init PROVE ChatInv
  OBVIOUS
<1> USE DEF Init, InboundInit, SlackInit, TelegramInit
<1>1. TablesOK
  <2>1. people \in [People -> Person]
    BY DEF Person, Kinds
  <2>2. transport \in {"socket", "events", "telegram"}
    BY ConnectorsAssumption
  <2> QED BY <2>1, <2>2 DEF TablesOK, SessionRow, Threads
<1>2. BatchOK /\ JobsOK /\ Apart /\ TurnsAreOver
  BY EmptyJob DEF BatchOK, JobsOK, JobOK, Apart, Past, Busy, TurnsAreOver
<1>3. OneSessionPerThread
  BY DEF OneSessionPerThread
<1>4. LossOK
  <2>1. \A m \in Messages : Pending(m)
    BY TelegramAssumption, FS_CardinalityType DEF Pending
  <2>2. Doomed = {}
    BY <2>1 DEF Doomed
  <2> QED BY <2>2, FS_EmptySet, ParallelIsNat DEF LossOK
<1> QED BY <1>1, <1>2, <1>3, <1>4 DEF ChatInv

LEMMA ChatStep == ChatInv /\ [Next]_vars => ChatInv'
<1> SUFFICES ASSUME ChatInv, [Next]_vars PROVE ChatInv'
  OBVIOUS
<1>1. CASE Server
  BY <1>1, SocketSteps, EventsSteps, TelegramSteps DEF Server
<1>2. CASE Sweep
  BY <1>2, Sweeps DEF Sweep
<1>3. CASE Fault
  BY <1>3, FaultSteps
<1>4. CASE Administer
  BY <1>4, AdministerStep
<1>5. CASE UNCHANGED vars
  <2>1. /\ UNCHANGED <<transport, people, sessions, entries, turns, ranIn, crashes>>
        /\ UNCHANGED <<held, claimed, offset, batch, jobs, settled, identities, bindings>>
    BY <1>5 DEF vars, directory, log, work, slack, telegram
  <2>2. /\ identities \in [Accounts -> People \cup {Nobody}]
        /\ bindings \in [Chats -> SharedScopes \cup {NoScope}]
    BY DEF ChatInv, TablesOK
  <2>3. BatchOK'
    BY <2>1 DEF ChatInv, BatchOK
  <2> QED BY <2>1, <2>2, <2>3, Rests
<1> QED BY <1>1, <1>2, <1>3, <1>4, <1>5 DEF Next

LEMMA ChatHolds == Spec => []ChatInv
BY InitChat, ChatStep, PTL DEF Spec

\* However often Slack and Telegram deliver a message, to however many tasks,
\* and whenever the process dies, at most one turn is started for it.
THEOREM TurnsRunOnce == Spec => []OneTurnPerMessage
<1>1. ChatInv => OneTurnPerMessage
  BY DEF ChatInv, TablesOK, OneTurnPerMessage
<1> QED BY <1>1, ChatHolds, PTL

\* All turns of a thread ran in the one session that is found for it today,
\* however many tasks looked for it at once before there was one.
THEOREM ThreadsKeepTheirSession == Spec => []OneSessionPerThread
<1>1. ChatInv => OneSessionPerThread
  BY DEF ChatInv
<1> QED BY <1>1, ChatHolds, PTL

\* The messages that are lost are at most as many as were being handled when
\* the process died, each time it did: none is lost without a crash.
THEOREM CrashesBoundTheLoss == Spec => []LossIsBounded
<1>1. ASSUME ChatInv PROVE LossIsBounded
  <2> DEFINE lost == {m \in Messages : ~Pending(m) /\ m \notin settled}
  <2>1. lost \subseteq Doomed
    BY DEF Doomed, Pending
  <2>2. IsFiniteSet(Doomed)
    BY TelegramAssumption, FS_Subset DEF Doomed
  <2>3. /\ Cardinality(lost) <= Cardinality(Doomed)
        /\ Cardinality(lost) \in Nat /\ Cardinality(Doomed) \in Nat
    BY <2>1, <2>2, FS_Subset, FS_CardinalityType
  <2>4. crashes * Parallel \in Nat
    BY <1>1, ParallelIsNat DEF ChatInv, TablesOK
  <2>5. Cardinality(Doomed) <= crashes * Parallel
    BY <1>1 DEF ChatInv, LossOK
  <2>6. Cardinality(lost) <= crashes * Parallel
    BY <2>3, <2>4, <2>5
  <2> QED BY <2>6 DEF LossIsBounded
<1> QED BY <1>1, ChatHolds, PTL

\* Only the step that writes a sender down touches a person.
LEMMA WhoWritesPeople ==
    ASSUME ChatInv, [Next]_vars
    PROVE  \/ people' = people
           \/ \E w \in Workers : WritePerson(w, KindOf(Msg(w).account))
<1> USE DEF directory, work, SlackStep, TelegramStep
<1>1. CASE SocketStep
  BY <1>1, FirstWorks DEF SocketStep, Connect, Frame, Claim, FindSession, InsertSession, RunTurn, Post,
         WriteChannel, WriteMember, ReplyOnSocket, PostMessage
<1>2. CASE EventsStep
  BY <1>2 DEF EventsStep, Request, Claim, FindSession, InsertSession, RunTurn, WriteChannel,
         WriteMember, ReplyOnEvents
<1>3. CASE TelegramLoop
  BY <1>3, FirstWorks DEF TelegramLoop, Poll, NextUpdate, ReadUpdate, FindSession, InsertSession,
         RunTurn, Post, WriteChannel, WriteMember, Send
<1>4. CASE Sweep
  BY <1>4 DEF Sweep, SweepDedupe
<1>5. CASE Fault
  BY <1>5 DEF Fault, Crash, Disconnect, FrameNotAcked, Frame, Request, PollFails, Fails, GiveUp
<1>6. CASE Administer
  BY <1>6 DEF Administer, LinkAccount, BindChat
<1>7. CASE UNCHANGED vars
  BY <1>7 DEF vars
<1> QED BY <1>1, <1>2, <1>3, <1>4, <1>5, <1>6, <1>7 DEF Next, Server

\* Whatever is linked and unlinked meanwhile, the kind of a person changes only
\* when they speak, and rises to internal only for an account in the
\* configuration.
THEOREM KindsAreConfigured == Spec => KindFollowsConfiguration
<1>1. ASSUME ChatInv, [Next]_vars PROVE KindChange
  <2>1. ASSUME NEW w \in Workers, WritePerson(w, KindOf(Msg(w).account)),
               NEW p \in People, ChangesKind(p)
        PROVE  \E a \in Accounts : SpeaksAs(p, a) /\ (people'[p].kind = "internal" <=> a \in Configured)
    <3>1. At(w, "person") /\ "person" \in Steps \ {"claim"}
      BY <2>1 DEF WritePerson, Steps
    <3>2. jobs[w].msg \in Messages /\ people \in [People -> Person]
      BY <1>1, <3>1, Midway
    <3>3. Msg(w).account \in Accounts
      BY <3>2, InboundAssumption DEF Msg, Message
    <3>4. people'[p] # people[p]
      BY <2>1 DEF ChangesKind
    <3>5. jobs[w].who = p
      BY <2>1, <3>2, <3>4 DEF WritePerson, UpsertPrincipal
    <3>6. SpeaksAs(p, Msg(w).account)
      BY <3>1, <3>5 DEF SpeaksAs
    <3>7. people'[p].kind = KindOf(Msg(w).account)
      BY <2>1, <3>2, <3>5 DEF WritePerson, UpsertPrincipal, Known, NoPerson, Person
    <3> QED BY <3>3, <3>6, <3>7 DEF KindOf
  <2>2. CASE people' = people
    BY <2>2 DEF KindChange, ChangesKind
  <2> QED BY <1>1, <2>1, <2>2, WhoWritesPeople DEF KindChange
<1>2. Spec => [][KindChange]_vars
  BY ChatHolds, <1>1, PTL DEF Spec
<1> QED BY <1>2 DEF KindFollowsConfiguration

-----------------------------------------------------------------------------
(* Splitting an answer.  Length and Split fold over the lines of a text, and   *)
(* the induction behind a fold is the least length at which it would fail.   *)

\* Some naturals have a least one.
LEMMA LeastElement ==
    ASSUME NEW S \in SUBSET Nat, S # {}
    PROVE  \E t \in S : \A u \in S : t <= u
<1> DEFINE R == {p \in Nat \X Nat : p[1] < p[2]}
<1>1. OpToRel(<, Nat) = R
  BY DEF OpToRel
<1>2. IsWellFoundedOn(R, Nat)
  BY <1>1, NatLessThanWellFounded
<1> HIDE DEF R
<1>3. PICK t \in S : \A u \in S : ~ (<<u, t>> \in R)
  BY <1>2, WFMin
<1>4. \A u \in S : ~ (u < t)
  BY <1>3 DEF R
<1> QED BY <1>4

\* The greatest of some numbers up to k.
LEMMA Greatest ==
    ASSUME NEW k \in Nat, NEW T \in SUBSET (1..k), T # {}
    PROVE  Max(T) \in T /\ \A u \in T : u <= Max(T)
<1> DEFINE S == {k - t : t \in T}
<1>1. S \in SUBSET Nat /\ S # {}
  OBVIOUS
<1> HIDE DEF S
<1>2. PICK d \in S : \A u \in S : d <= u
  BY <1>1, LeastElement
<1>3. PICK t \in T : d = k - t
  BY <1>2 DEF S
<1>4. ASSUME NEW u \in T PROVE t >= u
  <2>1. k - u \in S
    BY DEF S
  <2>2. d <= k - u
    BY <1>2, <2>1
  <2> QED BY <2>2, <1>3
<1>5. \E x \in T : \A y \in T : x >= y
  BY <1>4
<1>6. /\ Max(T) \in T
      /\ \A y \in T : Max(T) >= y
  BY <1>5 DEF Max
<1> QED BY <1>6

\* A step of a fold over n elements stays in X.
Closed(n, X, step) == \A i \in 1..n, x \in X : step[<<i, x>>] \in X

\* A fold over 1..n, as the community modules define it: the value of a set of
\* positions is that of the set without its greatest, and one step more.
FoldOf(it, n, base, step) ==
    it = [t \in SUBSET (1..n) |->
             IF t = {} THEN base ELSE step[<<Max(t), it[t \ {Max(t)}]>>]]

\* What is defined for n elements is defined for one more.
LEMMA FoldGrows ==
    ASSUME NEW n \in Nat, NEW X, NEW base \in X, NEW step,
           Closed(n + 1, X, step),
           NEW f \in [SUBSET (1..n) -> X],
           FoldOf(f, n, base, step)
    PROVE  \E g \in [SUBSET (1..(n + 1)) -> X] : FoldOf(g, n+1, base, step)
<1> USE DEF Closed
<1> DEFINE g == [t \in SUBSET (1..(n+1)) |->
                    IF n + 1 \in t THEN step[<<n + 1, f[t \ {n + 1}]>>] ELSE f[t]]
<1>1. ASSUME NEW t \in SUBSET (1..(n+1)), n+1 \in t
      PROVE  /\ Max(t) = n + 1 /\ t # {} /\ t \ {n + 1} \in SUBSET (1..n)
             /\ g[t] = step[<<Max(t), g[t \ {Max(t)}]>>] /\ g[t] \in X
  <2>1. Max(t) \in t /\ \A u \in t : u <= Max(t)
    BY <1>1, Greatest, n + 1 \in Nat
  <2>2. Max(t) = n + 1
    <3>1. Max(t) \in 1..(n+1) /\ n + 1 <= Max(t)
      BY <2>1, <1>1
    <3> QED BY <3>1
  <2>3. t \ {n + 1} \in SUBSET (1..n)
    OBVIOUS
  <2>4. t \ {n + 1} \in SUBSET (1..(n+1)) /\ g[t \ {n + 1}] = f[t \ {n + 1}]
    BY <2>3
  <2> QED BY <1>1, <2>2, <2>3, <2>4
<1>2. ASSUME NEW t \in SUBSET (1..(n+1)), n+1 \notin t
      PROVE  /\ t \in SUBSET (1..n)
             /\ g[t] = f[t] /\ g[t] \in X
             /\ t # {} => t \ {Max(t)} \in SUBSET (1..n) /\ g[t \ {Max(t)}] = f[t \ {Max(t)}]
  <2>1. t \in SUBSET (1..n)
    BY <1>2
  <2>2. ASSUME t # {} PROVE t \ {Max(t)} \in SUBSET (1..n) /\ n + 1 \notin t \ {Max(t)}
    <3> DEFINE rest == t \ {Max(t)}
    <3>1. rest \subseteq t
      OBVIOUS
    <3> HIDE DEF rest
    <3>2. rest \in SUBSET (1..n) /\ n + 1 \notin rest
      BY <3>1, <2>1
    <3> QED BY <3>2 DEF rest
  <2> QED BY <1>2, <2>1, <2>2
<1>3. ASSUME NEW t \in SUBSET (1..(n+1))
      PROVE  g[t] \in X /\ g[t] = IF t = {} THEN base ELSE step[<<Max(t), g[t \ {Max(t)}]>>]
  <2>1. CASE n + 1 \in t
    BY <2>1, <1>1
  <2>2. CASE n + 1 \notin t
    <3>1. f[t] = IF t = {} THEN base ELSE step[<<Max(t), f[t \ {Max(t)}]>>]
      BY <1>2, <2>2 DEF FoldOf
    <3> QED BY <3>1, <1>2, <2>2
  <2> QED BY <2>1, <2>2
<1>4. g \in [SUBSET (1..(n+1)) -> X] /\ DOMAIN g = SUBSET (1..(n+1))
  BY <1>3
<1>5. g = [t \in SUBSET (1..(n+1)) |-> g[t]]
  BY <1>4
<1> HIDE DEF g
<1>6. FoldOf(g, n + 1, base, step)
  BY <1>3, <1>5 DEF FoldOf
<1> QED BY <1>4, <1>6

\* A fold over any number of elements is defined.
LEMMA FoldExists ==
    ASSUME NEW n \in Nat, NEW X, NEW base \in X, NEW step,
           Closed(n, X, step)
    PROVE  \E f \in [SUBSET (1..n) -> X] : FoldOf(f, n, base, step)
<1> USE DEF Closed
<1> DEFINE None == {k \in 0..n : ~ \E f \in [SUBSET (1..k) -> X] : FoldOf(f, k, base, step)}
<1> SUFFICES ASSUME None # {} PROVE FALSE
  <2>1. n \in 0..n
    OBVIOUS
  <2> QED BY <2>1
<1>1. None \in SUBSET Nat
  OBVIOUS
<1> HIDE DEF None
<1>2. PICK k \in None : \A u \in None : k <= u
  BY <1>1, LeastElement
<1>3. k \in 0..n
  BY <1>2 DEF None
<1>4. CASE k = 0
  <2> DEFINE f == [t \in SUBSET (1..0) |-> base]
  <2>1. SUBSET (1..0) = {{}}
    OBVIOUS
  <2>2. f \in [SUBSET (1..0) -> X]
    OBVIOUS
  <2>3. FoldOf(f, 0, base, step)
    BY <2>1 DEF FoldOf
  <2> QED BY <2>2, <2>3, <1>2, <1>4 DEF None
<1>5. CASE k # 0
  <2>1. k - 1 \in 0..n /\ k - 1 \in Nat /\ k - 1 < k /\ (k - 1) + 1 = k
    BY <1>3, <1>5
  <2>2. k - 1 \notin None
    BY <2>1, <1>1, <1>2
  <2>3. PICK f \in [SUBSET (1..(k-1)) -> X] : FoldOf(f, k - 1, base, step)
    BY <2>1, <2>2 DEF None
  <2>4. \E g \in [SUBSET (1..((k - 1) + 1)) -> X] : FoldOf(g, (k - 1) + 1, base, step)
    <3> DEFINE m == k - 1
    <3>1. m \in Nat /\ Closed(m + 1, X, step)
      BY <2>1, <1>3
    <3>2. FoldOf(f, m, base, step) /\ f \in [SUBSET (1..m) -> X]
      BY <2>3
    <3> HIDE DEF m
    <3>3. \E g \in [SUBSET (1..(m + 1)) -> X] : FoldOf(g, m + 1, base, step)
      BY <3>1, <3>2, FoldGrows
    <3> QED BY <3>3 DEF m
  <2>5. k \notin None
    BY <2>1, <2>4 DEF None
  <2> QED BY <2>5, <1>2
<1> QED BY <1>4, <1>5

\* The same, of a function of which only the values in X are known.
Stepwise(it, n, X, base, step) ==
    /\ it[{}] = base
    /\ \A t \in SUBSET (1..n) : t # {} /\ it[t \ {Max(t)}] \in X =>
           it[t] = step[<<Max(t), it[t \ {Max(t)}]>>]

\* The values of a fold after each element.
Partial(it, n) == [k \in 0..n |-> it[1..k]]
Unfolds(r, n, base, step) ==
    /\ r[0] = base
    /\ \A i \in 1..n : r[i] = step[<<i, r[i - 1]>>]

\* A fold takes the elements one after the other.
LEMMA FoldUnfolds ==
    ASSUME NEW n \in Nat, NEW X, NEW base \in X, NEW step, Closed(n, X, step),
           NEW it, Stepwise(it, n, X, base, step)
    PROVE  /\ Partial(it, n) \in [0..n -> X]
           /\ Unfolds(Partial(it, n), n, base, step)
           /\ Partial(it, n)[n] = it[1..n]
<1> USE DEF Closed, Stepwise
<1> DEFINE Odd == {k \in 0..n : it[1..k] \notin X}
           r == [k \in 0..n |-> it[1..k]]
<1>1. 1..0 = {}
  OBVIOUS
<1>2. ASSUME NEW i \in 1..n
      PROVE  /\ 1..i \in SUBSET (1..n) /\ 1..i # {}
             /\ Max(1..i) = i /\ (1..i) \ {i} = 1..(i - 1)
  <2>1. i \in Nat /\ i \in 1..i /\ 1..i \in SUBSET (1..i)
    OBVIOUS
  <2>2. Max(1..i) \in 1..i /\ \A u \in 1..i : u <= Max(1..i)
    BY <2>1, Greatest
  <2>3. Max(1..i) = i
    <3>1. i <= Max(1..i)
      BY <2>1, <2>2
    <3> QED BY <2>2, <3>1
  <2>4. (1..i) \ {i} = 1..(i - 1)
    OBVIOUS
  <2>5. 1..i \in SUBSET (1..n) /\ 1..i # {}
    BY <2>1
  <2> QED BY <2>3, <2>4, <2>5
<1>3. \A i \in 1..n : it[1..(i-1)] \in X => it[1..i] = step[<<i, it[1..(i-1)]>>]
  BY <1>2
<1>4. Odd = {}
  <2> SUFFICES ASSUME Odd # {} PROVE FALSE
    OBVIOUS
  <2>1. Odd \in SUBSET Nat
    OBVIOUS
  <2> HIDE DEF Odd
  <2>2. PICK k \in Odd : \A u \in Odd : k <= u
    BY <2>1, LeastElement
  <2>3. k \in 0..n /\ it[1..k] \notin X
    BY <2>2 DEF Odd
  <2>4. k # 0
    BY <2>3, <1>1
  <2>5. k \in 1..n /\ k - 1 \in 0..n /\ k - 1 < k /\ k - 1 \in Nat
    BY <2>3, <2>4
  <2>6. k - 1 \notin Odd
    BY <2>1, <2>2, <2>5
  <2>7. it[1..(k-1)] \in X
    BY <2>5, <2>6 DEF Odd
  <2> QED BY <2>3, <2>5, <2>7, <1>3
<1>5. r \in [0..n -> X]
  BY <1>4
<1>6. \A i \in 1..n : r[i] = step[<<i, r[i - 1]>>]
  <2> TAKE i \in 1..n
  <2>1. i \in 0..n /\ i - 1 \in 0..n
    OBVIOUS
  <2>2. it[1..(i-1)] \in X
    BY <2>1, <1>4
  <2> QED BY <2>1, <2>2, <1>3
<1>7. r[0] = base /\ r[n] = it[1..n]
  BY <1>1
<1> QED BY <1>5, <1>6, <1>7 DEF Unfolds, Partial

\* t[i] is the length of the first i lines.
Totals(t, s) ==
   /\ t \in [0..Len(s) -> Nat]
   /\ t[0] = 0
   /\ \A i \in 1..Len(s) : t[i] = t[i-1] + s[i]

\* Lines can be added up.
LEMMA TotalsExist == ASSUME NEW s \in Seq(Nat)
  PROVE \E t : Totals(t, s) /\ t[Len(s)] = Length(s)
<1>2. PICK len \in Nat : len = Len(s) /\ DOMAIN s = 1..len
  OBVIOUS
<1> DEFINE Adds(f) == f = [t \in SUBSET DOMAIN s |-> IF t = {} THEN 0 ELSE LET x == Max(t) IN f[t \ {x}] + s[x]]
           sum == CHOOSE f : Adds(f)
           add == [p \in (1..len) \X Nat |-> p[2] + s[p[1]]]
<1>1. Length(s) = sum[DOMAIN s]
  BY DEF Length, FoldLeft, MapThenFoldSet
<1>3. \A i \in 1..len, x \in Nat : add[<<i, x>>] = x + s[i] /\ add[<<i, x>>] \in Nat
  BY <1>2
<1> HIDE DEF add
<1>11. Closed(len, Nat, add)
  BY <1>3 DEF Closed
<1>0. \A t \in SUBSET (1..len) : t # {} => Max(t) \in 1..len /\ t \ {Max(t)} \in SUBSET (1..len)
  BY Greatest
<1>4. \E f : Adds(f)
  <2>1. PICK f \in [SUBSET (1..len) -> Nat] : FoldOf(f, len, 0, add)
    BY <1>11, FoldExists
  <2>3. \A t \in SUBSET (1..len) : t # {} => f[t] = f[t \ {Max(t)}] + s[Max(t)]
    BY <2>1, <1>0, <1>3 DEF FoldOf
  <2>4. f[{}] = 0
    BY <2>1 DEF FoldOf
  <2>5. f = [t \in SUBSET DOMAIN s |-> f[t]]
    BY <2>1, <1>2
  <2>6. Adds(f)
    BY <2>3, <2>4, <2>5, <1>2
  <2> QED BY <2>6
<1>5. Adds(sum)
  BY <1>4
<1> HIDE DEF sum
<1>6. sum[{}] = 0 /\ \A t \in SUBSET (1..len) : t # {} => sum[t] = sum[t \ {Max(t)}] + s[Max(t)]
  BY <1>2, <1>5
<1>7. Stepwise(sum, len, Nat, 0, add)
  BY <1>3, <1>6, <1>0 DEF Stepwise
<1> DEFINE r == Partial(sum, len)
<1>8. r \in [0..len -> Nat]
  BY <1>7, <1>11, FoldUnfolds
<1>14. Unfolds(r, len, 0, add)
  BY <1>7, <1>11, FoldUnfolds
<1>15. r[len] = sum[1..len]
  BY <1>7, <1>11, FoldUnfolds
<1> HIDE DEF r
<1>9. \A i \in 1..len : r[i] = r[i-1] + s[i]
  <2> TAKE i \in 1..len
  <2>1. i - 1 \in 0..len
    OBVIOUS
  <2> QED BY <1>3, <1>8, <1>14, <2>1 DEF Unfolds
<1>10. r[Len(s)] = Length(s) /\ Totals(r, s)
  BY <1>1, <1>2, <1>8, <1>14, <1>15, <1>9 DEF Totals, Unfolds
<1> QED BY <1>10

\* There is one way to add up.
LEMMA TotalsAgree ==
    ASSUME NEW s \in Seq(Nat), NEW t, Totals(t, s), NEW u, Totals(u, s)
    PROVE  t[Len(s)] = u[Len(s)]
<1> DEFINE Odd == {k \in 0..Len(s) : t[k] # u[k]}
<1>1. Odd = {}
  <2> SUFFICES ASSUME Odd # {} PROVE FALSE
    OBVIOUS
  <2>1. Odd \in SUBSET Nat
    OBVIOUS
  <2> HIDE DEF Odd
  <2>2. PICK k \in Odd : \A j \in Odd : k <= j
    BY <2>1, LeastElement
  <2>3. k \in 0..Len(s) /\ t[k] # u[k]
    BY <2>2 DEF Odd
  <2>4. k # 0
    BY <2>3 DEF Totals
  <2>5. k \in 1..Len(s) /\ k - 1 \in 0..Len(s) /\ k - 1 < k /\ k - 1 \in Nat
    BY <2>3, <2>4
  <2>6. k - 1 \notin Odd
    BY <2>1, <2>2, <2>5
  <2>7. t[k-1] = u[k-1]
    BY <2>5, <2>6 DEF Odd
  <2> QED BY <2>3, <2>5, <2>7 DEF Totals
<1>2. Len(s) \in 0..Len(s)
  OBVIOUS
<1> QED BY <1>1, <1>2

\* The length of a text is what its lines add up to.
LEMMA LengthIs ==
    ASSUME NEW s \in Seq(Nat), NEW t, Totals(t, s)
    PROVE  Length(s) = t[Len(s)]
<1>1. PICK u : Totals(u, s) /\ u[Len(s)] = Length(s)
  BY TotalsExist
<1> QED BY <1>1, TotalsAgree

\* Nothing has no length.
LEMMA LengthOfNone == Length(<<>>) = 0
<1> DEFINE t == [k \in 0..0 |-> 0]
<1>1. <<>> \in Seq(Nat) /\ Len(<<>>) = 0
  OBVIOUS
<1>2. t[0] = 0 /\ t \in [0..0 -> Nat]
  OBVIOUS
<1> HIDE DEF t
<1>3. Totals(t, <<>>)
  BY <1>1, <1>2 DEF Totals
<1> QED BY <1>1, <1>2, <1>3, LengthIs

\* A length is a number.
LEMMA LengthIsNat ==
    ASSUME NEW s \in Seq(Nat)
    PROVE  Length(s) \in Nat
<1>1. PICK t : Totals(t, s) /\ t[Len(s)] = Length(s)
  BY TotalsExist
<1> QED BY <1>1 DEF Totals

\* A line more.
LEMMA LengthOfAppend ==
    ASSUME NEW s \in Seq(Nat), NEW x \in Nat
    PROVE  Length(Append(s, x)) = Length(s) + x
<1>1. PICK t : Totals(t, s) /\ t[Len(s)] = Length(s)
  BY TotalsExist
<1>2. PICK len \in Nat : len = Len(s)
  OBVIOUS
<1>3. PICK r : r = Append(s, x)
  OBVIOUS
<1>4. /\ r \in Seq(Nat) /\ Len(r) = len + 1 /\ r[len + 1] = x
      /\ \A i \in 1..len : r[i] = s[i]
  BY <1>2, <1>3
<1> DEFINE u == [k \in 0..(len + 1) |-> IF k = len + 1 THEN t[len] + x ELSE t[k]]
<1>5. t \in [0..len -> Nat] /\ t[0] = 0 /\ \A i \in 1..len : t[i] = t[i-1] + s[i]
  BY <1>1, <1>2 DEF Totals
<1>6. u \in [0..(len+1) -> Nat] /\ u[0] = 0 /\ u[len + 1] = t[len] + x
  BY <1>5
<1>7. ASSUME NEW i \in 1..(len+1) PROVE u[i] = u[i-1] + r[i]
  <2>1. CASE i = len + 1
    BY <2>1, <1>4, <1>5
  <2>2. CASE i # len + 1
    BY <2>2, <1>4, <1>5
  <2> QED BY <2>1, <2>2
<1> HIDE DEF u
<1>8. Totals(u, r)
  BY <1>4, <1>6, <1>7 DEF Totals
<1> QED BY <1>1, <1>2, <1>3, <1>4, <1>6, <1>8, LengthIs

\* A line less.
LEMMA LengthOfTail ==
    ASSUME NEW s \in Seq(Nat), s # <<>>
    PROVE  Length(s) = Head(s) + Length(Tail(s)) /\ Tail(s) \in Seq(Nat) /\ Head(s) \in Nat
<1>1. PICK r : r = Tail(s)
  OBVIOUS
<1>2. PICK len \in Nat : len = Len(r)
  BY <1>1
<1>3. /\ r \in Seq(Nat) /\ Len(s) = len + 1 /\ Head(s) = s[1] /\ s[1] \in Nat
      /\ \A i \in 1..len : r[i] = s[i + 1]
  BY <1>1, <1>2
<1>4. PICK t : Totals(t, r) /\ t[Len(r)] = Length(r)
  BY <1>3, TotalsExist
<1>5. t \in [0..len -> Nat] /\ t[0] = 0 /\ \A i \in 1..len : t[i] = t[i-1] + r[i]
  BY <1>2, <1>4 DEF Totals
<1> DEFINE u == [k \in 0..(len + 1) |-> IF k = 0 THEN 0 ELSE s[1] + t[k - 1]]
<1>6. u \in [0..(len+1) -> Nat] /\ u[0] = 0 /\ u[len + 1] = s[1] + t[len]
  BY <1>3, <1>5
<1>7. ASSUME NEW i \in 1..(len+1) PROVE u[i] = u[i-1] + s[i]
  <2>1. CASE i = 1
    BY <2>1, <1>3, <1>5
  <2>2. CASE i # 1
    <3>1. i - 1 \in 1..len /\ i - 2 \in 0..len /\ (i - 1) - 1 = i - 2
      BY <2>2
    <3>2. t[i-1] = t[i-2] + s[i]
      <4>1. r[i-1] = s[i]
        BY <3>1, <1>3
      <4> QED BY <3>1, <4>1, <1>5
    <3>3. s[i] \in Nat
      BY <1>3
    <3>4. u[i] = s[1] + t[i-1] /\ u[i-1] = s[1] + t[i-2]
      BY <3>1, <2>2
    <3>5. t[i-2] \in Nat
      BY <3>1, <1>5
    <3> HIDE DEF u
    <3> QED BY <3>2, <3>3, <3>4, <3>5, <1>3
  <2> QED BY <2>1, <2>2
<1> HIDE DEF u
<1>8. Totals(u, s)
  BY <1>3, <1>6, <1>7 DEF Totals
<1>9. Length(s) = u[len + 1]
  BY <1>3, <1>8, LengthIs
<1> QED BY <1>1, <1>2, <1>3, <1>4, <1>6, <1>9

\* A line that is cut.
LEMMA LengthOfRepeat ==
    ASSUME NEW s \in Seq(Nat), NEW q \in Nat, NEW x \in Nat
    PROVE  Length(s \o [i \in 1..q |-> x]) = Length(s) + q * x
<1>1. PICK t : Totals(t, s) /\ t[Len(s)] = Length(s)
  BY TotalsExist
<1>2. PICK len \in Nat : len = Len(s)
  OBVIOUS
<1>3. PICK r : r = s \o [i \in 1..q |-> x]
  OBVIOUS
<1>4. /\ r \in Seq(Nat) /\ Len(r) = len + q
      /\ \A i \in 1..(len + q) : r[i] = IF i <= len THEN s[i] ELSE x
  <2> DEFINE m == [i \in 1..q |-> x]
  <2>1. m \in Seq(Nat) /\ Len(m) = q /\ \A i \in 1..q : m[i] = x
    OBVIOUS
  <2> HIDE DEF m
  <2> QED BY <1>2, <1>3, <2>1 DEF m
<1> DEFINE times == [j \in Nat |-> j * x]
<1>5. t \in [0..len -> Nat] /\ t[0] = 0 /\ \A i \in 1..len : t[i] = t[i-1] + s[i]
  BY <1>1, <1>2 DEF Totals
<1>6. (\A j \in Nat : times[j] \in Nat) /\ times[0] = 0 /\ times[q] = q * x
  OBVIOUS
<1>7. \A j \in Nat : times[j + 1] = times[j] + x
  OBVIOUS
<1> HIDE DEF times
<1> DEFINE u == [k \in 0..(len + q) |-> IF k <= len THEN t[k] ELSE t[len] + times[k - len]]
<1>8. u \in [0..(len+q) -> Nat] /\ u[0] = 0
  <2>1. ASSUME NEW k \in 0..(len + q) PROVE u[k] \in Nat
    <3>1. CASE k <= len
      BY <3>1, <1>5
    <3>2. CASE k > len
      <4>1. k - len \in Nat
        BY <3>2
      <4>2. times[k - len] \in Nat /\ t[len] \in Nat
        BY <4>1, <1>5, <1>6
      <4> QED BY <3>2, <4>2
    <3> QED BY <3>1, <3>2
  <2>2. u[0] = 0
    BY <1>5
  <2>3. DOMAIN u = 0..(len + q) /\ u = [k \in 0..(len + q) |-> u[k]]
    OBVIOUS
  <2> HIDE DEF u
  <2> QED BY <2>1, <2>2, <2>3
<1>9. ASSUME NEW i \in 1..(len+q) PROVE u[i] = u[i-1] + r[i]
  <2>1. CASE i <= len
    <3>1. i \in 1..len /\ i - 1 \in 0..len /\ i - 1 \in 0..(len + q) /\ i \in 0..(len + q)
      BY <2>1
    <3>2. u[i] = t[i] /\ u[i-1] = t[i-1] /\ r[i] = s[i]
      BY <2>1, <3>1, <1>4
    <3> QED BY <3>1, <3>2, <1>5
  <2>2. CASE i > len
    <3>1. i - 1 - len \in Nat /\ (i - 1 - len) + 1 = i - len /\ i - 1 \in 0..(len + q) /\ i \in 0..(len + q)
      BY <2>2
    <3>2. times[i - len] = times[i - 1 - len] + x
      BY <3>1, <1>7
    <3>3. u[i] = t[len] + times[i - len]
      BY <2>2, <3>1
    <3>4. u[i-1] = t[len] + times[i - 1 - len]
      <4>1. CASE i - 1 = len
        BY <4>1, <1>5, <1>6
      <4>2. CASE i - 1 # len
        <5>1. i - 1 > len
          BY <2>2, <4>2
        <5> QED BY <3>1, <5>1
      <4> QED BY <4>1, <4>2
    <3>5. r[i] = x
      BY <2>2, <1>4
    <3>6. t[len] \in Nat /\ times[i - 1 - len] \in Nat
      BY <1>5, <1>6, <3>1
    <3> HIDE DEF u
    <3> QED BY <3>2, <3>3, <3>4, <3>5, <3>6
  <2> QED BY <2>1, <2>2
<1>10. u[len + q] = t[len] + times[q]
  <2>1. CASE q = 0
    BY <2>1, <1>5, <1>6
  <2>2. CASE q # 0
    <3>1. len + q \in 0..(len + q) /\ len + q > len /\ (len + q) - len = q
      BY <2>2
    <3> QED BY <3>1
  <2> QED BY <2>1, <2>2
<1> HIDE DEF u
<1>11. Totals(u, r)
  BY <1>4, <1>8, <1>9 DEF Totals
<1> QED BY <1>1, <1>2, <1>3, <1>4, <1>6, <1>10, <1>11, LengthIs

\* What split_message has collected, and how much that is.
Collected == [pieces : Seq(1..MaxChars), current : 0..MaxChars]
Held(soFar) == Length(soFar.pieces) + soFar.current

\* A line more, and nothing lost.
LEMMA AddLineKeeps ==
    ASSUME NEW soFar \in Collected, NEW line \in Nat \ {0}
    PROVE  AddLine(soFar, line) \in Collected /\ Held(AddLine(soFar, line)) = Held(soFar) + line
<1>1. /\ soFar.pieces \in Seq(1..MaxChars) /\ soFar.pieces \in Seq(Nat) /\ soFar.current \in 0..MaxChars
      /\ soFar.current \in Nat /\ DOMAIN soFar = {"pieces", "current"}
      /\ soFar = [pieces |-> soFar.pieces, current |-> soFar.current]
  BY InboundAssumption DEF Collected
<1>2. PICK flushed : flushed = IF soFar.current = 0 THEN soFar.pieces ELSE Append(soFar.pieces, soFar.current)
  OBVIOUS
<1>3. flushed \in Seq(1..MaxChars) /\ flushed \in Seq(Nat)
  <2>1. CASE soFar.current = 0
    BY <1>1, <1>2, <2>1
  <2>2. CASE soFar.current # 0
    <3>1. soFar.current \in 1..MaxChars
      BY <1>1, <2>2, InboundAssumption
    <3>2. flushed = Append(soFar.pieces, soFar.current)
      BY <1>2, <2>2
    <3> QED BY <1>1, <3>1, <3>2
  <2> QED BY <2>1, <2>2
<1>4. Length(flushed) = Held(soFar)
  <2>1. CASE soFar.current = 0
    BY <1>1, <1>2, <2>1, LengthIsNat DEF Held
  <2>2. CASE soFar.current # 0
    BY <1>1, <1>2, <2>2, LengthOfAppend DEF Held
  <2> QED BY <2>1, <2>2
<1>5. PICK next : next = AddLine(soFar, line)
  OBVIOUS
<1>6. Length(soFar.pieces) \in Nat /\ MaxChars \in Nat \ {0}
  BY <1>1, LengthIsNat, InboundAssumption
<1>7. CASE soFar.current + line <= MaxChars
  <2>1. next = [soFar EXCEPT !.current = soFar.current + line]
    BY <1>5, <1>7, <1>6, <1>1 DEF AddLine
  <2>2. next = [pieces |-> soFar.pieces, current |-> soFar.current + line]
    BY <2>1, <1>1
  <2>3. soFar.current + line \in 0..MaxChars
    BY <1>1, <1>6, <1>7
  <2> QED BY <1>5, <1>1, <1>6, <2>2, <2>3 DEF Collected, Held
<1>8. CASE soFar.current + line > MaxChars /\ line <= MaxChars
  <2>1. next = [pieces |-> flushed, current |-> line]
    BY <1>2, <1>5, <1>8, <1>6, <1>1 DEF AddLine
  <2> QED BY <1>3, <1>4, <1>5, <1>6, <1>8, <2>1 DEF Collected, Held
<1>9. CASE line > MaxChars
  <2>1. next = [pieces |-> flushed \o [i \in 1..(line \div MaxChars) |-> MaxChars],
                current |-> line % MaxChars]
    <3>1. ~ (soFar.current + line <= MaxChars) /\ ~ (line <= MaxChars)
      BY <1>9, <1>6, <1>1
    <3> QED BY <1>2, <1>5, <3>1 DEF AddLine
  <2>2. PICK q \in Nat, rest \in 0..(MaxChars - 1) :
           q = line \div MaxChars /\ rest = line % MaxChars /\ line = q * MaxChars + rest
    BY <1>6
  <2>3. [i \in 1..q |-> MaxChars] \in Seq(1..MaxChars)
    BY <1>6
  <2>4. flushed \o [i \in 1..q |-> MaxChars] \in Seq(1..MaxChars)
    BY <1>3, <2>3
  <2>5. Length(flushed \o [i \in 1..q |-> MaxChars]) = Length(flushed) + q * MaxChars
    BY <1>3, <1>6, LengthOfRepeat
  <2>6. Length(flushed) \in Nat /\ q * MaxChars \in Nat /\ rest \in 0..MaxChars
    BY <1>3, <1>6, LengthIsNat
  <2>7. /\ next \in Collected
        /\ Held(next) = Length(flushed \o [i \in 1..q |-> MaxChars]) + rest
    BY <2>1, <2>2, <2>4, <2>6 DEF Collected, Held
  <2> QED BY <1>4, <1>5, <2>2, <2>5, <2>6, <2>7
<1> QED BY <1>1, <1>6, <1>7, <1>8, <1>9

\* The pieces and the rest, as line after line is added: nothing is lost.
LEMMA SplitCollects ==
    ASSUME NEW text \in Seq(Nat \ {0})
    PROVE  LET all == FoldLeft(AddLine, [pieces |-> <<>>, current |-> 0], text)
           IN  all \in Collected /\ Held(all) = Length(text)
<1>1. PICK len \in Nat : len = Len(text) /\ DOMAIN text = 1..len
  OBVIOUS
<1>2. PICK empty : empty = [pieces |-> <<>>, current |-> 0]
  OBVIOUS
<1>3. empty \in Collected /\ Held(empty) = 0
  <2>1. Length(<<>>) = 0 /\ 0 \in 0..MaxChars /\ <<>> \in Seq(1..MaxChars)
    BY LengthOfNone, InboundAssumption
  <2> QED BY <1>2, <2>1 DEF Collected, Held
<1> DEFINE Adds(f) == f = [t \in SUBSET DOMAIN text |->
                              IF t = {} THEN empty
                              ELSE LET x == Max(t) IN AddLine(f[t \ {x}], text[x])]
           all == CHOOSE f : Adds(f)
           add == [p \in (1..len) \X Collected |-> AddLine(p[2], text[p[1]])]
<1>4. FoldLeft(AddLine, [pieces |-> <<>>, current |-> 0], text) = all[1..len]
  BY <1>1, <1>2 DEF FoldLeft, MapThenFoldSet
<1>5. \A i \in 1..len : text[i] \in Nat \ {0} /\ text[i] \in Nat
  BY <1>1
<1>6. \A i \in 1..len, x \in Collected :
         add[<<i, x>>] = AddLine(x, text[i]) /\ add[<<i, x>>] \in Collected
  BY <1>5, AddLineKeeps
<1> HIDE DEF add
<1>7. Closed(len, Collected, add)
  BY <1>6 DEF Closed
<1>8. \A t \in SUBSET (1..len) : t # {} => Max(t) \in 1..len /\ t \ {Max(t)} \in SUBSET (1..len)
  BY Greatest
<1>9. \E f : Adds(f)
  <2>1. PICK f \in [SUBSET (1..len) -> Collected] : FoldOf(f, len, empty, add)
    BY <1>3, <1>7, FoldExists
  <2>2. \A t \in SUBSET (1..len) : t # {} => f[t] = AddLine(f[t \ {Max(t)}], text[Max(t)])
    BY <2>1, <1>8, <1>6 DEF FoldOf
  <2>3. f[{}] = empty
    BY <2>1 DEF FoldOf
  <2>4. f = [t \in SUBSET DOMAIN text |-> f[t]]
    BY <2>1, <1>1
  <2>5. Adds(f)
    BY <2>2, <2>3, <2>4, <1>1
  <2> QED BY <2>5
<1>10. Adds(all)
  BY <1>9
<1> HIDE DEF all
<1>11. /\ all[{}] = empty
       /\ \A t \in SUBSET (1..len) : t # {} => all[t] = AddLine(all[t \ {Max(t)}], text[Max(t)])
  BY <1>1, <1>10
<1>12. Stepwise(all, len, Collected, empty, add)
  BY <1>6, <1>8, <1>11 DEF Stepwise
<1> DEFINE r == Partial(all, len)
<1>13. r \in [0..len -> Collected]
  BY <1>3, <1>7, <1>12, FoldUnfolds
<1>14. Unfolds(r, len, empty, add)
  BY <1>3, <1>7, <1>12, FoldUnfolds
<1>15. r[len] = all[1..len]
  BY <1>3, <1>7, <1>12, FoldUnfolds
<1> HIDE DEF r
<1>16. text \in Seq(Nat)
  OBVIOUS
<1>17. \A i \in 1..len : Held(r[i]) = Held(r[i-1]) + text[i]
  <2> TAKE i \in 1..len
  <2>1. r[i-1] \in Collected
    BY <1>13
  <2>2. text[i] \in Nat \ {0}
    BY <1>5
  <2>3. r[i] = add[<<i, r[i-1]>>]
    BY <1>14 DEF Unfolds
  <2>4. r[i] = AddLine(r[i-1], text[i])
    BY <2>1, <2>3, <1>6
  <2> QED BY <2>1, <2>2, <2>4, AddLineKeeps
<1>18. \A k \in 0..len : Held(r[k]) \in Nat
  <2> TAKE k \in 0..len
  <2>1. r[k].pieces \in Seq(Nat) /\ r[k].current \in Nat
    BY <1>13, InboundAssumption DEF Collected
  <2> QED BY <2>1, LengthIsNat DEF Held
<1> DEFINE u == [k \in 0..len |-> Held(r[k])]
<1>19. Totals(u, text)
  BY <1>1, <1>3, <1>14, <1>17, <1>18 DEF Totals, Unfolds
<1>20. Length(text) = Held(r[len])
  BY <1>1, <1>16, <1>19, LengthIs
<1>21. r[len] \in Collected
  BY <1>13
<1> QED BY <1>4, <1>15, <1>20, <1>21

\* A text of some lines is cut into some pieces that the platform takes, and
\* nothing is lost.
LEMMA SplitKeeps ==
    ASSUME NEW text \in Seq(Nat \ {0}) \ {<<>>}
    PROVE  /\ Split(text) \in Seq(1..MaxChars) /\ Split(text) # <<>>
           /\ Length(Split(text)) = Length(text)
<1>1. text \in Seq(Nat) /\ text # <<>> /\ text \in Seq(Nat \ {0})
  OBVIOUS
<1>2. Length(text) \in Nat \ {0}
  <2>1. Length(text) = Head(text) + Length(Tail(text)) /\ Tail(text) \in Seq(Nat)
    BY <1>1, LengthOfTail
  <2>2. Head(text) \in Nat \ {0}
    OBVIOUS
  <2>3. Length(Tail(text)) \in Nat
    BY <2>1, LengthIsNat
  <2> QED BY <2>1, <2>2, <2>3
<1>3. \A x \in Nat : Length(<<x>>) = x
  <2> TAKE x \in Nat
  <2>1. <<x>> = Append(<<>>, x) /\ <<>> \in Seq(Nat)
    OBVIOUS
  <2>2. Length(Append(<<>>, x)) = Length(<<>>) + x
    BY <2>1, LengthOfAppend
  <2> QED BY <2>1, <2>2, LengthOfNone
<1>4. CASE Length(text) <= MaxChars
  <2>1. Split(text) = <<Length(text)>>
    BY <1>4 DEF Split
  <2> QED BY <1>2, <1>3, <1>4, <2>1
<1>5. CASE ~ (Length(text) <= MaxChars)
  <2>1. PICK all : all = FoldLeft(AddLine, [pieces |-> <<>>, current |-> 0], text)
    OBVIOUS
  <2>2. all \in Collected /\ Held(all) = Length(text)
    BY <1>1, <2>1, SplitCollects
  <2>3. Split(text) = IF all.current = 0 THEN all.pieces ELSE Append(all.pieces, all.current)
    BY <1>5, <2>1 DEF Split
  <2>4. all.pieces \in Seq(1..MaxChars) /\ all.pieces \in Seq(Nat) /\ all.current \in 0..MaxChars
    BY <2>2, InboundAssumption DEF Collected
  <2>5. CASE all.current = 0
    <3>1. Length(all.pieces) = Length(text)
      BY <2>2, <2>4, <2>5, LengthIsNat DEF Held
    <3> QED BY <1>2, <2>3, <2>4, <2>5, <3>1, LengthOfNone
  <2>6. CASE all.current # 0
    <3>1. all.current \in 1..MaxChars /\ all.current \in Nat
      BY <2>4, <2>6, InboundAssumption
    <3>2. Length(Append(all.pieces, all.current)) = Length(text)
      BY <2>2, <2>4, <3>1, LengthOfAppend DEF Held
    <3>3. Append(all.pieces, all.current) \in Seq(1..MaxChars) /\ Append(all.pieces, all.current) # <<>>
      BY <2>4, <3>1
    <3> QED BY <2>3, <2>6, <3>2, <3>3
  <2> QED BY <2>5, <2>6
<1> QED BY <1>4, <1>5

-----------------------------------------------------------------------------
(* What was sent *)

\* What is sent of an answer and what is still to be sent make up the answer;
\* of a message that had no turn nothing was sent.
SentOK ==
    /\ answer \in [Messages -> Replies \cup {<<>>}]
    /\ posted \in [Messages -> Seq(1..MaxChars)]
    /\ \A m \in Messages : Length(posted[m]) <= Length(answer[m])
    /\ \A m \in Messages : turns[m] = 0 => posted[m] = <<>>
    /\ \A w \in Workers : At(w, "post") =>
          /\ turns[jobs[w].msg] = 1
          /\ jobs[w].rest \in Seq(1..MaxChars) \ {<<>>}
          /\ Length(posted[jobs[w].msg]) + Length(jobs[w].rest) = Length(answer[jobs[w].msg])

\* Nothing is sent or answered, and who is sending keeps what is left.
Silent ==
    /\ UNCHANGED <<turns, answer, posted>>
    /\ \A w \in Workers : jobs'[w].at = "post" => jobs'[w] = jobs[w]

\* A job that does not come to send.
LEMMA StaysSilent ==
    ASSUME ChatInv, NEW w \in Workers, NEW row, row.at # "post",
           jobs' = [jobs EXCEPT ![w] = row], UNCHANGED <<turns, answer, posted>>
    PROVE  Silent
BY DEF Silent, ChatInv, JobsOK

LEMMA StepsSilently ==
    ASSUME ChatInv, NEW w \in Workers, Busy(w), NEW step, step # "post", GoTo(w, step),
           UNCHANGED <<turns, answer, posted>>
    PROVE  Silent
<1>1. DOMAIN jobs[w] = Fields
  BY EmptyJob DEF ChatInv, JobsOK, JobOK, Busy
<1> DEFINE row == [jobs[w] EXCEPT !.at = step]
<1>2. row.at = step
  BY <1>1 DEF Fields, Idle
<1>3. jobs' = [jobs EXCEPT ![w] = row]
  BY DEF GoTo, ChatInv, JobsOK
<1> HIDE DEF row
<1> QED BY <1>2, <1>3, StaysSilent

\* Taking a message, and giving one up.
LEMMA TakenSilently ==
    ASSUME ChatInv, NEW w \in Workers, NEW m, Take(w, m), Unchanged_run
    PROVE  Silent
<1>1. jobs' = [jobs EXCEPT ![w] = TakenRow(m)]
  BY DEF Take, TakenRow
<1>2. TakenRow(m).at # "post"
  BY TakenRowIs
<1> QED BY <1>1, <1>2, StaysSilent DEF Unchanged_run

LEMMA EndsSilently ==
    ASSUME ChatInv, NEW w \in Workers, Stop(w) \/ Settle(w), Unchanged_run
    PROVE  Silent
<1>1. jobs' = [jobs EXCEPT ![w] = Idle]
  BY DEF Stop, Settle
<1>2. Idle.at # "post"
  BY EmptyJob
<1> QED BY <1>1, <1>2, StaysSilent DEF Unchanged_run

LEMMA RoutesSilently ==
    ASSUME ChatInv, NEW w \in Workers, At(w, "claim"), Route(w), Unchanged_run
    PROVE  Silent
<1>1. jobs' = [jobs EXCEPT ![w] = Routed(w)]
  BY DEF Route, Routed, ChatInv, JobsOK
<1>2. Routed(w).at # "post"
  BY RoutedIs
<1> QED BY <1>1, <1>2, StaysSilent DEF Unchanged_run

\* The steps before the turn send nothing.
LEMMA PreparesSilently ==
    ASSUME ChatInv, NEW w \in Workers, NEW thread,
           \/ WritePerson(w, KindOf(Msg(w).account)) \/ WriteChannel(w) \/ WriteMember(w)
           \/ FindSession(w, thread) \/ InsertSession(w, thread)
    PROVE  Silent
<1>1. PICK step \in {"channel", "find", "member", "insert", "run"} : GoTo(w, step)
  BY DEF WritePerson, WriteChannel, WriteMember, FindSession, InsertSession
<1>2. UNCHANGED <<turns, answer, posted>>
  BY DEF WritePerson, WriteChannel, WriteMember, FindSession, InsertSession, Unchanged_run, log
<1>3. Busy(w)
  BY DEF WritePerson, WriteChannel, WriteMember, FindSession, InsertSession, At, Busy
<1> QED BY <1>1, <1>2, <1>3, StepsSilently

LEMMA StoodStill ==
    ASSUME ChatInv, UNCHANGED <<jobs, turns, answer, posted>>
    PROVE  Silent
BY DEF Silent

\* All a step can say is what a turn answers and a piece of an answer.
Speaks ==
    \E w \in Workers :
        \/ Post(w)
        \/ \E posts \in BOOLEAN : RunTurn(w, ThreadOf(jobs[w].msg), posts)

LEMMA WhoSpeaks ==
    ASSUME ChatInv, [Next]_vars
    PROVE  Silent \/ Speaks
<1> USE DEF directory, work
<1>1. ASSUME NEW w \in Workers, NEW m, NEW still, Frame(w, m, still) \/ Request(w, m, still)
      PROVE  Silent
  BY <1>1, TakenSilently DEF Frame, Request
<1>2. ASSUME NEW w \in Workers, Claim(w) PROVE Silent
  BY <1>2, EndsSilently, RoutesSilently DEF Claim
<1>3. ASSUME NEW w \in Workers, SlackStep(w) PROVE Silent
  BY <1>3, PreparesSilently DEF SlackStep
<1>4. CASE SocketStep
  <2>1. \A m : SlackThread(m) = ThreadOf(m)
    BY <1>4 DEF SocketStep, OnSocket, OnTelegram, ThreadOf
  <2>2. CASE Connect
    BY <2>2, StoodStill DEF Connect
  <2>3. CASE ReplyOnSocket(First) \/ PostMessage(First)
    BY <2>1, <2>3, FirstWorks DEF ReplyOnSocket, PostMessage, Speaks
  <2> QED BY <1>4, <1>1, <1>2, <1>3, <2>2, <2>3, FirstWorks DEF SocketStep
<1>5. CASE EventsStep
  <2>1. \A m : SlackThread(m) = ThreadOf(m)
    BY <1>5 DEF EventsStep, OnEvents, OnTelegram, ThreadOf
  <2>2. ASSUME NEW w \in Workers, ReplyOnEvents(w) PROVE Speaks
    BY <2>1, <2>2 DEF ReplyOnEvents, Speaks
  <2> QED BY <1>5, <1>1, <1>2, <1>3, <2>2 DEF EventsStep
<1>6. CASE TelegramLoop
  <2>1. \A m : TelegramThread(m) = ThreadOf(m)
    BY <1>6 DEF TelegramLoop, ThreadOf
  <2>2. CASE Poll(First)
    BY <2>2, StoodStill DEF Poll
  <2>3. CASE NextUpdate(First)
    <3>1. CASE jobs' = jobs
      BY <2>3, <3>1, StoodStill DEF NextUpdate, Unchanged_run
    <3>2. CASE jobs' # jobs
      <4>1. Take(First, Head(batch)) /\ Unchanged_run
        BY <2>3, <3>2 DEF NextUpdate, Take
      <4> QED BY <4>1, FirstWorks, TakenSilently
    <3> QED BY <3>1, <3>2
  <2>4. CASE ReadUpdate(First)
    BY <2>4, FirstWorks, RoutesSilently DEF ReadUpdate
  <2>5. CASE TelegramStep(First)
    BY <2>1, <2>5, FirstWorks, PreparesSilently DEF TelegramStep, Speaks
  <2>6. CASE Send(First)
    BY <2>6, FirstWorks DEF Send, Speaks
  <2> QED BY <1>6, <2>2, <2>3, <2>4, <2>5, <2>6 DEF TelegramLoop
<1>7. CASE Sweep
  BY <1>7, StoodStill DEF Sweep, SweepDedupe
<1>8. CASE Fault
  <2>1. CASE Crash
    <3>1. \A w \in Workers : jobs'[w].at # "post"
      BY <2>1, EmptyJob DEF Crash
    <3> QED BY <2>1, <3>1 DEF Crash, Silent
  <2>2. ASSUME NEW m \in Messages, FrameNotAcked(First, m) PROVE Silent
    BY <2>2, StoodStill DEF FrameNotAcked
  <2>3. CASE Disconnect \/ PollFails(First)
    BY <2>3, StoodStill DEF Disconnect, PollFails
  <2>4. ASSUME NEW w \in Workers, Fails(w) PROVE Silent
    BY <2>4, EndsSilently DEF Fails, GiveUp
  <2> QED BY <1>8, <1>1, <2>1, <2>2, <2>3, <2>4, FirstWorks DEF Fault
<1>9. CASE Administer
  BY <1>9, StoodStill DEF Administer
<1>10. CASE UNCHANGED vars
  BY <1>10, StoodStill DEF vars
<1> QED BY <1>4, <1>5, <1>6, <1>7, <1>8, <1>9, <1>10 DEF Next, Server

\* Who says nothing leaves what was sent.
LEMMA SilenceKeeps == ASSUME SentOK, Silent PROVE SentOK'
BY DEF SentOK, Silent, At

\* Two jobs do not send for one message.
LEMMA SendsAlone ==
    ASSUME ChatInv, NEW v \in Workers, NEW w \in Workers, v # w, At(v, "post"),
           Past(w), jobs[v].msg = jobs[w].msg
    PROVE  FALSE
<1>1. "post" \in Steps \ {"claim"}
  BY DEF Steps
<1>2. Past(v)
  BY <1>1, Midway
<1> QED BY <1>2 DEF ChatInv, Apart

\* A turn that answers has all of its answer to send.
LEMMA TurnKeeps ==
    ASSUME ChatInv, SentOK, NEW w \in Workers, NEW posts \in BOOLEAN,
           RunTurn(w, ThreadOf(jobs[w].msg), posts)
    PROVE  SentOK'
<1> DEFINE m == jobs[w].msg
<1>1. At(w, "run") /\ "run" \in Steps \ {"claim"}
  BY DEF RunTurn, Steps
<1>2. m \in Messages /\ DOMAIN jobs[w] = Fields /\ Past(w)
  BY <1>1, Midway
<1>3. turns \in [Messages -> {0, 1}] /\ DOMAIN jobs = Workers
  BY DEF ChatInv, TablesOK, JobsOK
<1>4. turns[m] = 0
  BY <1>1, EmptyJob DEF ChatInv, JobsOK, JobOK, Taken, At
<1>5. posted[m] = <<>> /\ Length(posted[m]) = 0
  BY <1>2, <1>4, LengthOfNone DEF SentOK
<1>6. /\ turns' = [turns EXCEPT ![m] = turns[m] + 1]
      /\ posted' = posted
  BY DEF RunTurn
<1>7. \A n \in Messages : turns'[n] = 0 => turns[n] = 0
  BY <1>2, <1>3, <1>6
<1>71. turns'[m] = 1 /\ \A n \in Messages \ {m} : turns'[n] = turns[n]
  BY <1>2, <1>3, <1>4, <1>6
<1>8. \A v \in Workers : At(v, "post") => jobs[v].msg # m
  <2> SUFFICES ASSUME NEW v \in Workers, At(v, "post"), jobs[v].msg = m PROVE FALSE
    OBVIOUS
  <2>1. v # w
    BY <1>1 DEF At
  <2> QED BY <2>1, <1>2, SendsAlone
<1>9. ASSUME NEW reply \in Replies,
             answer' = [answer EXCEPT ![m] = reply]
      PROVE  /\ answer' \in [Messages -> Replies \cup {<<>>}]
             /\ answer'[m] = reply /\ \A n \in Messages \ {m} : answer'[n] = answer[n]
             /\ \A n \in Messages : Length(posted'[n]) <= Length(answer'[n])
             /\ reply \in Seq(Nat \ {0}) \ {<<>>}
  <2>1. /\ answer' \in [Messages -> Replies \cup {<<>>}]
        /\ answer'[m] = reply /\ \A n \in Messages \ {m} : answer'[n] = answer[n]
    BY <1>2, <1>9 DEF SentOK
  <2>2. reply \in Seq(Nat \ {0}) \ {<<>>} /\ reply \in Seq(Nat)
    BY InboundAssumption
  <2>3. Length(reply) \in Nat
    BY <2>2, LengthIsNat
  <2>4. ASSUME NEW n \in Messages PROVE Length(posted'[n]) <= Length(answer'[n])
    <3>1. CASE n = m
      <4>1. Length(posted'[n]) = 0 /\ answer'[n] = reply
        BY <1>5, <1>6, <2>1, <3>1
      <4> QED BY <4>1, <2>3
    <3>2. CASE n # m
      <4>1. answer'[n] = answer[n] /\ posted'[n] = posted[n]
        BY <1>6, <2>1, <3>2
      <4>2. Length(posted[n]) <= Length(answer[n])
        BY DEF SentOK
      <4> QED BY <4>1, <4>2
    <3> QED BY <3>1, <3>2
  <2> QED BY <2>1, <2>2, <2>4
<1>10. CASE Settle(w) /\ answer' = answer
  <2>1. jobs' = [jobs EXCEPT ![w] = Idle]
    BY <1>10 DEF Settle, Stop
  <2>2. \A v \in Workers : jobs'[v].at = "post" => jobs'[v] = jobs[v] /\ jobs[v].msg # m
    BY <1>3, <1>8, <2>1, EmptyJob DEF At
  <2>3. \A v \in Workers : jobs'[v].at = "post" => jobs[v].msg \in Messages
    BY <2>2, Midway DEF At, Steps
  <2> QED BY <1>6, <1>7, <1>71, <1>10, <2>2, <2>3 DEF SentOK, At
<1>11. ASSUME NEW reply \in Replies, answer' = [answer EXCEPT ![m] = reply], Settle(w)
       PROVE  SentOK'
  <2>1. jobs' = [jobs EXCEPT ![w] = Idle]
    BY <1>11 DEF Settle, Stop
  <2>2. \A v \in Workers : jobs'[v].at = "post" => jobs'[v] = jobs[v] /\ jobs[v].msg # m
    BY <1>3, <1>8, <2>1, EmptyJob DEF At
  <2>3. \A v \in Workers : jobs'[v].at = "post" => jobs[v].msg \in Messages
    BY <2>2, Midway DEF At, Steps
  <2>4. ASSUME NEW v \in Workers, jobs'[v].at = "post"
        PROVE  /\ turns'[jobs'[v].msg] = 1
               /\ jobs'[v].rest \in Seq(1..MaxChars) \ {<<>>}
               /\ Length(posted'[jobs'[v].msg]) + Length(jobs'[v].rest) = Length(answer'[jobs'[v].msg])
    BY <1>6, <1>71, <1>9, <1>11, <2>2, <2>3, <2>4 DEF SentOK, At
  <2> QED BY <1>6, <1>7, <1>9, <1>11, <2>4 DEF SentOK, At
<1>12. ASSUME NEW reply \in Replies, answer' = [answer EXCEPT ![m] = reply],
              jobs' = [jobs EXCEPT ![w] = [@ EXCEPT !.at = "post", !.rest = Split(reply)]]
       PROVE  SentOK'
  <2> DEFINE row == [jobs[w] EXCEPT !.at = "post", !.rest = Split(reply)]
  <2>1. jobs' = [jobs EXCEPT ![w] = row]
    BY <1>12
  <2>2. row.msg = m /\ row.rest = Split(reply)
    BY <1>2 DEF Fields, Idle
  <2> HIDE DEF row
  <2>3. jobs'[w] = row
    BY <1>3, <2>1
  <2>4. \A v \in Workers : jobs'[v].at = "post" /\ v # w => jobs'[v] = jobs[v] /\ jobs[v].msg # m
    BY <1>3, <1>8, <2>1 DEF At
  <2>5. \A v \in Workers : jobs'[v].at = "post" /\ v # w => jobs[v].msg \in Messages
    BY <2>4, Midway DEF At, Steps
  <2>6. reply \in Seq(Nat \ {0}) \ {<<>>}
    BY <1>9, <1>12
  <2>7. /\ Split(reply) \in Seq(1..MaxChars) \ {<<>>}
        /\ Length(Split(reply)) = Length(reply)
    BY <2>6, SplitKeeps
  <2>8. Length(reply) \in Nat
    BY <2>6, LengthIsNat
  <2>81. jobs'[w].msg = m /\ jobs'[w].rest = Split(reply) /\ posted'[m] = posted[m] /\ answer'[m] = reply
    BY <1>6, <1>9, <1>12, <2>2, <2>3
  <2> HIDE DEF m
  <2>9. /\ turns'[jobs'[w].msg] = 1
        /\ jobs'[w].rest \in Seq(1..MaxChars) \ {<<>>}
        /\ Length(posted'[jobs'[w].msg]) + Length(jobs'[w].rest) = Length(answer'[jobs'[w].msg])
    BY <1>5, <1>71, <2>7, <2>8, <2>81
  <2>10. ASSUME NEW v \in Workers, jobs'[v].at = "post"
         PROVE  /\ turns'[jobs'[v].msg] = 1
                /\ jobs'[v].rest \in Seq(1..MaxChars) \ {<<>>}
                /\ Length(posted'[jobs'[v].msg]) + Length(jobs'[v].rest) = Length(answer'[jobs'[v].msg])
    <3>1. CASE v = w
      BY <2>9, <3>1
    <3>2. CASE v # w
      BY <1>6, <1>71, <1>9, <1>12, <2>4, <2>5, <2>10, <3>2 DEF SentOK, At
    <3> QED BY <3>1, <3>2
  <2> QED BY <1>6, <1>7, <1>9, <1>12, <2>10 DEF SentOK, At
<1> QED BY <1>10, <1>11, <1>12 DEF RunTurn

\* A piece is sent, and is no longer to be sent.
LEMMA PieceKeeps ==
    ASSUME ChatInv, SentOK, NEW w \in Workers, Post(w)
    PROVE  SentOK'
<1> DEFINE m == jobs[w].msg
<1>0. PICK rest : rest = jobs[w].rest
  OBVIOUS
<1>1. At(w, "post") /\ "post" \in Steps \ {"claim"}
  BY DEF Post, Steps
<1>2. m \in Messages /\ DOMAIN jobs[w] = Fields /\ Past(w)
  BY <1>1, Midway
<1>3. turns \in [Messages -> {0, 1}] /\ DOMAIN jobs = Workers
  BY DEF ChatInv, TablesOK, JobsOK
<1>4. /\ rest \in Seq(1..MaxChars) /\ rest # <<>>
      /\ Length(posted[m]) + Length(rest) = Length(answer[m])
  BY <1>0, <1>1 DEF SentOK
<1>5. PICK piece : piece = Head(rest)
  OBVIOUS
<1>6. MaxChars \in Nat \ {0} /\ piece \in 1..MaxChars /\ piece \in Nat
  BY <1>4, <1>5, InboundAssumption
<1>7. /\ posted' = [posted EXCEPT ![m] = Append(posted[m], piece)]
      /\ answer' = answer /\ turns' = turns
  BY <1>0, <1>5 DEF Post
<1>8. posted[m] \in Seq(1..MaxChars) /\ posted[m] \in Seq(Nat) /\ rest \in Seq(Nat)
  BY <1>2, <1>4, <1>6 DEF SentOK
<1>9. /\ Length(Append(posted[m], piece)) = Length(posted[m]) + piece
      /\ Length(rest) = piece + Length(Tail(rest)) /\ Tail(rest) \in Seq(1..MaxChars)
      /\ Length(Tail(rest)) \in Nat /\ Length(posted[m]) \in Nat
  <2>1. Length(Append(posted[m], piece)) = Length(posted[m]) + piece
    BY <1>6, <1>8, LengthOfAppend
  <2>2. Length(rest) = piece + Length(Tail(rest))
    BY <1>4, <1>5, <1>8, LengthOfTail
  <2>3. Tail(rest) \in Seq(1..MaxChars) /\ Tail(rest) \in Seq(Nat)
    BY <1>4, <1>8
  <2> QED BY <1>8, <2>1, <2>2, <2>3, LengthIsNat
<1>10. /\ posted' \in [Messages -> Seq(1..MaxChars)]
       /\ posted'[m] = Append(posted[m], piece)
       /\ \A n \in Messages \ {m} : posted'[n] = posted[n]
  BY <1>2, <1>6, <1>7, <1>8 DEF SentOK
<1>11. Length(posted'[m]) + Length(Tail(rest)) = Length(answer[m])
  BY <1>4, <1>6, <1>9, <1>10
<1>12. \A n \in Messages : Length(posted'[n]) <= Length(answer'[n])
  BY <1>7, <1>9, <1>6, <1>10, <1>11 DEF SentOK
<1>13. turns[m] = 1
  BY <1>1 DEF SentOK
<1>14. \A v \in Workers \ {w} : At(v, "post") => jobs[v].msg # m /\ jobs[v].msg \in Messages
  BY <1>1, <1>2, SendsAlone, Midway
<1>15. CASE Len(rest) = 1
  <2>1. jobs' = [jobs EXCEPT ![w] = Idle]
    BY <1>0, <1>15 DEF Post, Settle, Stop
  <2>2. \A v \in Workers : jobs'[v].at = "post" => v # w /\ jobs'[v] = jobs[v]
    BY <1>3, <2>1, EmptyJob
  <2> QED BY <1>7, <1>10, <1>12, <1>13, <1>14, <2>2 DEF SentOK, At
<1>16. CASE Len(rest) # 1
  <2> DEFINE row == [jobs[w] EXCEPT !.rest = Tail(rest)]
  <2>1. jobs' = [jobs EXCEPT ![w] = row]
    BY <1>0, <1>16 DEF Post
  <2>2. row.msg = m /\ row.rest = Tail(rest)
    BY <1>2 DEF Fields, Idle
  <2> HIDE DEF row
  <2>3. jobs'[w] = row /\ \A v \in Workers \ {w} : jobs'[v] = jobs[v]
    BY <1>3, <2>1
  <2>4. Tail(rest) # <<>>
    <3>1. Len(rest) \in Nat /\ Len(rest) # 0
      BY <1>4, <1>8
    <3>2. Len(Tail(rest)) = Len(rest) - 1
      BY <1>4, <1>8
    <3>3. Len(Tail(rest)) # 0
      BY <1>16, <3>1, <3>2
    <3>4. Len(<<>>) = 0
      OBVIOUS
    <3> QED BY <3>3, <3>4
  <2>5. ASSUME NEW v \in Workers, jobs'[v].at = "post"
        PROVE  /\ turns'[jobs'[v].msg] = 1
               /\ jobs'[v].rest \in Seq(1..MaxChars) \ {<<>>}
               /\ Length(posted'[jobs'[v].msg]) + Length(jobs'[v].rest) = Length(answer'[jobs'[v].msg])
    <3>1. CASE v = w
      BY <1>7, <1>9, <1>11, <1>13, <2>2, <2>3, <2>4, <3>1
    <3>2. CASE v # w
      BY <1>7, <1>10, <1>14, <2>3, <2>5, <3>2 DEF SentOK, At
    <3> QED BY <3>1, <3>2
  <2>6. \A n \in Messages : turns'[n] = 0 => posted'[n] = <<>>
    BY <1>7, <1>10, <1>13 DEF SentOK
  <2> QED BY <1>7, <1>10, <1>12, <2>5, <2>6 DEF SentOK, At
<1> QED BY <1>15, <1>16

LEMMA InitSent == Init => SentOK
BY LengthOfNone, EmptyJob DEF Init, InboundInit, SentOK, At

LEMMA SentStep == ChatInv /\ SentOK /\ [Next]_vars => SentOK'
BY WhoSpeaks, SilenceKeeps, TurnKeeps, PieceKeeps DEF Speaks

\* Whatever is delivered twice, handled at once, refused or cut off by a crash:
\* what was posted for a message is its answer from the beginning, in pieces the
\* platform takes, and what is left to post is the rest of it.
THEOREM PostsAreAnswers == Spec => []PostsAreTheAnswer
<1>1. ASSUME ChatInv, SentOK PROVE PostsAreTheAnswer
  <2>1. ASSUME NEW m \in Messages, NEW i \in DOMAIN posted[m] PROVE posted[m][i] \in 1..MaxChars
    <3>1. PICK sent : sent = posted[m]
      OBVIOUS
    <3>2. sent \in Seq(1..MaxChars) /\ i \in DOMAIN sent
      BY <1>1, <3>1 DEF SentOK
    <3>3. ASSUME NEW S, NEW s \in Seq(S), NEW j \in DOMAIN s PROVE s[j] \in S
      <4>1. j \in 1..Len(s)
        OBVIOUS
      <4> QED BY <4>1
    <3>4. sent[i] \in 1..MaxChars
      BY <3>2, <3>3
    <3> QED BY <3>1, <3>4
  <2> QED BY <1>1, <2>1 DEF SentOK, PostsAreTheAnswer
<1>2. Spec => []SentOK
  BY InitSent, SentStep, ChatHolds, PTL DEF Spec
<1> QED BY <1>1, <1>2, ChatHolds, PTL

-----------------------------------------------------------------------------
(* The type invariant.  First the directory and the jobs that write in it.   *)

KnownPeople == {p \in People : Known(p)}

\* A job that is about to write down a channel is in a shared scope, for somebody
\* who has a row; one that is about to write a member has written the channel.
JobShape(row, known, written) ==
    /\ row.at \in {"channel", "member"} => row.scope \in SharedScopes /\ row.who \in known
    /\ row.at = "member" => row.scope.ref \in written

DirectoryShape ==
    /\ groupKey = [g \in GroupIds |-> Linkable] /\ groupMembers = GroupIds \X Linkable
    /\ Linkable \subseteq KnownPeople
    /\ channels \subseteq ChannelIds
    /\ channelMembers \subseteq channels \X KnownPeople
JobsShape ==
    /\ jobs \in [Workers -> Job]
    /\ \A w \in Workers : JobShape(jobs[w], KnownPeople, channels)

\* What a step may do to a job while the members stay as they are.
SameMembers == UNCHANGED <<people, channels, channelMembers, groupKey, groupMembers>>
MovesOn(w) ==
    \/ jobs' = [jobs EXCEPT ![w] = Idle]
    \/ \E m \in Messages : jobs' = [jobs EXCEPT ![w] = TakenRow(m)]
    \/ At(w, "claim") /\ Route(w)
    \/ At(w, "find") /\ \E step \in {"run", "insert"} : GoTo(w, step)
    \/ At(w, "insert") /\ GoTo(w, "run")
    \/ At(w, "run") /\ \E reply \in Replies :
          jobs' = [jobs EXCEPT ![w] = [@ EXCEPT !.at = "post", !.rest = Split(reply)]]
    \/ At(w, "post") /\ jobs' = [jobs EXCEPT ![w].rest = Tail(@)]
WritesDown(w) ==
    /\ UNCHANGED <<groupKey, groupMembers>>
    /\ \/ WritePerson(w, KindOf(Msg(w).account)) \/ WriteChannel(w) \/ WriteMember(w)

\* Nobody moves, one job does, one writes, or the process dies.
LEMMA WhoMoves ==
    ASSUME ChatInv, [Next]_vars
    PROVE  \/ SameMembers /\ jobs' = jobs
           \/ SameMembers /\ jobs' = [w \in Workers |-> Idle]
           \/ \E w \in Workers : WritesDown(w) \/ (SameMembers /\ MovesOn(w))
<1> DEFINE Moves == \E w \in Workers : WritesDown(w) \/ (SameMembers /\ MovesOn(w))
           Stays == SameMembers /\ jobs' = jobs
<1> USE DEF directory, work, SameMembers
<1>1. ASSUME NEW w \in Workers, NEW m \in Messages, NEW still, Frame(w, m, still) \/ Request(w, m, still)
      PROVE  Moves
  BY <1>1 DEF Frame, Request, Take, TakenRow, MovesOn
<1>2. ASSUME NEW w \in Workers, Claim(w) PROVE Moves
  BY <1>2 DEF Claim, Stop, Settle, MovesOn
<1>3. ASSUME NEW w \in Workers, NEW thread,
             \/ WritePerson(w, KindOf(Msg(w).account)) \/ WriteChannel(w) \/ WriteMember(w)
             \/ FindSession(w, thread) \/ InsertSession(w, thread)
      PROVE  Moves
  <2>1. CASE WritePerson(w, KindOf(Msg(w).account)) \/ WriteChannel(w) \/ WriteMember(w)
    <3>1. UNCHANGED <<groupKey, groupMembers>>
      BY <2>1 DEF WritePerson, WriteChannel, WriteMember
    <3> QED BY <2>1, <3>1 DEF WritesDown
  <2>2. CASE FindSession(w, thread) \/ InsertSession(w, thread)
    BY <2>2 DEF FindSession, InsertSession, MovesOn
  <2> QED BY <1>3, <2>1, <2>2
<1>4. ASSUME NEW w \in Workers, NEW thread, NEW posts \in BOOLEAN, RunTurn(w, thread, posts)
      PROVE  Moves
  BY <1>4 DEF RunTurn, Settle, Stop, MovesOn
<1>5. ASSUME NEW w \in Workers, Post(w) PROVE Moves
  BY <1>5 DEF Post, Settle, Stop, MovesOn
<1>6. CASE SocketStep
  <2>1. CASE Connect
    BY <2>1 DEF Connect
  <2>2. CASE SlackStep(First)
    BY <2>2, <1>3, FirstWorks DEF SlackStep
  <2>3. CASE ReplyOnSocket(First) \/ PostMessage(First)
    BY <2>3, <1>4, <1>5, FirstWorks DEF ReplyOnSocket, PostMessage
  <2> QED BY <1>6, <1>1, <1>2, <2>1, <2>2, <2>3, FirstWorks DEF SocketStep
<1>7. CASE EventsStep
  <2>1. ASSUME NEW w \in Workers, SlackStep(w) \/ ReplyOnEvents(w) PROVE Moves
    BY <2>1, <1>3, <1>4 DEF SlackStep, ReplyOnEvents
  <2> QED BY <1>7, <1>1, <1>2, <2>1 DEF EventsStep
<1>8. CASE TelegramLoop
  <2>1. CASE Poll(First)
    BY <2>1 DEF Poll
  <2>2. CASE NextUpdate(First)
    <3>1. CASE jobs' = jobs
      BY <2>2, <3>1 DEF NextUpdate
    <3>2. CASE jobs' # jobs
      <4>1. jobs' = [jobs EXCEPT ![First] = TakenRow(Head(batch))] /\ batch # <<>>
        BY <2>2, <3>2 DEF NextUpdate, TakenRow
      <4>2. Head(batch) \in Messages
        BY <4>1 DEF ChatInv, BatchOK
      <4> QED BY <2>2, <4>1, <4>2, FirstWorks DEF NextUpdate, MovesOn
    <3> QED BY <3>1, <3>2
  <2>3. CASE ReadUpdate(First)
    BY <2>3, FirstWorks DEF ReadUpdate, MovesOn
  <2>4. CASE TelegramStep(First)
    BY <2>4, <1>3, <1>4, FirstWorks DEF TelegramStep
  <2>5. CASE Send(First)
    BY <2>5, <1>5, FirstWorks DEF Send
  <2> QED BY <1>8, <2>1, <2>2, <2>3, <2>4, <2>5 DEF TelegramLoop
<1>9. CASE Sweep
  BY <1>9 DEF Sweep, SweepDedupe
<1>10. CASE Fault
  <2>1. CASE Crash
    BY <2>1 DEF Crash
  <2>2. ASSUME NEW m \in Messages, FrameNotAcked(First, m) PROVE Stays
    BY <2>2 DEF FrameNotAcked
  <2>3. CASE Disconnect \/ PollFails(First)
    BY <2>3 DEF Disconnect, PollFails
  <2>4. ASSUME NEW w \in Workers, Fails(w) PROVE Moves
    BY <2>4 DEF Fails, GiveUp, Settle, Stop, MovesOn
  <2> QED BY <1>10, <1>1, <2>1, <2>2, <2>3, <2>4, FirstWorks DEF Fault
<1>11. CASE Administer
  BY <1>11 DEF Administer, LinkAccount, BindChat
<1>12. CASE UNCHANGED vars
  BY <1>12 DEF vars
<1> QED BY <1>6, <1>7, <1>8, <1>9, <1>10, <1>11, <1>12 DEF Next, Server

LEMMA IdleIsJob == Idle \in Job /\ \A known, written : JobShape(Idle, known, written)
BY DEF Job, Idle, JobShape

\* What a shared scope has written for it.
LEMMA SharedHasChannel ==
    ASSUME NEW scope \in Scopes, IsShared(scope)
    PROVE  scope \in SharedScopes /\ scope.ref \in ChannelIds
<1>1. scope \in SharedScopes
  BY DEF Scopes, Personal, Org, IsShared
<1>2. scope.ref \in ChannelIds \cup GroupIds
  BY <1>1 DEF SharedScopes, ChannelScope, GroupScope
<1> QED BY <1>1, <1>2, InboundAssumption

\* One job gets another row, and nobody's row or channel is taken back.
LEMMA OneJobShaped ==
    ASSUME JobsShape, NEW w \in Workers, NEW row \in Job, NEW known, NEW written,
           KnownPeople \subseteq known, channels \subseteq written,
           JobShape(row, known, written), jobs' = [jobs EXCEPT ![w] = row]
    PROVE  jobs' \in [Workers -> Job] /\ \A v \in Workers : JobShape(jobs'[v], known, written)
<1>1. jobs \in [Workers -> Job] /\ \A v \in Workers : JobShape(jobs[v], KnownPeople, channels)
  BY DEF JobsShape
<1>2. jobs' \in [Workers -> Job]
  BY <1>1
<1>3. \A v \in Workers : jobs'[v] = row \/ jobs'[v] = jobs[v]
  BY <1>1
<1> QED BY <1>1, <1>2, <1>3 DEF JobShape

LEMMA MovesOnShaped ==
    ASSUME ChatInv, SentOK, JobsShape, NEW w \in Workers, SameMembers, MovesOn(w)
    PROVE  JobsShape'
<1>1. KnownPeople' = KnownPeople /\ channels' = channels
  BY DEF SameMembers, KnownPeople, Known
<1>2. ASSUME NEW row \in Job, JobShape(row, KnownPeople, channels), jobs' = [jobs EXCEPT ![w] = row]
      PROVE  JobsShape'
  BY <1>1, <1>2, OneJobShaped DEF JobsShape
<1>3. jobs[w] \in Job /\ JobShape(jobs[w], KnownPeople, channels) /\ DOMAIN jobs = Workers
  BY DEF JobsShape
<1>4. jobs[w].at # "idle" => jobs[w] \in
         [at : Steps, msg : Messages, who : People \cup {Nobody}, scope : Scopes \cup {NoScope},
          rest : Seq(Nat)]
  BY <1>3 DEF Job, Idle
<1>5. ASSUME NEW step \in {"run", "insert"}, jobs[w].at # "idle", GoTo(w, step)
      PROVE  JobsShape'
  <2> DEFINE row == [jobs[w] EXCEPT !.at = step]
  <2>1. jobs' = [jobs EXCEPT ![w] = row]
    BY <1>3, <1>5 DEF GoTo
  <2>2. row \in Job /\ row.at = step
    BY <1>4, <1>5 DEF Job, Steps
  <2> HIDE DEF row
  <2>3. JobShape(row, KnownPeople, channels)
    BY <2>2 DEF JobShape
  <2> QED BY <1>2, <2>1, <2>2, <2>3
<1>6. CASE jobs' = [jobs EXCEPT ![w] = Idle]
  BY <1>2, <1>6, IdleIsJob
<1>7. ASSUME NEW m \in Messages, jobs' = [jobs EXCEPT ![w] = TakenRow(m)]
      PROVE  JobsShape'
  <2> DEFINE Rows == [at : Steps \cup {"idle"}, msg : Messages \cup {Top}, who : People \cup {Nobody},
                      scope : Scopes \cup {NoScope}, rest : Seq(Nat)]
  <2>1. Idle \in Rows
    <3>1. <<>> \in Seq(Nat)
      OBVIOUS
    <3> QED BY <3>1 DEF Idle
  <2>2. TakenRow(m) \in Job /\ TakenRow(m).at = "claim"
    BY <2>1 DEF TakenRow, Job, Steps
  <2>3. JobShape(TakenRow(m), KnownPeople, channels)
    BY <2>2 DEF JobShape
  <2> QED BY <1>2, <1>7, <2>2, <2>3
<1>8. CASE At(w, "claim") /\ Route(w)
  <2> DEFINE row == Routed(w)
  <2>1. jobs' = [jobs EXCEPT ![w] = row]
    BY <1>8, <1>3 DEF Route, Routed
  <2>2. row.at = "person" /\ row.who \in People /\ row.scope \in Scopes
    BY <1>8, RoutedIs
  <2>3. PICK who \in People, scope \in Scopes :
            row = [jobs[w] EXCEPT !.at = "person", !.who = who, !.scope = scope]
    <3> DEFINE who == PersonOf(Msg(w).account)
               scope == ScopeOf(Msg(w))
    <3>1. row = [jobs[w] EXCEPT !.at = "person", !.who = who, !.scope = scope]
      BY DEF Routed
    <3>2. row.who = who /\ row.scope = scope
      BY <1>4, <1>8 DEF Routed, At
    <3> HIDE DEF row, who, scope
    <3> QED BY <2>2, <3>1, <3>2
  <2> HIDE DEF row
  <2>5. row \in Job
    BY <1>4, <1>8, <2>3 DEF Job, Steps, At
  <2>6. JobShape(row, KnownPeople, channels)
    BY <2>2 DEF JobShape
  <2> QED BY <1>2, <2>1, <2>5, <2>6
<1>9. CASE At(w, "find") /\ \E step \in {"run", "insert"} : GoTo(w, step)
  BY <1>5, <1>9 DEF At
<1>10. CASE At(w, "insert") /\ GoTo(w, "run")
  BY <1>5, <1>10 DEF At
<1>11. ASSUME At(w, "run"), NEW reply \in Replies,
              jobs' = [jobs EXCEPT ![w] = [@ EXCEPT !.at = "post", !.rest = Split(reply)]]
       PROVE  JobsShape'
  <2> DEFINE row == [jobs[w] EXCEPT !.at = "post", !.rest = Split(reply)]
  <2>1. jobs' = [jobs EXCEPT ![w] = row]
    BY <1>11
  <2>2. Split(reply) \in Seq(Nat)
    <3>1. reply \in Seq(Nat \ {0}) \ {<<>>}
      BY InboundAssumption
    <3>2. Split(reply) \in Seq(1..MaxChars)
      BY <3>1, SplitKeeps
    <3> QED BY <3>2, InboundAssumption
  <2>3. row \in Job /\ row.at = "post"
    BY <1>4, <1>11, <2>2 DEF Job, Steps, At
  <2> HIDE DEF row
  <2>4. JobShape(row, KnownPeople, channels)
    BY <2>3 DEF JobShape
  <2> QED BY <1>2, <2>1, <2>3, <2>4
<1>12. CASE At(w, "post") /\ jobs' = [jobs EXCEPT ![w].rest = Tail(@)]
  <2> DEFINE row == [jobs[w] EXCEPT !.rest = Tail(jobs[w].rest)]
  <2>1. jobs' = [jobs EXCEPT ![w] = row]
    BY <1>3, <1>12
  <2>2. Tail(jobs[w].rest) \in Seq(Nat)
    <3>1. jobs[w].rest \in Seq(1..MaxChars) \ {<<>>}
      BY <1>12 DEF SentOK
    <3>2. \A rest \in Seq(1..MaxChars) \ {<<>>} : Tail(rest) \in Seq(Nat)
      <4> TAKE rest \in Seq(1..MaxChars) \ {<<>>}
      <4>1. Tail(rest) \in Seq(1..MaxChars)
        OBVIOUS
      <4> QED BY <4>1, InboundAssumption
    <3> QED BY <3>1, <3>2
  <2>3. row \in Job /\ row.at = "post"
    BY <1>4, <1>12, <2>2 DEF Job, Steps, At
  <2> HIDE DEF row
  <2>4. JobShape(row, KnownPeople, channels)
    BY <2>3 DEF JobShape
  <2> QED BY <1>2, <2>1, <2>3, <2>4
<1> QED BY <1>6, <1>7, <1>8, <1>9, <1>10, <1>11, <1>12 DEF MovesOn

\* The three steps that write the directory.
LEMMA WritesShaped ==
    ASSUME ChatInv, DirectoryShape, JobsShape, NEW w \in Workers, WritesDown(w)
    PROVE  DirectoryShape' /\ JobsShape'
<1>1. /\ jobs[w] \in Job /\ JobShape(jobs[w], KnownPeople, channels) /\ DOMAIN jobs = Workers
      /\ people \in [People -> Person]
  BY DEF JobsShape, ChatInv, TablesOK
<1>2. PICK at \in {"person", "channel", "member"} : At(w, at)
  BY DEF WritesDown, WritePerson, WriteChannel, WriteMember
<1>3. jobs[w].who \in People /\ jobs[w].scope \in Scopes
  <2>1. at \in Steps \ {"claim"}
    BY DEF Steps
  <2> QED BY <1>2, <2>1, Midway
<1>4. jobs[w] \in [at : Steps, msg : Messages, who : People \cup {Nobody}, scope : Scopes \cup {NoScope},
                   rest : Seq(Nat)]
  BY <1>1, <1>2 DEF Job, Idle, At
<1>5. ASSUME NEW step \in {"channel", "member", "find"}, GoTo(w, step),
             KnownPeople \subseteq KnownPeople', channels \subseteq channels',
             step # "find" => jobs[w].scope \in SharedScopes /\ jobs[w].who \in KnownPeople',
             step = "member" => jobs[w].scope.ref \in channels'
      PROVE  JobsShape'
  <2> DEFINE row == [jobs[w] EXCEPT !.at = step]
  <2>1. jobs' = [jobs EXCEPT ![w] = row]
    BY <1>1, <1>5 DEF GoTo
  <2>2. row \in Job /\ row.at = step /\ row.who = jobs[w].who /\ row.scope = jobs[w].scope
    BY <1>4, <1>5 DEF Job, Steps
  <2> HIDE DEF row
  <2>3. JobShape(row, KnownPeople', channels')
    BY <1>5, <2>2 DEF JobShape
  <2> QED BY <1>5, <2>1, <2>2, <2>3, OneJobShaped DEF JobsShape
<1>6. CASE WritePerson(w, KindOf(Msg(w).account))
  <2>1. KnownPeople \subseteq KnownPeople' /\ jobs[w].who \in KnownPeople'
    <3> DEFINE kind == KindOf(Msg(w).account)
    <3>1. kind \in Kinds
      BY KindsOfPeople
    <3> HIDE DEF kind
    <3>2. people' = [people EXCEPT ![jobs[w].who] =
              IF Known(jobs[w].who) THEN [people[jobs[w].who] EXCEPT !.kind = kind]
              ELSE [kind |-> kind, active |-> TRUE]]
      BY <1>6 DEF WritePerson, UpsertPrincipal, kind
    <3>3. [kind |-> kind, active |-> TRUE] # NoPerson
      BY <3>1 DEF NoPerson, Kinds
    <3>4. Known(jobs[w].who) => [people[jobs[w].who] EXCEPT !.kind = kind] # NoPerson
      <4>1. Known(jobs[w].who) => people[jobs[w].who] \in [kind : Kinds, active : BOOLEAN]
        BY <1>1, <1>3 DEF Known, Person
      <4>2. Known(jobs[w].who) => [people[jobs[w].who] EXCEPT !.kind = kind].kind = kind
        BY <4>1
      <4>3. NoPerson.kind \notin Kinds
        BY DEF NoPerson, Kinds
      <4> QED BY <3>1, <4>2, <4>3
    <3>5. people'[jobs[w].who] # NoPerson
      BY <1>1, <1>3, <3>2, <3>3, <3>4
    <3>6. \A p \in People \ {jobs[w].who} : people'[p] = people[p]
      BY <1>1, <3>2
    <3> QED BY <1>3, <3>5, <3>6 DEF KnownPeople, Known
  <2>2. UNCHANGED <<channels, channelMembers, groupKey, groupMembers>>
    BY <1>6 DEF WritePerson
  <2>3. PICK step \in {"channel", "find"} : GoTo(w, step) /\ (step = "channel" => IsShared(jobs[w].scope))
    BY <1>6 DEF WritePerson
  <2>4. step = "channel" => jobs[w].scope \in SharedScopes
    BY <1>3, <2>3, SharedHasChannel
  <2>5. JobsShape'
    BY <1>5, <2>1, <2>2, <2>3, <2>4
  <2>6. DirectoryShape'
    BY <2>1, <2>2 DEF DirectoryShape
  <2> QED BY <2>5, <2>6
<1>7. CASE WriteChannel(w) \/ WriteMember(w)
  <2>1. /\ UNCHANGED <<people, groupKey, groupMembers>>
        /\ KnownPeople' = KnownPeople
    BY <1>7 DEF WriteChannel, WriteMember, KnownPeople, Known
  <2>2. jobs[w].scope \in SharedScopes /\ jobs[w].who \in KnownPeople
    BY <1>1, <1>7 DEF WriteChannel, WriteMember, At, JobShape
  <2>3. jobs[w].scope.ref \in ChannelIds
    <3>1. IsShared(jobs[w].scope)
      BY <2>2 DEF SharedScopes, ChannelScope, GroupScope, IsShared
    <3> QED BY <1>3, <3>1, SharedHasChannel
  <2>4. CASE WriteChannel(w)
    <3>1. /\ GoTo(w, "member") /\ channels' = channels \cup {jobs[w].scope.ref}
          /\ channelMembers' = channelMembers
      BY <2>4 DEF WriteChannel, UpsertChannel
    <3>2. JobsShape'
      BY <1>5, <2>1, <2>2, <3>1
    <3>3. DirectoryShape'
      BY <2>1, <2>3, <3>1 DEF DirectoryShape
    <3> QED BY <3>2, <3>3
  <2>5. CASE WriteMember(w)
    <3>1. /\ GoTo(w, "find") /\ channels' = channels
          /\ channelMembers' = channelMembers \cup {<<jobs[w].scope.ref, jobs[w].who>>}
      BY <2>5 DEF WriteMember, AddChannelMember
    <3>2. jobs[w].scope.ref \in channels
      BY <1>1, <2>5 DEF WriteMember, At, JobShape
    <3>3. JobsShape'
      BY <1>5, <2>1, <3>1
    <3>4. DirectoryShape'
      BY <2>1, <2>2, <3>1, <3>2 DEF DirectoryShape
    <3> QED BY <3>3, <3>4
  <2> QED BY <1>7, <2>4, <2>5
<1> QED BY <1>6, <1>7 DEF WritesDown

LEMMA DirectoryStep ==
    ASSUME ChatInv, SentOK, DirectoryShape, JobsShape, [Next]_vars
    PROVE  DirectoryShape' /\ JobsShape'
<1>1. SameMembers => DirectoryShape'
  BY DEF SameMembers, DirectoryShape, KnownPeople, Known
<1>2. CASE SameMembers /\ jobs' = jobs
  BY <1>1, <1>2 DEF SameMembers, JobsShape, KnownPeople, Known
<1>3. CASE SameMembers /\ jobs' = [w \in Workers |-> Idle]
  BY <1>1, <1>3, IdleIsJob DEF JobsShape
<1>4. ASSUME NEW w \in Workers, WritesDown(w) PROVE DirectoryShape' /\ JobsShape'
  BY <1>4, WritesShaped
<1>5. ASSUME NEW w \in Workers, SameMembers, MovesOn(w) PROVE DirectoryShape' /\ JobsShape'
  BY <1>1, <1>5, MovesOnShaped
<1> QED BY <1>2, <1>3, <1>4, <1>5, WhoMoves

-----------------------------------------------------------------------------
(* Then the sessions' participants and entries, the feeds and the counters   *)

LogShape ==
    /\ participants \subseteq Messages \X People
    /\ entries \subseteq [session : Messages, seq : Nat, said : Messages]
    /\ \E n \in Nat : \A e \in entries : e.seq < n
FeedShape == claimed \subseteq Messages /\ offset <= Cardinality(Messages) + 1
CountsShape == faults \in Nat /\ changes \in Nat /\ faults + changes <= MaxTrouble

\* The number of the next entry: one more than some number below a bound.
LEMMA NextSeqIs ==
    ASSUME LogShape, NEW id, NEW n \in Nat, \A e \in entries : e.seq < n
    PROVE  NextSeq(id) \in 0..n
<1> DEFINE S == {-1} \cup {e.seq : e \in {f \in entries : f.session = id}}
           T == {s + 2 : s \in S}
<1>1. \A s \in S : s \in Int /\ -1 <= s /\ s < n
  BY DEF LogShape
<1>2. -1 \in S
  OBVIOUS
<1> HIDE DEF S
<1>3. T \in SUBSET (1..(n + 1)) /\ 1 \in T /\ n + 1 \in Nat
  BY <1>1, <1>2
<1>4. \A s \in S : s + 2 \in T
  OBVIOUS
<1>5. \A t \in T : t - 2 \in S
  BY <1>1
<1> HIDE DEF T
<1>6. PICK t \in T : \A u \in T : u <= t
  BY <1>3, Greatest
<1>7. t - 2 \in S /\ \A s \in S : t - 2 >= s
  BY <1>1, <1>3, <1>4, <1>5, <1>6
<1>8. Max(S) \in S
  BY <1>7 DEF Max
<1>9. NextSeq(id) = Max(S) + 1
  BY DEF NextSeq, S
<1> QED BY <1>1, <1>8, <1>9

\* A turn writes who spoke, and what was said.
Logs(w) ==
    LET id == sessions[ThreadOf(jobs[w].msg)].id IN
    At(w, "run") /\ Join(id, jobs[w].who) /\ AppendEntry(id, jobs[w].msg)

LEMMA WhoLogs ==
    ASSUME [Next]_vars
    PROVE  UNCHANGED <<participants, entries>> \/ \E w \in Workers : Logs(w)
<1> DEFINE Same == UNCHANGED <<participants, entries>>
<1> USE DEF directory, work, log
<1>1. ASSUME NEW w \in Workers, NEW m, NEW still, Frame(w, m, still) \/ Request(w, m, still)
      PROVE  Same
  BY <1>1 DEF Frame, Request
<1>2. ASSUME NEW w \in Workers, NEW thread,
             \/ WritePerson(w, KindOf(Msg(w).account)) \/ WriteChannel(w) \/ WriteMember(w)
             \/ FindSession(w, thread) \/ InsertSession(w, thread) \/ Post(w) \/ Claim(w) \/ GiveUp(w)
      PROVE  Same
  BY <1>2 DEF WritePerson, WriteChannel, WriteMember, FindSession, InsertSession, Post, Claim, GiveUp
<1>3. ASSUME NEW w \in Workers, NEW posts \in BOOLEAN, RunTurn(w, ThreadOf(jobs[w].msg), posts)
      PROVE  Logs(w)
  BY <1>3 DEF RunTurn, Logs
<1>4. CASE SocketStep
  <2>1. \A m : SlackThread(m) = ThreadOf(m)
    BY <1>4 DEF SocketStep, OnSocket, OnTelegram, ThreadOf
  <2>2. CASE Connect
    BY <2>2 DEF Connect
  <2>3. CASE SlackStep(First)
    BY <2>3, <1>2, FirstWorks DEF SlackStep
  <2>4. CASE ReplyOnSocket(First) \/ PostMessage(First)
    BY <2>1, <2>4, <1>2, <1>3, FirstWorks DEF ReplyOnSocket, PostMessage
  <2> QED BY <1>4, <1>1, <1>2, <2>2, <2>3, <2>4, FirstWorks DEF SocketStep
<1>5. CASE EventsStep
  <2>1. \A m : SlackThread(m) = ThreadOf(m)
    BY <1>5 DEF EventsStep, OnEvents, OnTelegram, ThreadOf
  <2>2. ASSUME NEW w \in Workers, SlackStep(w) PROVE Same
    BY <2>2, <1>2 DEF SlackStep
  <2>3. ASSUME NEW w \in Workers, ReplyOnEvents(w) PROVE Logs(w)
    BY <2>1, <2>3, <1>3 DEF ReplyOnEvents
  <2> QED BY <1>5, <1>1, <1>2, <2>2, <2>3 DEF EventsStep
<1>6. CASE TelegramLoop
  <2>1. \A m : TelegramThread(m) = ThreadOf(m)
    BY <1>6 DEF TelegramLoop, ThreadOf
  <2>2. CASE Poll(First) \/ NextUpdate(First) \/ ReadUpdate(First)
    BY <2>2 DEF Poll, NextUpdate, ReadUpdate
  <2>3. CASE TelegramStep(First) \/ Send(First)
    BY <2>1, <2>3, <1>2, <1>3, FirstWorks DEF TelegramStep, Send
  <2> QED BY <1>6, <2>2, <2>3 DEF TelegramLoop
<1>7. CASE Sweep
  BY <1>7 DEF Sweep, SweepDedupe
<1>8. CASE Fault
  BY <1>8, <1>1, <1>2, FirstWorks DEF Fault, Crash, Disconnect, FrameNotAcked, PollFails, Fails
<1>9. CASE Administer
  BY <1>9 DEF Administer
<1>10. CASE UNCHANGED vars
  BY <1>10 DEF vars
<1> QED BY <1>4, <1>5, <1>6, <1>7, <1>8, <1>9, <1>10 DEF Next, Server

LEMMA LogStep ==
    ASSUME ChatInv, LogShape, [Next]_vars
    PROVE  LogShape'
<1>1. CASE UNCHANGED <<participants, entries>>
  BY <1>1 DEF LogShape
<1>2. ASSUME NEW w \in Workers, Logs(w) PROVE LogShape'
  <2> DEFINE id == sessions[ThreadOf(jobs[w].msg)].id
  <2>1. At(w, "run") /\ "run" \in Steps \ {"claim"}
    BY <1>2 DEF Logs, Steps
  <2>2. /\ jobs[w].msg \in Messages /\ jobs[w].who \in People
        /\ ThreadOf(jobs[w].msg) \in Threads /\ \A t \in Threads : sessions[t] \in SessionRow(t)
    BY <2>1, Midway
  <2>3. Exists(ThreadOf(jobs[w].msg))
    BY <2>1, EmptyJob DEF ChatInv, JobsOK, JobOK, At
  <2>4. id \in Messages
    BY <2>2, <2>3 DEF Exists, SessionRow
  <2>5. participants' = participants \cup {<<id, jobs[w].who>>}
    BY <1>2 DEF Logs, Join
  <2>6. entries' = entries \cup {[session |-> id, seq |-> NextSeq(id), said |-> jobs[w].msg]}
    BY <1>2 DEF Logs, AppendEntry
  <2> HIDE DEF id
  <2>7. PICK n \in Nat : \A e \in entries : e.seq < n
    BY DEF LogShape
  <2>8. NextSeq(id) \in 0..n
    BY <2>7, NextSeqIs
  <2>9. entries' \subseteq [session : Messages, seq : Nat, said : Messages]
    BY <2>2, <2>4, <2>6, <2>8 DEF LogShape
  <2>10. \A e \in entries' : e.seq < n + 1
    <3>1. \A e \in entries : e.seq \in Nat /\ e.seq < n
      BY <2>7 DEF LogShape
    <3> QED BY <2>6, <2>8, <3>1
  <2>11. n + 1 \in Nat
    OBVIOUS
  <2> QED BY <2>2, <2>4, <2>5, <2>9, <2>10, <2>11 DEF LogShape
<1> QED BY <1>1, <1>2, WhoLogs

LEMMA FeedStep ==
    ASSUME ChatInv, FeedShape, [Next]_vars
    PROVE  FeedShape'
<1> DEFINE Same == UNCHANGED <<claimed, offset>>
<1> USE DEF slack, telegram
<1>1. Same => FeedShape'
  BY DEF FeedShape
<1>2. ASSUME NEW w \in Workers, Claim(w), UNCHANGED telegram PROVE FeedShape'
  <2>1. jobs[w].msg \in Messages
    BY <1>2, RoutedIs DEF Claim
  <2> QED BY <1>2, <2>1 DEF Claim, FeedShape
<1>3. CASE SocketStep
  <2>1. CASE Claim(First)
    BY <1>2, <1>3, <2>1, FirstWorks DEF SocketStep
  <2>2. CASE ~Claim(First)
    BY <1>3, <2>2, <1>1 DEF SocketStep, Connect, Frame, SlackStep, ReplyOnSocket, PostMessage
  <2> QED BY <2>1, <2>2
<1>4. CASE EventsStep
  <2>1. ASSUME NEW w \in Workers, Claim(w) PROVE FeedShape'
    BY <1>2, <1>4, <2>1 DEF EventsStep
  <2>2. CASE ~\E w \in Workers : Claim(w)
    BY <1>4, <2>2, <1>1 DEF EventsStep, Request, SlackStep, ReplyOnEvents
  <2> QED BY <2>1, <2>2
<1>5. CASE TelegramLoop
  <2>1. CASE NextUpdate(First)
    <3>1. offset' = Head(batch) + 1 /\ batch # <<>>
      BY <2>1 DEF NextUpdate
    <3>2. Head(batch) \in Messages
      BY <3>1 DEF ChatInv, BatchOK
    <3>3. Head(batch) \in 1..Cardinality(Messages) /\ Cardinality(Messages) \in Nat
      BY <3>2, TelegramAssumption, FS_CardinalityType
    <3> QED BY <1>5, <3>1, <3>3 DEF TelegramLoop, FeedShape
  <2>2. CASE ~NextUpdate(First)
    BY <1>5, <2>2, <1>1 DEF TelegramLoop, Poll, ReadUpdate, TelegramStep, Send
  <2> QED BY <2>1, <2>2
<1>6. CASE Sweep
  BY <1>6 DEF Sweep, SweepDedupe, FeedShape
<1>7. CASE Fault
  BY <1>7, <1>1 DEF Fault, Crash, Disconnect, FrameNotAcked, Frame, Request, PollFails, Fails
<1>8. CASE Administer
  BY <1>8, <1>1 DEF Administer
<1>9. CASE UNCHANGED vars
  BY <1>9, <1>1 DEF vars
<1> QED BY <1>3, <1>4, <1>5, <1>6, <1>7, <1>8, <1>9 DEF Next, Server

LEMMA CountsStep ==
    ASSUME CountsShape, [Next]_vars
    PROVE  CountsShape'
<1>1. \/ UNCHANGED <<faults, changes>>
      \/ faults + changes < MaxTrouble /\ faults' = faults + 1 /\ changes' = changes
      \/ faults + changes < MaxTrouble /\ changes' = changes + 1 /\ faults' = faults
  <2>1. CASE Server \/ Sweep
    BY <2>1 DEF Server, SocketStep, EventsStep, TelegramLoop, Sweep, Fixed
  <2>2. CASE Fault
    BY <2>2 DEF Fault
  <2>3. CASE Administer
    BY <2>3 DEF Administer
  <2>4. CASE UNCHANGED vars
    BY <2>4 DEF vars
  <2> QED BY <2>1, <2>2, <2>3, <2>4 DEF Next
<1> QED BY <1>1, ConnectorsAssumption DEF CountsShape

ShapeInv == DirectoryShape /\ JobsShape /\ LogShape /\ FeedShape /\ CountsShape

LEMMA InitShape == Init => ShapeInv
<1> SUFFICES ASSUME Init PROVE ShapeInv
  OBVIOUS
<1> USE DEF Init, InboundInit, SlackInit, TelegramInit
<1>1. DirectoryShape
  <2>1. \A p \in Linkable : p \in People /\ people[p] # NoPerson
    BY ConnectorsAssumption DEF NoPerson
  <2> QED BY <2>1 DEF DirectoryShape, KnownPeople, Known
<1>2. JobsShape
  BY IdleIsJob DEF JobsShape
<1>3. LogShape
  <2>1. 0 \in Nat /\ \A e \in entries : e.seq < 0
    OBVIOUS
  <2> QED BY <2>1 DEF LogShape
<1>4. FeedShape
  BY TelegramAssumption, FS_CardinalityType DEF FeedShape
<1>5. CountsShape
  BY ConnectorsAssumption DEF CountsShape
<1> QED BY <1>1, <1>2, <1>3, <1>4, <1>5 DEF ShapeInv

\* Members, linked accounts and speakers are people with a row, and members are of
\* a channel with one, also while the administrator changes what routes them; a
\* session is named after a message; entries are numbered from 0; the stored offset
\* never passes what was written; what a job holds is what its step needs.
THEOREM ConnectorsTypeCorrect == Spec => []TypeOK
<1>1. ASSUME ChatInv, ShapeInv PROVE TypeOK
  <2>1. DirectoryTypeOK
    <3>1. /\ people \in [People -> Person] /\ identities \in [Accounts -> People \cup {Nobody}]
          /\ bindings \in [Chats -> SharedScopes \cup {NoScope}]
      BY <1>1 DEF ChatInv, TablesOK
    <3>2. channels \subseteq ChannelIds /\ channelMembers \subseteq channels \X {p \in People : Known(p)}
      BY <1>1 DEF ShapeInv, DirectoryShape, KnownPeople
    <3>3. /\ groupKey = [g \in GroupIds |-> Linkable] /\ groupMembers = GroupIds \X Linkable
          /\ Linkable \subseteq {p \in People : Known(p)} /\ Linkable \subseteq People
      BY <1>1, ConnectorsAssumption DEF ShapeInv, DirectoryShape, KnownPeople
    <3>4. groupKey \in [GroupIds -> SUBSET People]
      BY <3>3
    <3>5. groupMembers \subseteq {g \in GroupIds : groupKey[g] # {}} \X {p \in People : Known(p)}
      BY <3>3
    <3> QED BY <3>1, <3>2, <3>4, <3>5 DEF DirectoryTypeOK
  <2>2. \A t \in DOMAIN sessions : sessions[t] \in SessionRow(t)
    BY <1>1 DEF ChatInv, TablesOK
  <2>3. held \subseteq Messages /\ claimed \subseteq Messages /\ settled \subseteq Messages
    BY <1>1 DEF ChatInv, TablesOK, ShapeInv, FeedShape
  <2>4. offset \in 1..(Cardinality(Messages) + 1)
    BY <1>1, TelegramAssumption, FS_CardinalityType DEF ChatInv, BatchOK, ShapeInv, FeedShape
  <2>5. faults \in 0..MaxTrouble /\ changes \in 0..MaxTrouble
    BY <1>1, ConnectorsAssumption DEF ShapeInv, CountsShape
  <2> QED BY <1>1, <2>1, <2>2, <2>3, <2>4, <2>5 DEF TypeOK, ShapeInv, LogShape, JobsShape
<1>2. Spec => []SentOK
  BY InitSent, SentStep, ChatHolds, PTL DEF Spec
<1>3. ChatInv /\ SentOK /\ ShapeInv /\ [Next]_vars => ShapeInv'
  BY DirectoryStep, LogStep, FeedStep, CountsStep DEF ShapeInv
<1> QED BY <1>1, <1>2, <1>3, InitShape, ChatHolds, PTL DEF Spec
=============================================================================
