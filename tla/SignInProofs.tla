---------------------------- MODULE SignInProofs ----------------------------
(***************************************************************************)
(* What TLAPS proves of SignIn: for every set of addresses, ids and         *)
(* handlers, every time to live and every limit.                            *)
(***************************************************************************)
EXTENDS SignIn, FiniteSetTheorems, TLAPS

-----------------------------------------------------------------------------
(* The tables *)

\* A principal is known after the step.
StillKnown(p) == principals'[p].address # NoAddress

\* What no step undoes: a principal stays known, a row stays in its place, and a
\* link that is spent stays so.
TablesGrow ==
    /\ \A p \in Ids : Known(p) => StillKnown(p)
    /\ DOMAIN links \subseteq DOMAIN links'
    /\ Len(links) <= Len(links')
    /\ \A i \in DOMAIN links :
          /\ links'[i].id = links[i].id
          /\ links[i].state # "fresh" => links'[i].state # "fresh"

\* A new person, or a new address of an old one.
LEMMA RegisterGrows ==
    ASSUME IndInv, NEW r \in Requests, Register(r)
    PROVE  /\ principals' \in [Ids -> [address : Addresses, active : BOOLEAN] \union {Unknown}]
           /\ TablesGrow
           /\ StillKnown(requests[r].id)
<1> DEFINE p == requests[r].id
           a == requests[r].address
           row == [address |-> a, active |-> IF Known(p) THEN principals[p].active ELSE TRUE]
<1>1. p \in Ids /\ a \in Addresses
  BY DEF IndInv, HandlersAreReady, Register, At
<1>2. principals \in [Ids -> [address : Addresses, active : BOOLEAN] \union {Unknown}]
  BY DEF IndInv, TypeOK
<1>3. Known(p) => principals[p].active \in BOOLEAN
  BY <1>1, <1>2 DEF Known, Unknown
<1>4. row \in [address : Addresses, active : BOOLEAN]
  BY <1>1, <1>3
<1>5. principals' = [principals EXCEPT ![p] = row] /\ links' = links
  BY DEF Register
<1>6. row.address # NoAddress
  BY <1>1, SignInAssumption
<1> HIDE DEF row
<1>7. principals' \in [Ids -> [address : Addresses, active : BOOLEAN] \union {Unknown}]
  BY <1>1, <1>2, <1>4, <1>5
<1>8. \A q \in Ids : Known(q) => StillKnown(q)
  BY <1>1, <1>2, <1>5, <1>6 DEF Known, StillKnown
<1>9. StillKnown(p)
  BY <1>1, <1>2, <1>5, <1>6 DEF StillKnown
<1>10. Len(links) \in Nat
  BY DEF IndInv, TypeOK
<1>11. QED
  BY <1>5, <1>7, <1>8, <1>9, <1>10 DEF TablesGrow

\* A new link goes to the end.
LEMMA MintGrows ==
    ASSUME IndInv, NEW r \in Requests, Mint(r)
    PROVE  /\ links' \in Seq(Link)
           /\ TablesGrow
           /\ Len(links') = Len(links) + 1
           /\ \A i \in DOMAIN links' : StillKnown(links'[i].id)
<1> DEFINE row == [address |-> requests[r].address, id |-> requests[r].id,
                   created |-> now, expires |-> now + LinkTtl,
                   state |-> "fresh", mailed |-> FALSE]
<1>1. requests[r].id \in Ids /\ requests[r].address \in Addresses /\ Known(requests[r].id)
  BY DEF IndInv, HandlersAreReady, Mint, At
<1>2. now \in Nat /\ now + LinkTtl \in Nat
  BY SignInAssumption DEF IndInv, TypeOK
<1>3. row \in Link /\ row.id = requests[r].id
  BY <1>1, <1>2 DEF Link
<1>4. links' = Append(links, row) /\ principals' = principals
  BY DEF Mint
<1>5. links \in Seq(Link) /\ \A i \in DOMAIN links : Known(links[i].id)
  BY DEF IndInv, TypeOK
<1> HIDE DEF row
<1>6. /\ links' \in Seq(Link)
      /\ Len(links') = Len(links) + 1
      /\ Len(links) \in Nat
      /\ DOMAIN links = 1..Len(links)
      /\ DOMAIN links' = 1..(Len(links) + 1)
      /\ \A i \in 1..Len(links) : links'[i] = links[i]
      /\ links'[Len(links) + 1] = row
  BY <1>3, <1>4, <1>5
<1>7. DOMAIN links \subseteq DOMAIN links' /\ Len(links) <= Len(links')
  BY <1>6
<1>8. \A i \in DOMAIN links : links'[i] = links[i]
  BY <1>6
<1>9. \A p : Known(p) <=> StillKnown(p)
  BY <1>4 DEF Known, StillKnown
<1>10. TablesGrow
  BY <1>7, <1>8, <1>9 DEF TablesGrow
<1>11. ASSUME NEW i \in DOMAIN links' PROVE StillKnown(links'[i].id)
  <2>1. i \in DOMAIN links \/ i = Len(links) + 1
    BY <1>6
  <2>2. Known(links'[i].id)
    BY <2>1, <1>1, <1>3, <1>5, <1>6, <1>8
  <2>3. QED
    BY <2>2, <1>9
<1>12. QED
  BY <1>6, <1>10, <1>11

\* Mailing, following and sweeping change the rows where they are.
LEMMA MailGrows ==
    ASSUME IndInv, NEW r \in Requests, Mail(r)
    PROVE  links' \in Seq(Link) /\ DOMAIN links' = DOMAIN links /\ Len(links') = Len(links)
           /\ \A i \in DOMAIN links : links'[i].id = links[i].id
                                    /\ links'[i].state = links[i].state
<1>1. links \in Seq(Link) /\ requests[r].link \in DOMAIN links
  BY DEF IndInv, TypeOK, HandlersAreReady, Mail, At
<1>2. links' = links \/ links' = [links EXCEPT ![requests[r].link].mailed = TRUE]
  BY DEF Mail
<1>3. CASE links' = links
  BY <1>1, <1>3
<1>4. CASE links' = [links EXCEPT ![requests[r].link].mailed = TRUE]
  <2> DEFINE i == requests[r].link
             row == [links[i] EXCEPT !.mailed = TRUE]
  <2>1. i \in DOMAIN links /\ links[i] \in Link
    BY <1>1
  <2>2. row \in Link /\ row.id = links[i].id /\ row.state = links[i].state
    BY <2>1 DEF Link
  <2>3. links' = [links EXCEPT ![i] = row]
    BY <1>4
  <2> HIDE DEF i, row
  <2>4. QED
    BY <1>1, <2>1, <2>2, <2>3
<1>5. QED
  BY <1>2, <1>3, <1>4

LEMMA ConsumeGrows ==
    ASSUME IndInv, NEW r \in Requests, NEW i \in DOMAIN links, Consume(r, i)
    PROVE  /\ links' \in Seq(Link) /\ DOMAIN links' = DOMAIN links /\ Len(links') = Len(links)
           /\ links[i].state = "fresh" /\ links'[i].state = "consumed"
           /\ \A j \in DOMAIN links :
                 /\ links'[j].id = links[j].id
                 /\ j # i => links'[j].state = links[j].state
<1>1. links \in Seq(Link)
  BY DEF IndInv, TypeOK
<1> DEFINE row == [links[i] EXCEPT !.state = "consumed"]
<1>2. links' = [links EXCEPT ![i] = row] /\ links[i].state = "fresh"
  BY DEF Consume
<1>3. links[i] \in Link
  BY <1>1
<1>4. row \in Link /\ row.id = links[i].id /\ row.state = "consumed"
  BY <1>3 DEF Link
<1> HIDE DEF row
<1>5. QED
  BY <1>1, <1>2, <1>4

LEMMA SweepGrows ==
    ASSUME IndInv, Sweep
    PROVE  /\ links' \in Seq(Link) /\ DOMAIN links' = DOMAIN links /\ Len(links') = Len(links)
           /\ \A i \in DOMAIN links :
                 /\ links'[i].id = links[i].id
                 /\ links'[i].state \in {links[i].state, "gone"}
<1>1. links \in Seq(Link)
  BY DEF IndInv, TypeOK
<1>2. links' = [i \in DOMAIN links |->
                  IF links[i].expires <= now \/ links[i].state = "consumed"
                  THEN GoneLink(links[i]) ELSE links[i]]
  BY DEF Sweep
<1>3. \A i \in DOMAIN links : links[i] \in Link
  BY <1>1
<1>4. \A link \in Link : /\ GoneLink(link) \in Link
                          /\ GoneLink(link).id = link.id
                          /\ GoneLink(link).state = "gone"
  BY DEF GoneLink, Link
<1>5. \A i \in DOMAIN links : links'[i] \in {links[i], GoneLink(links[i])}
  BY <1>2
<1>6. DOMAIN links' = DOMAIN links
  BY <1>2
<1>7. \A i \in DOMAIN links : links'[i] \in Link
  BY <1>3, <1>4, <1>5
<1>8. links' \in Seq(Link) /\ Len(links') = Len(links)
  <2> DEFINE n == Len(links)
             image(i) == IF links[i].expires <= now \/ links[i].state = "consumed"
                         THEN GoneLink(links[i]) ELSE links[i]
  <2>1. n \in Nat /\ DOMAIN links = 1..n
    BY <1>1
  <2>2. links' = [i \in 1..n |-> image(i)]
    BY <1>2, <2>1
  <2>3. \A i \in 1..n : image(i) \in Link
    BY <1>3, <1>4, <2>1
  <2> HIDE DEF n, image
  <2>4. [i \in 1..n |-> image(i)] \in Seq(Link) /\ Len([i \in 1..n |-> image(i)]) = n
    BY <2>1, <2>3
  <2>5. QED
    BY <2>2, <2>4 DEF n
<1>9. QED
  BY <1>3, <1>4, <1>5, <1>6, <1>8

\* The people and the links after any step.
TablesTyped ==
    /\ now' \in 0..MaxTime
    /\ principals' \in [Ids -> [address : Addresses, active : BOOLEAN] \union {Unknown}]
    /\ links' \in Seq(Link)
    /\ \A i \in DOMAIN links' : StillKnown(links'[i].id)
    /\ TablesGrow

LEMMA StepTables ==
    ASSUME IndInv, [Next]_vars
    PROVE  TablesTyped
<1> USE SignInAssumption DEF StillKnown
<1>1. /\ now \in 0..MaxTime
      /\ principals \in [Ids -> [address : Addresses, active : BOOLEAN] \union {Unknown}]
      /\ links \in Seq(Link)
      /\ \A i \in DOMAIN links : Known(links[i].id) /\ links[i].id \in Ids
      /\ Len(links) \in Nat
  <2>1. links \in Seq(Link)
    BY DEF IndInv, TypeOK
  <2>2. \A i \in DOMAIN links : links[i] \in Link
    BY <2>1
  <2>3. QED
    BY <2>1, <2>2 DEF IndInv, TypeOK, Link
\* Steps that leave both tables alone.
<1>2. ASSUME principals' = principals, links' = links, now' \in 0..MaxTime
      PROVE  TablesTyped
  BY <1>1, <1>2 DEF TablesTyped, TablesGrow, Known
\* Steps that change links where they are.
<1>3. ASSUME principals' = principals, now' = now, links' \in Seq(Link),
             DOMAIN links' = DOMAIN links, Len(links') = Len(links),
             \A i \in DOMAIN links :
                /\ links'[i].id = links[i].id
                /\ links[i].state # "fresh" => links'[i].state # "fresh"
      PROVE  TablesTyped
  BY <1>1, <1>3 DEF TablesTyped, TablesGrow, Known
\* Steps that switch a known person on or off.
<1>4. ASSUME NEW p \in Ids, NEW b \in BOOLEAN, Known(p), links' = links, now' = now,
             principals' = [principals EXCEPT ![p].active = b]
      PROVE  TablesTyped
  <2>1. principals[p] \in [address : Addresses, active : BOOLEAN]
    BY <1>1, <1>4 DEF Known, Unknown
  <2>2. /\ principals' \in [Ids -> [address : Addresses, active : BOOLEAN] \union {Unknown}]
        /\ \A q \in Ids : principals'[q].address = principals[q].address
    BY <1>1, <1>4, <2>1
  <2>3. QED
    BY <1>1, <1>4, <2>2 DEF TablesTyped, TablesGrow, Known
<1>5. ASSUME NEW r \in Requests, RequestStep(r) PROVE TablesTyped
  <2>1. ASSUME NEW a \in Addresses, RequestLink(r, a) \/ Invite(r, a) PROVE TablesTyped
    BY <1>1, <1>2, <2>1 DEF RequestLink, Invite
  <2>2. CASE Throttle(r) \/ Lookup(r) \/ Pick(r) \/ ReadOwner(r)
    BY <1>1, <1>2, <2>2 DEF Throttle, Lookup, Pick, ReadOwner
  <2>3. CASE Register(r)
    <3>1. links' = links /\ now' = now
      BY <2>3 DEF Register
    <3>2. principals' \in [Ids -> [address : Addresses, active : BOOLEAN] \union {Unknown}]
          /\ TablesGrow
      BY <2>3, RegisterGrows
    <3>3. QED
      BY <1>1, <3>1, <3>2 DEF TablesTyped, TablesGrow
  <2>4. CASE Mint(r)
    <3>1. principals' = principals /\ now' = now
      BY <2>4 DEF Mint
    <3>2. QED
      BY <1>1, <2>4, <3>1, MintGrows DEF TablesTyped
  <2>5. CASE Mail(r)
    <3>1. principals' = principals /\ now' = now
      BY <2>5 DEF Mail
    <3>2. QED
      BY <1>3, <2>5, <3>1, MailGrows
  <2>6. ASSUME NEW i \in DOMAIN links, Consume(r, i) PROVE TablesTyped
    <3>1. principals' = principals /\ now' = now
      BY <2>6 DEF Consume
    <3>2. \A j \in DOMAIN links : links[j].state # "fresh" => links'[j].state # "fresh"
      BY <2>6, ConsumeGrows
    <3>3. QED
      BY <1>3, <2>6, <3>1, <3>2, ConsumeGrows
  <2>7. CASE StartSession(r) \/ Revoke(r)
    BY <1>1, <1>2, <2>7 DEF StartSession, Revoke
  <2>8. ASSUME NEW i \in DOMAIN sessions, LogOutEverywhere(r, i) PROVE TablesTyped
    BY <1>1, <1>2, <2>8 DEF LogOutEverywhere
  <2>9. ASSUME NEW p \in Ids, Deactivate(r, p) PROVE TablesTyped
    BY <1>4, <2>9 DEF Deactivate
  <2>10. QED
    BY <1>5, <2>1, <2>2, <2>3, <2>4, <2>5, <2>6, <2>7, <2>8, <2>9 DEF RequestStep
<1>6. ASSUME NEW i \in DOMAIN sessions, LogOut(i) PROVE TablesTyped
  BY <1>1, <1>2, <1>6 DEF LogOut
<1>7. ASSUME NEW p \in Ids, Restore(p) PROVE TablesTyped
  BY <1>4, <1>7 DEF Restore
<1>8. CASE Sweep
  <2>1. principals' = principals /\ now' = now
    BY <1>8 DEF Sweep
  <2>2. \A i \in DOMAIN links : links[i].state # "fresh" => links'[i].state # "fresh"
    BY <1>8, SweepGrows
  <2>3. QED
    BY <1>3, <1>8, <2>1, <2>2, SweepGrows
<1>9. CASE Tick
  BY <1>1, <1>2, <1>9 DEF Tick
<1>10. CASE UNCHANGED vars
  BY <1>1, <1>2, <1>10 DEF vars
<1>11. QED
  BY <1>5, <1>6, <1>7, <1>8, <1>9, <1>10 DEF Next

-----------------------------------------------------------------------------
(* The handlers *)

\* What a handler may be once the step is done.
FitAfter(h) ==
    /\ h \in [pc : RequestPcs, address : Addresses \union {NoAddress}, id : Ids \union {NoId},
              link : 0..Len(links'), invite : BOOLEAN] \union {Idle}
    /\ h.pc \in {"throttle", "lookup", "pick", "register", "mint"} => h.address \in Addresses
    /\ h.pc \in {"register", "mint", "session", "revoke"} => h.id \in Ids
    /\ h.pc = "mint" => StillKnown(h.id)
    /\ h.pc \in {"mail", "owner", "session"} => h.link \in DOMAIN links'

HandlersFit ==
    /\ requests' = [r \in Requests |-> requests'[r]]
    /\ \A r \in Requests : FitAfter(requests'[r])

\* A handler that the step leaves alone is as ready as it was.
LEMMA Unmoved ==
    ASSUME IndInv, TablesTyped, NEW r \in Requests
    PROVE  FitAfter(requests[r])
<1>1. requests[r] \in Request \union {Idle}
  BY DEF IndInv, TypeOK
<1>2. /\ requests[r].pc \in {"throttle", "lookup", "pick", "register", "mint"} =>
            requests[r].address \in Addresses
      /\ requests[r].pc \in {"register", "mint", "session", "revoke"} => requests[r].id \in Ids
      /\ requests[r].pc = "mint" => Known(requests[r].id)
      /\ requests[r].pc \in {"mail", "owner", "session"} => requests[r].link \in DOMAIN links
  BY DEF IndInv, HandlersAreReady, At
<1>3. Len(links) \in Nat /\ Len(links') \in Nat /\ Len(links) <= Len(links')
  BY DEF IndInv, TypeOK, TablesTyped, TablesGrow
<1>4. 0..Len(links) \subseteq 0..Len(links')
  BY <1>3
<1>5. requests[r] \in [pc : RequestPcs, address : Addresses \union {NoAddress},
                       id : Ids \union {NoId}, link : 0..Len(links'), invite : BOOLEAN]
                      \union {Idle}
  BY <1>1, <1>4 DEF Request
<1>6. requests[r].pc = "mint" => StillKnown(requests[r].id)
  BY <1>2 DEF TablesTyped, TablesGrow
<1>7. requests[r].pc \in {"mail", "owner", "session"} => requests[r].link \in DOMAIN links'
  BY <1>2 DEF TablesTyped, TablesGrow
<1>8. QED
  BY <1>2, <1>5, <1>6, <1>7 DEF FitAfter

LEMMA OneMoved ==
    ASSUME IndInv, TablesTyped, NEW r \in Requests, NEW h, FitAfter(h),
           requests' = [requests EXCEPT ![r] = h]
    PROVE  HandlersFit
<1>1. requests = [q \in Requests |-> requests[q]]
  BY DEF IndInv, TypeOK
<1>2. \A q \in Requests : requests'[q] = IF q = r THEN h ELSE requests[q]
  BY <1>1
<1>3. \A q \in Requests : FitAfter(requests'[q])
  BY <1>2, Unmoved
<1>4. QED
  BY <1>1, <1>3 DEF HandlersFit

LEMMA NoneMoved ==
    ASSUME IndInv, TablesTyped, requests' = requests
    PROVE  HandlersFit
<1>1. requests = [q \in Requests |-> requests[q]]
  BY DEF IndInv, TypeOK
<1>2. QED
  BY <1>1, Unmoved DEF HandlersFit

LEMMA IdleFits == FitAfter(Idle)
BY DEF FitAfter, Idle

\* A handler that is not idle is a whole record.
LEMMA Handler ==
    ASSUME IndInv, NEW r \in Requests, requests[r].pc # "idle"
    PROVE  requests[r] \in Request
BY DEF IndInv, TypeOK, Idle

\* The end of a handler, and its way to a step that needs nothing new.
LEMMA HandlerEnds ==
    ASSUME IndInv, TablesTyped, NEW r \in Requests, End(r)
    PROVE  HandlersFit
BY IdleFits, OneMoved DEF End

\* A handler goes on with a new program counter, id and link.
LEMMA GoesOn ==
    ASSUME IndInv, TablesTyped, NEW r \in Requests, requests[r].pc # "idle",
           NEW pc \in RequestPcs, NEW p \in Ids \union {NoId}, NEW i \in 0..Len(links'),
           requests' = [requests EXCEPT ![r] =
               [requests[r] EXCEPT !.pc = pc, !.id = p, !.link = i]],
           pc \in {"throttle", "lookup", "pick", "register", "mint"} =>
               requests[r].address \in Addresses,
           pc \in {"register", "mint", "session", "revoke"} => p \in Ids,
           pc = "mint" => StillKnown(p),
           pc \in {"mail", "owner", "session"} => i \in DOMAIN links'
    PROVE  HandlersFit
<1> DEFINE h == [requests[r] EXCEPT !.pc = pc, !.id = p, !.link = i]
<1>1. requests[r] \in Request
  BY Handler
<1>2. /\ h.pc = pc /\ h.id = p /\ h.link = i /\ h.address = requests[r].address
      /\ h \in [pc : RequestPcs, address : Addresses \union {NoAddress}, id : Ids \union {NoId},
                link : 0..Len(links'), invite : BOOLEAN]
  BY <1>1 DEF Request
<1> HIDE DEF h
<1>3. FitAfter(h)
  BY <1>2 DEF FitAfter
<1>4. QED
  BY <1>3, OneMoved DEF h

LEMMA IdleFields ==
    Idle \in [pc : {"idle"}, address : {NoAddress}, id : {NoId}, link : {0}, invite : {FALSE}]
BY DEF Idle

\* A handler starts, in the record `Idle` with some fields set.
LEMMA Begins ==
    ASSUME IndInv, TablesTyped, NEW r \in Requests,
           NEW pc \in RequestPcs, NEW a \in Addresses \union {NoAddress},
           NEW p \in Ids \union {NoId}, NEW i \in 0..Len(links'),
           NEW h \in [pc : {pc}, address : {a}, id : {p}, link : {i}, invite : BOOLEAN],
           requests' = [requests EXCEPT ![r] = h],
           pc \in {"throttle", "lookup", "pick", "register", "mint"} => a \in Addresses,
           pc \in {"register", "mint", "session", "revoke"} => p \in Ids,
           pc = "mint" => StillKnown(p),
           pc \in {"mail", "owner", "session"} => i \in DOMAIN links'
    PROVE  HandlersFit
<1>1. /\ h.pc = pc /\ h.id = p /\ h.link = i /\ h.address = a
      /\ h \in [pc : RequestPcs, address : Addresses \union {NoAddress}, id : Ids \union {NoId},
                link : 0..Len(links'), invite : BOOLEAN]
  OBVIOUS
<1>2. FitAfter(h)
  BY <1>1 DEF FitAfter
<1>3. QED
  BY <1>2, OneMoved

\* Every step leaves every handler fit.
LEMMA StepHandlers ==
    ASSUME IndInv, [Next]_vars
    PROVE  HandlersFit
<1>0. TablesTyped
  BY StepTables
<1>1. requests = [q \in Requests |-> requests[q]]
  BY DEF IndInv, TypeOK
<1>2. Len(links') \in Nat /\ 0 \in 0..Len(links') /\ DOMAIN links' = 1..Len(links')
  BY <1>0 DEF TablesTyped
<1>3. ASSUME NEW r \in Requests, RequestStep(r) PROVE HandlersFit
  <2>1. ASSUME NEW a \in Addresses, RequestLink(r, a) PROVE HandlersFit
    <3> DEFINE h == [Idle EXCEPT !.pc = "throttle", !.address = a]
    <3>1. h \in [pc : {"throttle"}, address : {a}, id : {NoId}, link : {0}, invite : BOOLEAN]
      BY IdleFields
    <3>2. requests' = [requests EXCEPT ![r] = h]
      BY <2>1 DEF RequestLink
    <3> HIDE DEF h
    <3>3. QED
      BY <1>0, <1>2, <3>1, <3>2, Begins DEF RequestPcs
  <2>2. ASSUME NEW a \in Addresses, Invite(r, a) PROVE HandlersFit
    <3> DEFINE h == [Idle EXCEPT !.pc = "lookup", !.address = a, !.invite = TRUE]
    <3>1. h \in [pc : {"lookup"}, address : {a}, id : {NoId}, link : {0}, invite : BOOLEAN]
      BY IdleFields
    <3>2. requests' = [requests EXCEPT ![r] = h]
      BY <2>2 DEF Invite
    <3> HIDE DEF h
    <3>3. QED
      BY <1>0, <1>2, <3>1, <3>2, Begins DEF RequestPcs
  \* Where a handler that goes on stands.
  <2> DEFINE here == requests[r]
  <2>3. ASSUME here.pc # "idle"
        PROVE  /\ here \in Request
               /\ here.id \in Ids \union {NoId} /\ here.link \in 0..Len(links')
    <3>1. here \in Request
      BY <2>3, Handler
    <3>2. Len(links) \in Nat /\ Len(links) <= Len(links')
      BY <1>0 DEF TablesTyped, TablesGrow, IndInv, TypeOK
    <3>3. QED
      BY <1>2, <3>1, <3>2 DEF Request
  <2>4. here.pc \in {"throttle", "lookup", "pick", "register", "mint"} => here.address \in Addresses
    BY DEF IndInv, HandlersAreReady
  <2>5. CASE Throttle(r)
    <3>1. here.pc = "throttle"
      BY <2>5 DEF Throttle, At
    <3>2. CASE End(r)
      BY <1>0, <3>2, HandlerEnds
    <3>3. CASE Goto(r, "lookup")
      <4>1. requests' = [requests EXCEPT ![r] =
               [here EXCEPT !.pc = "lookup", !.id = here.id, !.link = here.link]]
        BY <1>1, <2>3, <3>1, <3>3 DEF Goto, Request
      <4>2. QED
        BY <1>0, <2>3, <2>4, <3>1, <4>1, GoesOn DEF RequestPcs
    <3>4. QED
      BY <2>5, <3>2, <3>3 DEF Throttle
  <2>6. CASE Lookup(r)
    <3>1. here.pc = "lookup"
      BY <2>6 DEF Lookup, At
    <3>2. CASE End(r)
      BY <1>0, <3>2, HandlerEnds
    <3>3. CASE Goto(r, "pick")
      <4>1. requests' = [requests EXCEPT ![r] =
               [here EXCEPT !.pc = "pick", !.id = here.id, !.link = here.link]]
        BY <1>1, <2>3, <3>1, <3>3 DEF Goto, Request
      <4>2. QED
        BY <1>0, <2>3, <2>4, <3>1, <4>1, GoesOn DEF RequestPcs
    <3>4. ASSUME NEW p \in ByAddress(here.address),
                 requests' = [requests EXCEPT ![r].pc = "mint", ![r].id = p]
          PROVE  HandlersFit
      <4>1. requests' = [requests EXCEPT ![r] =
               [here EXCEPT !.pc = "mint", !.id = p, !.link = here.link]]
        BY <1>1, <2>3, <3>1, <3>4 DEF Request
      <4>2. p \in Ids /\ Known(p)
        BY <2>4, <3>1, <3>4, SignInAssumption DEF ByAddress, Known
      <4>3. StillKnown(p)
        BY <1>0, <4>2 DEF TablesTyped, TablesGrow
      <4>4. QED
        BY <1>0, <2>3, <2>4, <3>1, <4>1, <4>2, <4>3, GoesOn DEF RequestPcs
    <3>5. QED
      BY <2>6, <3>2, <3>3, <3>4 DEF Lookup
  <2>7. CASE Pick(r)
    <3>1. here.pc = "pick"
      BY <2>7 DEF Pick, At
    <3>2. PICK p \in Choices(r) :
             requests' = [requests EXCEPT ![r].pc = "register", ![r].id = p]
      BY <2>7 DEF Pick
    <3>3. p \in Ids
      <4>1. Candidates[here.address] \in Seq(Ids)
        BY <2>4, <3>1, SignInAssumption
      <4>2. CASE p \in FirstFree(here.address)
        <5>1. PICK i \in DOMAIN Candidates[here.address] : p = Candidates[here.address][i]
          BY <4>2 DEF FirstFree
        <5>2. QED
          BY <4>1, <5>1
      <4>3. QED
        BY <3>2, <4>2 DEF Choices
    <3>4. requests' = [requests EXCEPT ![r] =
             [here EXCEPT !.pc = "register", !.id = p, !.link = here.link]]
      BY <1>1, <2>3, <3>1, <3>2 DEF Request
    <3>5. QED
      BY <1>0, <2>3, <2>4, <3>1, <3>3, <3>4, GoesOn DEF RequestPcs
  <2>8. CASE Register(r)
    <3>1. here.pc = "register"
      BY <2>8 DEF Register, At
    <3>2. here.id \in Ids
      BY <3>1 DEF IndInv, HandlersAreReady
    <3>3. CASE End(r)
      BY <1>0, <3>3, HandlerEnds
    <3>4. CASE Goto(r, "mint")
      <4>1. requests' = [requests EXCEPT ![r] =
               [here EXCEPT !.pc = "mint", !.id = here.id, !.link = here.link]]
        BY <1>1, <2>3, <3>1, <3>4 DEF Goto, Request
      <4>2. StillKnown(here.id)
        BY <2>8, RegisterGrows
      <4>3. QED
        BY <1>0, <2>3, <2>4, <3>1, <3>2, <4>1, <4>2, GoesOn DEF RequestPcs
    <3>5. QED
      BY <2>8, <3>3, <3>4 DEF Register
  <2>9. CASE Mint(r)
    <3>1. here.pc = "mint"
      BY <2>9 DEF Mint, At
    <3>2. Len(links') = Len(links) + 1
      BY <2>9, MintGrows
    <3>3. requests' = [requests EXCEPT ![r] =
             [here EXCEPT !.pc = "mail", !.id = here.id, !.link = Len(links')]]
      BY <1>1, <2>3, <2>9, <3>1, <3>2 DEF Mint, Request
    <3>4. Len(links') \in DOMAIN links' /\ Len(links') \in 0..Len(links')
      BY <1>2, <3>2 DEF IndInv, TypeOK
    <3>5. QED
      BY <1>0, <1>2, <2>3, <3>1, <3>3, <3>4, GoesOn DEF RequestPcs
  <2>10. ASSUME NEW i \in DOMAIN links, Consume(r, i) PROVE HandlersFit
    <3> DEFINE h == [Idle EXCEPT !.pc = "owner", !.link = i]
    <3>1. h \in [pc : {"owner"}, address : {NoAddress}, id : {NoId}, link : {i},
                  invite : BOOLEAN]
      BY IdleFields
    <3>2. requests' = [requests EXCEPT ![r] = h]
      BY <2>10 DEF Consume
    <3> HIDE DEF h
    <3>3. i \in DOMAIN links' /\ i \in 0..Len(links')
      BY <1>0, <1>2 DEF TablesTyped, TablesGrow
    <3>4. QED
      BY <1>0, <3>1, <3>2, <3>3, Begins DEF RequestPcs
  <2>11. CASE ReadOwner(r)
    <3> DEFINE i == here.link
    <3>1. here.pc = "owner"
      BY <2>11 DEF ReadOwner, At
    <3>2. i \in DOMAIN links
      BY <3>1 DEF IndInv, HandlersAreReady
    <3>3. CASE End(r)
      BY <1>0, <3>3, HandlerEnds
    <3>4. ASSUME requests' = [requests EXCEPT ![r].pc = "session", ![r].id = links[i].id]
          PROVE  HandlersFit
      <4>1. links[i] \in Link
        BY <3>2 DEF IndInv, TypeOK
      <4>2. links[i].id \in Ids /\ i \in DOMAIN links'
        BY <1>0, <3>2, <4>1 DEF Link, TablesTyped, TablesGrow
      <4>3. requests' = [requests EXCEPT ![r] =
               [here EXCEPT !.pc = "session", !.id = links[i].id, !.link = i]]
        BY <1>1, <2>3, <3>1, <3>4 DEF Request
      <4>4. QED
        BY <1>0, <2>3, <3>1, <4>2, <4>3, GoesOn DEF RequestPcs
    <3>5. QED
      BY <2>11, <3>3, <3>4 DEF ReadOwner
  <2>12. CASE Mail(r) \/ StartSession(r) \/ Revoke(r)
    BY <1>0, <2>12, HandlerEnds DEF Mail, StartSession, Revoke
  <2>13. ASSUME NEW i \in DOMAIN sessions, LogOutEverywhere(r, i) PROVE HandlersFit
    <3>1. sessions[i].id \in Ids
      <4>1. sessions[i] \in Session
        BY DEF IndInv, TypeOK
      <4>2. QED
        BY <4>1 DEF Session
    <3> DEFINE h == [Idle EXCEPT !.pc = "revoke", !.id = sessions[i].id]
    <3>2. h \in [pc : {"revoke"}, address : {NoAddress}, id : {sessions[i].id}, link : {0},
                  invite : BOOLEAN]
      BY IdleFields
    <3>3. requests' = [requests EXCEPT ![r] = h]
      BY <2>13 DEF LogOutEverywhere
    <3> HIDE DEF h
    <3>4. QED
      BY <1>0, <1>2, <3>1, <3>2, <3>3, Begins DEF RequestPcs
  <2>14. ASSUME NEW p \in Ids, Deactivate(r, p) PROVE HandlersFit
    <3> DEFINE h == [Idle EXCEPT !.pc = "revoke", !.id = p]
    <3>1. h \in [pc : {"revoke"}, address : {NoAddress}, id : {p}, link : {0}, invite : BOOLEAN]
      BY IdleFields
    <3>2. requests' = [requests EXCEPT ![r] = h]
      BY <2>14 DEF Deactivate
    <3> HIDE DEF h
    <3>3. QED
      BY <1>0, <1>2, <3>1, <3>2, Begins DEF RequestPcs
  <2>15. QED
    BY <1>3, <2>1, <2>2, <2>5, <2>6, <2>7, <2>8, <2>9, <2>10, <2>11, <2>12, <2>13,
       <2>14
       DEF RequestStep
<1>4. CASE UNCHANGED requests
  BY <1>0, <1>4, NoneMoved
<1>5. QED
  BY <1>3, <1>4 DEF Next, vars, LogOut, Restore, Sweep, Tick

-----------------------------------------------------------------------------
(* The sessions *)

SessionAfter ==
    [id : Ids, expires : Nat, live : BOOLEAN, link : DOMAIN links', ended : BOOLEAN]

\* No session changes its person or the link it comes from.
SameSessions ==
    /\ sessions' \in Seq(SessionAfter)
    /\ DOMAIN sessions' = DOMAIN sessions
    /\ \A i \in DOMAIN sessions : sessions'[i].link = sessions[i].link

LEMMA OneForOne ==
    ASSUME NEW S, NEW s \in Seq(S), NEW T, NEW t,
           t = [i \in DOMAIN s |-> t[i]], \A i \in DOMAIN s : t[i] \in T
    PROVE  t \in Seq(T) /\ DOMAIN t = DOMAIN s
<1> DEFINE n == Len(s)
<1>1. n \in Nat /\ DOMAIN s = 1..n
  OBVIOUS
<1> HIDE DEF n
<1>2. t \in [1..n -> T]
  BY <1>1
<1>3. QED
  BY <1>1, <1>2

LEMMA StillSession ==
    ASSUME IndInv, TablesTyped, NEW i \in DOMAIN sessions
    PROVE  sessions[i] \in SessionAfter
<1>1. sessions[i] \in Session
  BY DEF IndInv, TypeOK
<1>2. DOMAIN links \subseteq DOMAIN links'
  BY DEF TablesTyped, TablesGrow
<1>3. QED
  BY <1>1, <1>2 DEF Session, SessionAfter

\* The three things a step does to a session it keeps.
LEMMA SessionEdits ==
    ASSUME NEW session \in SessionAfter
    PROVE  /\ GoneSession(session) \in SessionAfter
           /\ GoneSession(session).link = session.link
           /\ [session EXCEPT !.ended = TRUE] \in SessionAfter
           /\ [session EXCEPT !.ended = TRUE].link = session.link
BY DEF SessionAfter, GoneSession

LEMMA Edited ==
    ASSUME IndInv, TablesTyped,
           sessions' = [i \in DOMAIN sessions |-> sessions'[i]],
           \A i \in DOMAIN sessions :
               sessions'[i] \in {sessions[i], GoneSession(sessions[i]),
                                 [sessions[i] EXCEPT !.ended = TRUE]}
    PROVE  SameSessions
<1>1. \A i \in DOMAIN sessions :
         sessions'[i] \in SessionAfter /\ sessions'[i].link = sessions[i].link
  BY StillSession, SessionEdits
<1>2. sessions \in Seq(Session)
  BY DEF IndInv, TypeOK
<1>3. sessions' \in Seq(SessionAfter) /\ DOMAIN sessions' = DOMAIN sessions
  BY <1>1, <1>2, OneForOne
<1>4. QED
  BY <1>1, <1>3 DEF SameSessions

LEMMA SessionsKept ==
    ASSUME IndInv, TablesTyped, sessions' = sessions
    PROVE  SameSessions
<1>1. sessions \in Seq(Session)
  BY DEF IndInv, TypeOK
<1>2. sessions = [i \in DOMAIN sessions |-> sessions[i]]
  BY <1>1
<1>3. QED
  BY <1>2, Edited

\* Every step but a sign-in keeps the sessions apart from what it ends.
LEMMA StepSessions ==
    ASSUME IndInv, [Next]_vars, \A r \in Requests : ~StartSession(r)
    PROVE  SameSessions
<1>0. TablesTyped
  BY StepTables
<1>1. ASSUME NEW i \in DOMAIN sessions, LogOut(i) PROVE SameSessions
  <2> DEFINE gone == GoneSession(sessions[i])
  <2>1. sessions' = [sessions EXCEPT ![i] = gone]
    BY <1>1 DEF LogOut
  <2> HIDE DEF gone
  <2>2. sessions \in Seq(Session)
    BY DEF IndInv, TypeOK
  <2>3. /\ sessions' = [j \in DOMAIN sessions |-> sessions'[j]]
        /\ \A j \in DOMAIN sessions : sessions'[j] = IF j = i THEN gone ELSE sessions[j]
    BY <2>1, <2>2
  <2>4. \A j \in DOMAIN sessions :
           sessions'[j] \in {sessions[j], GoneSession(sessions[j]),
                             [sessions[j] EXCEPT !.ended = TRUE]}
    BY <2>3 DEF gone
  <2>5. QED
    BY <1>0, <2>3, <2>4, Edited
<1>2. ASSUME NEW r \in Requests, Revoke(r) PROVE SameSessions
  <2>1. sessions' = Without(requests[r].id)
    BY <1>2 DEF Revoke
  <2>2. QED
    BY <1>0, <2>1, Edited DEF Without
<1>3. ASSUME NEW r \in Requests, NEW p \in Ids, Deactivate(r, p) PROVE SameSessions
  <2>1. sessions' = Ended(p)
    BY <1>3 DEF Deactivate
  <2>2. QED
    BY <1>0, <2>1, Edited DEF Ended
<1>4. CASE Sweep
  BY <1>0, <1>4, Edited DEF Sweep
<1>5. CASE UNCHANGED sessions
  BY <1>0, <1>5, SessionsKept
<1>6. ASSUME NEW r \in Requests, RequestStep(r)
      PROVE  \/ UNCHANGED sessions
             \/ Revoke(r)
             \/ \E p \in Ids : Deactivate(r, p)
  BY <1>6 DEF RequestStep, RequestLink, Invite, Throttle, Lookup, Pick, Register, Mint, Mail,
              Consume, ReadOwner, LogOutEverywhere
<1>7. QED
  BY <1>1, <1>2, <1>3, <1>4, <1>5, <1>6 DEF Next, vars, Restore, Tick

\* A sign-in adds one session, for the link its handler holds.
LEMMA SignsIn ==
    ASSUME IndInv, TablesTyped, NEW r \in Requests, StartSession(r)
    PROVE  /\ sessions' \in Seq(SessionAfter)
           /\ requests[r].link \in DOMAIN links
           /\ DOMAIN sessions' = 1..(Len(sessions) + 1)
           /\ DOMAIN sessions = 1..Len(sessions)
           /\ \A i \in DOMAIN sessions : sessions'[i].link = sessions[i].link
           /\ sessions'[Len(sessions) + 1].link = requests[r].link
           /\ Len(sessions) \in Nat
<1> DEFINE row == [id |-> requests[r].id, expires |-> now + SessionTtl,
                   live |-> TRUE, link |-> requests[r].link, ended |-> FALSE]
<1>1. requests[r].id \in Ids /\ requests[r].link \in DOMAIN links
  BY DEF IndInv, HandlersAreReady, StartSession, At
<1>2. now + SessionTtl \in Nat
  BY SignInAssumption DEF IndInv, TypeOK
<1>3. requests[r].link \in DOMAIN links'
  BY <1>1 DEF TablesTyped, TablesGrow
<1>4. row \in SessionAfter /\ row.link = requests[r].link
  BY <1>1, <1>2, <1>3 DEF SessionAfter
<1>5. sessions' = Append(sessions, row)
  BY DEF StartSession
<1> HIDE DEF row
<1>6. sessions \in Seq(Session)
  BY DEF IndInv, TypeOK
<1>7. sessions \in Seq(SessionAfter)
  <2>1. sessions = [i \in DOMAIN sessions |-> sessions[i]]
    BY <1>6
  <2>2. QED
    BY <1>6, <2>1, StillSession, OneForOne
<1>8. QED
  BY <1>1, <1>4, <1>5, <1>7

-----------------------------------------------------------------------------
(* Types *)

LEMMA StepTypes ==
    ASSUME IndInv, [Next]_vars
    PROVE  TypeOK' /\ HandlersAreReady'
<1>1. TablesTyped /\ HandlersFit
  BY StepTables, StepHandlers
<1>2. sessions' \in Seq(SessionAfter)
  <2>1. CASE \E r \in Requests : StartSession(r)
    BY <1>1, <2>1, SignsIn
  <2>2. CASE \A r \in Requests : ~StartSession(r)
    BY <2>2, StepSessions DEF SameSessions
  <2>3. QED
    BY <2>1, <2>2
<1>3. requests' \in [Requests -> Request \union {Idle}]'
  BY <1>1 DEF HandlersFit, FitAfter, Request, Idle
<1>4. \A i \in DOMAIN links' : StillKnown(links'[i].id)
  BY <1>1 DEF TablesTyped
<1>5. TypeOK'
  BY <1>1, <1>2, <1>3, <1>4
     DEF TypeOK, TablesTyped, SessionAfter, Session, Link, Known, StillKnown, Unknown
<1>6. HandlersAreReady'
  BY <1>1 DEF HandlersAreReady, HandlersFit, FitAfter, At, Known, StillKnown
<1>7. QED
  BY <1>5, <1>6

-----------------------------------------------------------------------------
(* A link signs in once *)

\* A handler is about to sign somebody in once the step is done.
StartingAfter(r) == requests'[r].pc \in {"owner", "session"}

\* No handler starts to sign somebody in.
NoNewStarter ==
    \A r \in Requests :
        StartingAfter(r) =>
            Starting(r) /\ requests'[r].link = requests[r].link

LEMMA QuietSteps ==
    ASSUME IndInv, [Next]_vars,
           \A r \in Requests, i \in DOMAIN links : ~Consume(r, i)
    PROVE  NoNewStarter
<1> USE DEF Starting, StartingAfter
<1>1. requests = [q \in Requests |-> requests[q]]
  BY DEF IndInv, TypeOK
<1>2. ASSUME NEW r \in Requests, NEW h, h.pc \notin {"owner", "session"},
             requests' = [requests EXCEPT ![r] = h]
      PROVE  NoNewStarter
  BY <1>1, <1>2 DEF NoNewStarter
<1>3. ASSUME NEW r \in Requests, End(r) PROVE NoNewStarter
  <2>1. Idle.pc \notin {"owner", "session"}
    BY DEF Idle
  <2>2. QED
    BY <1>2, <1>3, <2>1 DEF End
<1>4. ASSUME NEW r \in Requests, NEW pc, pc \notin {"owner", "session"}, Goto(r, pc)
      PROVE  NoNewStarter
  <2>1. \A q \in Requests : StartingAfter(q) => q # r /\ requests'[q] = requests[q]
    <3>1. StartingAfter(r) => FALSE
      <4>1. requests[r] \in Request \union {Idle}
        BY DEF IndInv, TypeOK
      <4>2. [requests[r] EXCEPT !.pc = pc].pc = pc
        BY <4>1 DEF Request, Idle
      <4>3. QED
        BY <1>1, <1>4, <4>2 DEF Goto
    <3>2. \A q \in Requests : q # r => requests'[q] = requests[q]
      BY <1>1, <1>4 DEF Goto
    <3>3. QED
      BY <3>1, <3>2
  <2>2. QED
    BY <2>1 DEF NoNewStarter
<1>5. CASE UNCHANGED requests
  BY <1>5 DEF NoNewStarter
<1>6. ASSUME NEW r \in Requests, RequestStep(r) PROVE NoNewStarter
  <2> DEFINE here == requests[r]
  <2>1. here \in Request \/ here = Idle
    BY DEF IndInv, TypeOK
  <2>2. CASE \E a \in Addresses : RequestLink(r, a) \/ Invite(r, a)
    <3>1. PICK a \in Addresses : RequestLink(r, a) \/ Invite(r, a)
      BY <2>2
    <3>2. /\ [Idle EXCEPT !.pc = "throttle", !.address = a].pc = "throttle"
          /\ [Idle EXCEPT !.pc = "lookup", !.address = a, !.invite = TRUE].pc = "lookup"
      BY IdleFields
    <3>3. QED
      BY <1>2, <3>1, <3>2 DEF RequestLink, Invite
  <2>3. CASE Throttle(r)
    BY <1>3, <1>4, <2>3 DEF Throttle
  <2>4. CASE Lookup(r)
    <3>1. CASE Goto(r, "pick") \/ End(r)
      BY <1>3, <1>4, <3>1
    <3>2. ASSUME NEW p, requests' = [requests EXCEPT ![r].pc = "mint", ![r].id = p]
          PROVE  NoNewStarter
      <4>1. [here EXCEPT !.pc = "mint", !.id = p].pc = "mint"
        BY <2>1, IdleFields DEF Request
      <4>2. requests' = [requests EXCEPT ![r] = [here EXCEPT !.pc = "mint", !.id = p]]
        BY <1>1, <3>2
      <4>3. QED
        BY <1>2, <4>1, <4>2
    <3>3. QED
      BY <2>4, <3>1, <3>2 DEF Lookup
  <2>5. CASE Pick(r)
    <3>1. PICK p \in Choices(r) :
             requests' = [requests EXCEPT ![r].pc = "register", ![r].id = p]
      BY <2>5 DEF Pick
    <3>2. [here EXCEPT !.pc = "register", !.id = p].pc = "register"
      BY <2>1, IdleFields DEF Request
    <3>3. requests' = [requests EXCEPT ![r] = [here EXCEPT !.pc = "register", !.id = p]]
      BY <1>1, <3>1
    <3>4. QED
      BY <1>2, <3>2, <3>3
  <2>6. CASE Register(r)
    BY <1>3, <1>4, <2>6 DEF Register
  <2>7. CASE Mint(r)
    <3> DEFINE i == Len(links) + 1
    <3>1. [here EXCEPT !.pc = "mail", !.link = i].pc = "mail"
      BY <2>1, IdleFields DEF Request
    <3>2. requests' = [requests EXCEPT ![r] = [here EXCEPT !.pc = "mail", !.link = i]]
      BY <1>1, <2>7 DEF Mint
    <3>3. QED
      BY <1>2, <3>1, <3>2
  <2>8. CASE Mail(r) \/ StartSession(r) \/ Revoke(r)
    BY <1>3, <2>8 DEF Mail, StartSession, Revoke
  <2>9. CASE \/ \E i \in DOMAIN sessions : LogOutEverywhere(r, i)
             \/ \E p \in Ids : Deactivate(r, p)
    <3>1. PICK p : requests' = [requests EXCEPT ![r] = [Idle EXCEPT !.pc = "revoke", !.id = p]]
      BY <2>9 DEF LogOutEverywhere, Deactivate
    <3>2. [Idle EXCEPT !.pc = "revoke", !.id = p].pc = "revoke"
      BY IdleFields
    <3>3. QED
      BY <1>2, <3>1, <3>2
  \* The handler that reads the owner was starting already.
  <2>10. CASE ReadOwner(r)
    <3>1. CASE End(r)
      BY <1>3, <3>1
    <3>2. ASSUME requests' = [requests EXCEPT ![r].pc = "session", ![r].id = links[here.link].id]
          PROVE  NoNewStarter
      <4> DEFINE p == links[here.link].id
                 h == [here EXCEPT !.pc = "session", !.id = p]
      <4>1. here.pc = "owner" /\ here \in Request
        BY <2>1, <2>10 DEF ReadOwner, At, Idle
      <4>2. h.link = here.link
        BY <4>1 DEF Request
      <4>3. requests' = [requests EXCEPT ![r] = h]
        BY <1>1, <3>2
      <4> HIDE DEF h
      <4>4. \A q \in Requests : requests'[q] = IF q = r THEN h ELSE requests[q]
        BY <1>1, <4>3
      <4>5. QED
        BY <4>1, <4>2, <4>4 DEF NoNewStarter
    <3>3. QED
      BY <2>10, <3>1, <3>2 DEF ReadOwner
  <2>11. QED
    BY <1>6, <2>2, <2>3, <2>4, <2>5, <2>6, <2>7, <2>8, <2>9, <2>10 DEF RequestStep
<1>7. QED
  BY <1>5, <1>6 DEF Next, vars, LogOut, Restore, Sweep, Tick

\* What is spent stays spent, so a step that starts nobody and signs nobody in
\* keeps every link to its one session.
LEMMA QuietKeepsLinks ==
    ASSUME IndInv, TablesTyped, SameSessions, NoNewStarter
    PROVE  FollowedIsSpent' /\ LinkSignsInOnce'
<1> USE DEF Starting, StartingAfter
<1>1. \A r \in Requests : Starting(r) => requests[r].link \in DOMAIN links
  BY DEF IndInv, HandlersAreReady
<1>2. \A i \in DOMAIN sessions : sessions[i].link \in DOMAIN links
  <2>1. \A i \in DOMAIN sessions : sessions[i] \in Session
    BY DEF IndInv, TypeOK
  <2>2. QED
    BY <2>1 DEF Session
<1>3. \A i \in DOMAIN links : links[i].state # "fresh" => links'[i].state # "fresh"
  BY DEF TablesTyped, TablesGrow
<1>4. DOMAIN sessions' = DOMAIN sessions
      /\ \A i \in DOMAIN sessions : sessions'[i].link = sessions[i].link
  BY DEF SameSessions
<1>5. FollowedIsSpent'
  <2>1. \A r \in Requests :
           StartingAfter(r) => links'[requests'[r].link].state # "fresh"
    BY <1>1, <1>3 DEF NoNewStarter, IndInv, FollowedIsSpent
  <2>2. \A i \in DOMAIN sessions' : links'[sessions'[i].link].state # "fresh"
    BY <1>2, <1>3, <1>4 DEF IndInv, FollowedIsSpent
  <2>3. QED
    BY <2>1, <2>2 DEF FollowedIsSpent
<1>6. LinkSignsInOnce'
  BY <1>4 DEF NoNewStarter, IndInv, LinkSignsInOnce
<1>7. QED
  BY <1>5, <1>6

\* The handler that wins the conditional UPDATE holds a link nobody followed.
LEMMA ConsumeKeepsLinks ==
    ASSUME IndInv, [Next]_vars, NEW r \in Requests, NEW i \in DOMAIN links, Consume(r, i)
    PROVE  FollowedIsSpent' /\ LinkSignsInOnce'
<1> USE DEF Starting, StartingAfter
<1>1. /\ links[i].state = "fresh" /\ links'[i].state = "consumed"
      /\ \A j \in DOMAIN links : j # i => links'[j].state = links[j].state
  BY ConsumeGrows
<1>2. sessions' = sessions
  BY DEF Consume
<1>3. requests'[r].link = i
      /\ \A q \in Requests : q # r => requests'[q] = requests[q]
  <2> DEFINE h == [Idle EXCEPT !.pc = "owner", !.link = i]
  <2>1. h \in [pc : {"owner"}, address : {NoAddress}, id : {NoId}, link : {i},
               invite : BOOLEAN]
    BY IdleFields
  <2>2. requests' = [requests EXCEPT ![r] = h]
    BY DEF Consume
  <2> HIDE DEF h
  <2>3. requests = [q \in Requests |-> requests[q]]
    BY DEF IndInv, TypeOK
  <2>4. QED
    BY <2>1, <2>2, <2>3
<1>4. \A q \in Requests : Starting(q) =>
         /\ requests[q].link \in DOMAIN links
         /\ links[requests[q].link].state # "fresh"
         /\ requests[q].link # i
  BY <1>1 DEF IndInv, HandlersAreReady, FollowedIsSpent
<1>5. \A j \in DOMAIN sessions : /\ sessions[j].link \in DOMAIN links
                                  /\ links[sessions[j].link].state # "fresh"
                                  /\ sessions[j].link # i
  <2>1. \A j \in DOMAIN sessions : sessions[j] \in Session
    BY DEF IndInv, TypeOK
  <2>2. QED
    BY <1>1, <2>1 DEF Session, IndInv, FollowedIsSpent
<1>6. FollowedIsSpent'
  <2>1. \A q \in Requests :
           StartingAfter(q) => links'[requests'[q].link].state # "fresh"
    BY <1>1, <1>3, <1>4
  <2>2. \A j \in DOMAIN sessions' : links'[sessions'[j].link].state # "fresh"
    BY <1>1, <1>2, <1>5
  <2>3. QED
    BY <2>1, <2>2 DEF FollowedIsSpent
<1>7. LinkSignsInOnce'
  <2>1. \A q, s \in Requests :
           /\ StartingAfter(q) /\ StartingAfter(s)
           /\ requests'[q].link = requests'[s].link
           => q = s
    BY <1>3, <1>4 DEF IndInv, LinkSignsInOnce
  <2>2. \A j, k \in DOMAIN sessions' : sessions'[j].link = sessions'[k].link => j = k
    BY <1>2 DEF IndInv, LinkSignsInOnce
  <2>3. \A q \in Requests, j \in DOMAIN sessions' :
           StartingAfter(q) => sessions'[j].link # requests'[q].link
    BY <1>2, <1>3, <1>5 DEF IndInv, LinkSignsInOnce
  <2>4. QED
    BY <2>1, <2>2, <2>3 DEF LinkSignsInOnce
<1>8. QED
  BY <1>6, <1>7

\* The session takes over from the handler that held the link.
LEMMA SignInKeepsLinks ==
    ASSUME IndInv, [Next]_vars, NEW r \in Requests, StartSession(r)
    PROVE  FollowedIsSpent' /\ LinkSignsInOnce'
<1> USE DEF Starting, StartingAfter
<1>0. TablesTyped
  BY StepTables
<1>1. /\ requests[r].link \in DOMAIN links
      /\ DOMAIN sessions' = 1..(Len(sessions) + 1)
      /\ DOMAIN sessions = 1..Len(sessions)
      /\ \A i \in DOMAIN sessions : sessions'[i].link = sessions[i].link
      /\ sessions'[Len(sessions) + 1].link = requests[r].link
      /\ Len(sessions) \in Nat
  BY <1>0, SignsIn
<1>2. links' = links
  BY DEF StartSession
<1>3. Starting(r)
  BY DEF StartSession, At
<1>4. ~StartingAfter(r)
      /\ \A q \in Requests : q # r => requests'[q] = requests[q]
  <2>1. requests' = [requests EXCEPT ![r] = Idle]
    BY DEF StartSession, End
  <2>2. requests = [q \in Requests |-> requests[q]]
    BY DEF IndInv, TypeOK
  <2>3. QED
    BY <2>1, <2>2 DEF Idle
<1>5. \A i \in DOMAIN sessions' : i \in DOMAIN sessions \/ i = Len(sessions) + 1
  BY <1>1
<1>6. FollowedIsSpent'
  <2>1. \A q \in Requests :
           StartingAfter(q) => links'[requests'[q].link].state # "fresh"
    BY <1>2, <1>4 DEF IndInv, FollowedIsSpent
  <2>2. \A i \in DOMAIN sessions' : links'[sessions'[i].link].state # "fresh"
    BY <1>1, <1>2, <1>3, <1>5 DEF IndInv, FollowedIsSpent
  <2>3. QED
    BY <2>1, <2>2 DEF FollowedIsSpent
<1>7. LinkSignsInOnce'
  <2>1. \A q, s \in Requests :
           /\ StartingAfter(q) /\ StartingAfter(s)
           /\ requests'[q].link = requests'[s].link
           => q = s
    BY <1>4 DEF IndInv, LinkSignsInOnce
  <2>2. ASSUME NEW i \in DOMAIN sessions', NEW j \in DOMAIN sessions',
               sessions'[i].link = sessions'[j].link
        PROVE  i = j
    <3>1. \A k \in DOMAIN sessions : sessions[k].link # requests[r].link
      BY <1>3 DEF IndInv, LinkSignsInOnce
    <3>2. QED
      BY <1>1, <1>5, <2>2, <3>1 DEF IndInv, LinkSignsInOnce
  <2>3. ASSUME NEW q \in Requests, NEW i \in DOMAIN sessions', StartingAfter(q)
        PROVE  sessions'[i].link # requests'[q].link
    <3>1. q # r /\ requests'[q] = requests[q]
      BY <1>4, <2>3
    <3>2. requests[q].link # requests[r].link
      BY <1>3, <2>3, <3>1 DEF IndInv, LinkSignsInOnce
    <3>3. QED
      BY <1>1, <1>5, <2>3, <3>1, <3>2 DEF IndInv, LinkSignsInOnce
  <2>4. QED
    BY <2>1, <2>2, <2>3 DEF LinkSignsInOnce
<1>8. QED
  BY <1>6, <1>7

LEMMA StepKeepsInv == IndInv /\ [Next]_vars => IndInv'
<1> SUFFICES ASSUME IndInv, [Next]_vars PROVE IndInv'
  OBVIOUS
<1>1. TypeOK' /\ HandlersAreReady'
  BY StepTypes
<1>2. FollowedIsSpent' /\ LinkSignsInOnce'
  <2>1. CASE \E r \in Requests, i \in DOMAIN links : Consume(r, i)
    BY <2>1, ConsumeKeepsLinks
  <2>2. CASE \E r \in Requests : StartSession(r)
    BY <2>2, SignInKeepsLinks
  <2>3. CASE /\ \A r \in Requests, i \in DOMAIN links : ~Consume(r, i)
             /\ \A r \in Requests : ~StartSession(r)
    BY <2>3, StepTables, StepSessions, QuietSteps, QuietKeepsLinks
  <2>4. QED
    BY <2>1, <2>2, <2>3
<1>3. QED
  BY <1>1, <1>2 DEF IndInv

LEMMA InitInv == Init => IndInv
<1> SUFFICES ASSUME Init PROVE IndInv
  OBVIOUS
<1>1. /\ now = 0 /\ links = <<>> /\ sessions = <<>>
      /\ principals = [p \in Ids |-> Unknown] /\ requests = [r \in Requests |-> Idle]
  BY DEF Init
<1>2. \A r \in Requests : requests[r].pc = "idle"
  BY <1>1 DEF Idle
<1>3. TypeOK
  BY <1>1, SignInAssumption DEF TypeOK
<1>4. HandlersAreReady /\ FollowedIsSpent /\ LinkSignsInOnce
  BY <1>1, <1>2 DEF HandlersAreReady, FollowedIsSpent, LinkSignsInOnce,
                    Starting, At
<1>5. QED
  BY <1>3, <1>4 DEF IndInv

\* The tables keep their types: in particular every link and every session
\* names a person that is known, and every handler a link that exists.
THEOREM SignInTypeCorrect == Spec => []TypeOK
<1>1. IndInv => TypeOK
  BY DEF IndInv
<1>2. QED
  BY InitInv, StepKeepsInv, <1>1, PTL DEF Spec

\* A link signs its person in at most once, however many handlers follow it at
\* the same time and whenever the sweep runs (`consume_login_token` and
\* `create_session`).
THEOREM LinksSignInOnce == Spec => []LinkSignsInOnce
<1>1. IndInv => LinkSignsInOnce
  BY DEF IndInv
<1>2. QED
  BY InitInv, StepKeepsInv, <1>1, PTL DEF Spec

LEMMA InvHolds == Spec => []IndInv
BY InitInv, StepKeepsInv, PTL DEF Spec

-----------------------------------------------------------------------------
(* An inbox is bounded *)

\* The handlers that have passed the throttle for an address and will still mint.
Ahead(a) ==
    {r \in Requests : /\ requests[r].address = a
                      /\ \/ At(r, "mint")
                         \/ requests[r].pc \in {"lookup", "pick", "register"} /\ ~requests[r].invite}

\* Whoever passes the throttle saw less than the limit, so the links there are
\* and those that are coming exceed it by no more than the other handlers.
Crowded(a) ==
    Cardinality(Recent(a)) + Cardinality(Ahead(a)) <= MaxRequests + Cardinality(Requests) - 1
CrowdInv == \A a \in Addresses : Crowded(a)

LEMMA CrowdsAreFinite ==
    ASSUME IndInv, NEW a
    PROVE  /\ IsFiniteSet(Recent(a)) /\ IsFiniteSet(Ahead(a))
           /\ Cardinality(Recent(a)) \in Nat /\ Cardinality(Ahead(a)) \in Nat
           /\ Cardinality(Ahead(a)) <= Cardinality(Requests)
           /\ Cardinality(Requests) \in Nat
<1>1. DOMAIN links = 1..Len(links) /\ Len(links) \in Nat
  BY DEF IndInv, TypeOK
<1>2. IsFiniteSet(1..Len(links))
  BY <1>1, FS_Interval
<1>3. IsFiniteSet(Recent(a))
  BY <1>1, <1>2, FS_Subset DEF Recent
<1>4. IsFiniteSet(Ahead(a)) /\ Cardinality(Ahead(a)) <= Cardinality(Requests)
  BY SignInAssumption, FS_Subset DEF Ahead
<1> QED BY <1>3, <1>4, SignInAssumption, FS_CardinalityType

\* Only a mint puts a link into a window: time, the sweep and who follows a link
\* take one out or leave it.
LEMMA RecentShrinks ==
    ASSUME IndInv, [Next]_vars, \A r \in Requests : ~Mint(r), NEW a
    PROVE  Recent(a)' \subseteq Recent(a)
<1> DEFINE kept ==
        \A i \in DOMAIN links' :
            /\ i \in DOMAIN links
            /\ links'[i].address = links[i].address
            /\ links'[i].state # "gone" =>
                  links[i].state # "gone" /\ links'[i].created = links[i].created
<1>0. links \in Seq(Link) /\ \A i \in DOMAIN links : links[i] \in Link
  <2>1. links \in Seq(Link)
    BY DEF IndInv, TypeOK
  <2> QED BY <2>1
<1>1. now \in Nat /\ now' \in Nat /\ now <= now'
  <2>1. now \in Nat
    BY DEF IndInv, TypeOK
  <2>2. ASSUME NEW r \in Requests, RequestStep(r) PROVE now' = now
    BY <2>2 DEF RequestStep, RequestLink, Invite, Throttle, Lookup, Pick, Register, Mint, Mail,
       Consume, ReadOwner, StartSession, LogOutEverywhere, Deactivate, Revoke
  <2>3. now' = now \/ now' = now + 1
    BY <2>2 DEF Next, LogOut, Restore, Sweep, Tick, vars
  <2> QED BY <2>1, <2>3
<1>2. ASSUME kept PROVE Recent(a)' \subseteq Recent(a)
  <2>1. ASSUME NEW i \in Recent(a)' PROVE i \in Recent(a)
    <3>1. /\ i \in DOMAIN links' /\ links'[i].address = a /\ links'[i].state # "gone"
          /\ links'[i].created > now' - Window
      BY <2>1 DEF Recent, InWindow
    <3>2. /\ i \in DOMAIN links /\ links[i].address = a /\ links[i].state # "gone"
          /\ links[i].created > now' - Window
      BY <1>2, <3>1
    <3>3. links[i].created \in Nat
      BY <1>0, <3>2 DEF Link
    <3>4. links[i].created > now - Window
      BY <1>1, <3>2, <3>3, SignInAssumption
    <3> QED BY <3>2, <3>4 DEF Recent, InWindow
  <2> QED BY <2>1
<1>3. CASE links' = links
  BY <1>2, <1>3
<1>4. ASSUME NEW r \in Requests, Mail(r) PROVE kept
  <2>1. requests[r].link \in DOMAIN links
    BY <1>4 DEF IndInv, HandlersAreReady, Mail, At
  <2> DEFINE n == requests[r].link
             row == [links[n] EXCEPT !.mailed = TRUE]
  <2>2. links' = links \/ links' = [links EXCEPT ![n] = row]
    BY <1>4 DEF Mail
  <2>3. /\ row.address = links[n].address /\ row.state = links[n].state
        /\ row.created = links[n].created
    BY <1>0, <2>1 DEF Link
  <2> HIDE DEF row
  <2> QED BY <1>0, <2>1, <2>2, <2>3
<1>5. ASSUME NEW r \in Requests, NEW i \in DOMAIN links, Consume(r, i) PROVE kept
  <2> DEFINE row == [links[i] EXCEPT !.state = "consumed"]
  <2>1. links' = [links EXCEPT ![i] = row] /\ links[i].state = "fresh"
    BY <1>5 DEF Consume
  <2>2. row.address = links[i].address /\ row.created = links[i].created
    BY <1>0 DEF Link
  <2> HIDE DEF row
  <2> QED BY <1>0, <2>1, <2>2
<1>6. CASE Sweep
  <2>1. /\ \A i \in DOMAIN links : links'[i] \in {links[i], GoneLink(links[i])}
        /\ DOMAIN links' = DOMAIN links
    BY <1>6 DEF Sweep
  <2>2. \A link \in Link : GoneLink(link).state = "gone" /\ GoneLink(link).address = link.address
    BY DEF GoneLink, Link
  <2>3. ASSUME NEW i \in DOMAIN links
        PROVE  /\ links'[i].address = links[i].address
               /\ links'[i].state # "gone" => links'[i] = links[i]
    BY <1>0, <2>1, <2>2
  <2>4. kept
    BY <2>1, <2>3
  <2> QED BY <1>2, <2>4
<1>7. ASSUME NEW r \in Requests, RequestStep(r)
      PROVE  links' = links \/ Mail(r) \/ \E i \in DOMAIN links : Consume(r, i)
  BY <1>7 DEF RequestStep, RequestLink, Invite, Throttle, Lookup, Pick, Register, ReadOwner,
     StartSession, LogOutEverywhere, Deactivate, Revoke
<1> QED BY <1>2, <1>3, <1>4, <1>5, <1>6, <1>7 DEF Next, LogOut, Restore, Tick, vars

\* A handler gets ahead through the throttle only, and leaves with its link.
StaysAhead(q, a) ==
    /\ ~Mint(q)
    /\ \/ q \in Ahead(a)
       \/ Throttle(q) /\ Cardinality(Recent(a)) < MaxRequests

LEMMA AheadMoves ==
    ASSUME IndInv, [Next]_vars, NEW a, NEW q \in Ahead(a)'
    PROVE  StaysAhead(q, a)
<1>1. requests = [r \in Requests |-> requests[r]]
  BY DEF IndInv, TypeOK
<1>2. /\ q \in Requests /\ requests'[q].address = a
      /\ \/ requests'[q].pc = "mint"
         \/ requests'[q].pc \in {"lookup", "pick", "register"} /\ ~requests'[q].invite
  BY DEF Ahead, At
<1>3. CASE requests'[q] = requests[q]
  <2>1. requests[q].pc \in {"lookup", "pick", "register", "mint"} => requests[q] \in Request
    BY <1>2, Handler
  <2>2. Mint(q) => requests'[q] = [requests[q] EXCEPT !.pc = "mail", !.link = Len(links) + 1]
    BY <1>1, <1>2 DEF Mint
  <2> QED BY <1>2, <1>3, <2>1, <2>2 DEF StaysAhead, Ahead, Request, At
<1>4. CASE requests'[q] # requests[q]
  <2> DEFINE here == requests[q]
  <2>1. RequestStep(q)
    <3>1. PICK r \in Requests : RequestStep(r)
      BY <1>4 DEF Next, LogOut, Restore, Sweep, Tick, vars
    <3>2. r # q => requests'[q] = requests[q]
      BY <1>1, <1>2, <3>1 DEF RequestStep, RequestLink, Invite, Throttle, Lookup, Pick, Register,
         Mint, Mail, Consume, ReadOwner, StartSession, LogOutEverywhere, Deactivate, Revoke, End, Goto
    <3> QED BY <1>4, <3>1, <3>2
  \* Where a handler ends or starts anew it is not ahead.
  <2>2. ASSUME NEW h, requests' = [requests EXCEPT ![q] = h],
               h.pc # "mint", h.pc \notin {"lookup", "pick", "register"} \/ h.invite
        PROVE  FALSE
    BY <1>1, <1>2, <2>2
  <2>3. ~End(q)
    BY <2>2, IdleFields DEF End
  <2>4. CASE \E b \in Addresses : RequestLink(q, b) \/ Invite(q, b)
    <3>1. PICK b \in Addresses : RequestLink(q, b) \/ Invite(q, b)
      BY <2>4
    <3>2. /\ [Idle EXCEPT !.pc = "throttle", !.address = b].pc = "throttle"
          /\ [Idle EXCEPT !.pc = "lookup", !.address = b, !.invite = TRUE].invite
      BY IdleFields
    <3>3. PICK h : /\ requests' = [requests EXCEPT ![q] = h]
                   /\ h.pc = "throttle" \/ (h.pc = "lookup" /\ h.invite)
      BY <3>1, <3>2, IdleFields DEF RequestLink, Invite
    <3> QED BY <2>2, <3>3
  \* A handler that goes on keeps its address, and what it is for.
  <2>6. ASSUME here.pc \in {"lookup", "pick", "register"}, ~here.invite,
               requests'[q].address = here.address
        PROVE  StaysAhead(q, a)
    BY <1>2, <2>6 DEF StaysAhead, Ahead, Mint, At
  <2>7. here.pc # "idle" => here \in Request
    BY <1>2, Handler
  <2>5. CASE Throttle(q)
    <3>1. here.pc = "throttle" /\ here \in Request
      BY <2>5, <2>7 DEF Throttle, At
    <3>2. ~Mint(q)
      BY <3>1 DEF Mint, At
    <3>3. /\ ~(Cardinality(Recent(here.address)) >= MaxRequests)
          /\ requests'[q] = [here EXCEPT !.pc = "lookup"]
      BY <1>1, <1>2, <2>3, <2>5 DEF Throttle, Goto
    <3>4. here.address = a
      BY <1>2, <3>1, <3>3 DEF Request
    <3>5. Cardinality(Recent(a)) \in Nat /\ MaxRequests \in Nat
      BY CrowdsAreFinite, SignInAssumption
    <3> QED BY <2>5, <3>2, <3>3, <3>4, <3>5 DEF StaysAhead
  <2>8. CASE Lookup(q) \/ Pick(q) \/ Register(q)
    <3>1. here.pc \in {"lookup", "pick", "register"} /\ here \in Request
      BY <2>7, <2>8 DEF Lookup, Pick, Register, At
    <3>2. /\ requests'[q].address = here.address /\ requests'[q].invite = here.invite
          /\ requests'[q].pc = "mint" => ~here.invite
      <4>1. CASE Lookup(q)
        <5>1. CASE Goto(q, "pick")
          BY <1>1, <1>2, <3>1, <5>1 DEF Goto, Request
        <5>2. CASE ~here.invite /\ ~Goto(q, "pick")
          <6>1. PICK p : requests' = [requests EXCEPT ![q].pc = "mint", ![q].id = p]
            BY <2>3, <4>1, <5>2 DEF Lookup
          <6>2. requests' = [requests EXCEPT ![q] = [here EXCEPT !.pc = "mint", !.id = p]]
            BY <1>1, <1>2, <6>1
          <6> QED BY <1>1, <1>2, <3>1, <5>2, <6>2 DEF Request
        <5> QED BY <2>3, <4>1, <5>1, <5>2 DEF Lookup
      <4>2. CASE Pick(q)
        <5>1. PICK p : requests' = [requests EXCEPT ![q].pc = "register", ![q].id = p]
          BY <4>2 DEF Pick
        <5>2. requests' = [requests EXCEPT ![q] = [here EXCEPT !.pc = "register", !.id = p]]
          BY <1>1, <1>2, <5>1
        <5> QED BY <1>1, <1>2, <3>1, <5>2 DEF Request
      <4>3. CASE Register(q)
        BY <1>1, <1>2, <2>3, <3>1, <4>3 DEF Register, Goto, Request
      <4> QED BY <2>8, <4>1, <4>2, <4>3
    <3> QED BY <1>2, <2>6, <3>1, <3>2
  <2>9. CASE Mint(q)
    <3>1. here \in Request
      BY <2>7, <2>9 DEF Mint, At
    <3>2. requests' = [requests EXCEPT ![q] = [here EXCEPT !.pc = "mail", !.link = Len(links) + 1]]
      BY <1>1, <2>9 DEF Mint
    <3>3. [here EXCEPT !.pc = "mail", !.link = Len(links) + 1].pc = "mail"
      BY <3>1 DEF Request
    <3> QED BY <2>2, <3>2, <3>3
  <2>10. ASSUME \/ \E i \in DOMAIN sessions : LogOutEverywhere(q, i)
                \/ \E p \in Ids : Deactivate(q, p)
                \/ \E i \in DOMAIN links : Consume(q, i)
         PROVE  FALSE
    <3>1. PICK h : /\ requests' = [requests EXCEPT ![q] = h]
                   /\ \/ \E p : h = [Idle EXCEPT !.pc = "revoke", !.id = p]
                      \/ \E i : h = [Idle EXCEPT !.pc = "owner", !.link = i]
      BY <2>10 DEF LogOutEverywhere, Deactivate, Consume
    <3>2. h.pc \in {"revoke", "owner"}
      BY <3>1, IdleFields
    <3> QED BY <2>2, <3>1, <3>2
  <2>11. CASE ReadOwner(q)
    <3>1. PICK p : requests' = [requests EXCEPT ![q] = [here EXCEPT !.pc = "session", !.id = p]]
      BY <1>1, <2>3, <2>11 DEF ReadOwner
    <3>2. [here EXCEPT !.pc = "session", !.id = p].pc = "session"
      BY <2>7, <2>11 DEF ReadOwner, At, Request
    <3> QED BY <2>2, <3>1, <3>2
  <2>12. ~Mail(q) /\ ~StartSession(q) /\ ~Revoke(q)
    BY <2>3 DEF Mail, StartSession, Revoke
  <2> QED BY <2>1, <2>4, <2>5, <2>8, <2>9, <2>10, <2>11, <2>12 DEF RequestStep
<1> QED BY <1>3, <1>4

\* A step that neither mints for an address nor lets anybody by its throttle.
LEMMA CrowdShrinks ==
    ASSUME IndInv, NEW a, Crowded(a),
           Recent(a)' \subseteq Recent(a), Ahead(a)' \subseteq Ahead(a)
    PROVE  Crowded(a)'
<1>1. /\ IsFiniteSet(Recent(a)) /\ IsFiniteSet(Ahead(a))
      /\ Cardinality(Recent(a)) \in Nat /\ Cardinality(Ahead(a)) \in Nat
      /\ Cardinality(Requests) \in Nat
  BY CrowdsAreFinite
<1>2. /\ Cardinality(Recent(a)') <= Cardinality(Recent(a))
      /\ Cardinality(Ahead(a)') <= Cardinality(Ahead(a))
      /\ IsFiniteSet(Recent(a)') /\ IsFiniteSet(Ahead(a)')
  BY <1>1, FS_Subset
<1>3. Cardinality(Recent(a)') \in Nat /\ Cardinality(Ahead(a)') \in Nat
  BY <1>2, FS_CardinalityType
<1> QED BY <1>1, <1>2, <1>3, SignInAssumption DEF Crowded

LEMMA CrowdStep ==
    ASSUME IndInv, CrowdInv, [Next]_vars
    PROVE  CrowdInv'
<1>1. \A a : \A q \in Ahead(a)' : StaysAhead(q, a)
  BY AheadMoves
<1>2. ASSUME NEW a \in Addresses PROVE Crowded(a)'
  <2>0. Crowded(a)
    BY DEF CrowdInv
  <2>1. CASE \E r \in Requests : Mint(r)
    <3>1. PICK r \in Requests : Mint(r)
      BY <2>1
    <3> DEFINE row == [address |-> requests[r].address, id |-> requests[r].id,
                       created |-> now, expires |-> now + LinkTtl,
                       state |-> "fresh", mailed |-> FALSE]
    <3>2. links' = Append(links, row) /\ now' = now
      BY <3>1 DEF Mint
    <3>3. row.address = requests[r].address
      OBVIOUS
    <3> HIDE DEF row
    <3>4. links \in Seq(Link)
      BY DEF IndInv, TypeOK
    <3>5. /\ Len(links) \in Nat /\ DOMAIN links = 1..Len(links)
          /\ DOMAIN links' = 1..(Len(links) + 1)
          /\ \A i \in 1..Len(links) : links'[i] = links[i]
          /\ links'[Len(links) + 1] = row
      BY <3>2, <3>4
    <3>6. Recent(a)' \subseteq Recent(a) \cup {Len(links) + 1}
      BY <3>2, <3>5 DEF Recent, InWindow
    <3>7. Ahead(a)' \subseteq Ahead(a) \ {r}
      <4>1. \A q \in Requests : ~Throttle(q)
        <5>1. \A q \in Requests : Throttle(q) => links' = links
          BY DEF Throttle
        <5>2. Len(links') # Len(links)
          BY <3>1, MintGrows DEF IndInv, TypeOK
        <5> QED BY <5>1, <5>2
      <4>2. ASSUME NEW q \in Ahead(a)' PROVE q \in Ahead(a) /\ q # r
        <5>1. q \in Requests
          BY <4>2 DEF Ahead
        <5> QED BY <1>1, <3>1, <4>1, <4>2, <5>1 DEF StaysAhead
      <4> QED BY <4>2
    <3>8. CASE requests[r].address = a
      <4>1. r \in Ahead(a)
        BY <3>1, <3>8 DEF Ahead, Mint, At
      <4>2. /\ IsFiniteSet(Recent(a)) /\ IsFiniteSet(Ahead(a))
            /\ Cardinality(Recent(a)) \in Nat /\ Cardinality(Ahead(a)) \in Nat
            /\ Cardinality(Requests) \in Nat
        BY CrowdsAreFinite
      <4>3. /\ IsFiniteSet(Recent(a) \cup {Len(links) + 1})
            /\ Cardinality(Recent(a) \cup {Len(links) + 1}) <= Cardinality(Recent(a)) + 1
        <5> DEFINE S == Recent(a)
                   x == Len(links) + 1
        <5>1. IsFiniteSet(S) /\ Cardinality(S) \in Nat
          BY <4>2
        <5> HIDE DEF S, x
        <5>2. IsFiniteSet(S \cup {x}) /\ Cardinality(S \cup {x}) <= Cardinality(S) + 1
          <6>1. IsFiniteSet(S \cup {x}) /\ Cardinality(S \cup {x}) \in {Cardinality(S), Cardinality(S) + 1}
            BY <5>1, FS_AddElement
          <6> QED BY <5>1, <6>1
        <5> QED BY <5>2 DEF S, x
      <4>4. /\ IsFiniteSet(Ahead(a) \ {r})
            /\ Cardinality(Ahead(a) \ {r}) = Cardinality(Ahead(a)) - 1
        BY <4>1, <4>2, FS_RemoveElement
      <4>5. /\ Cardinality(Recent(a)') <= Cardinality(Recent(a) \cup {Len(links) + 1})
            /\ Cardinality(Recent(a)') \in Nat
            /\ Cardinality(Recent(a) \cup {Len(links) + 1}) \in Nat
        BY <3>6, <4>3, FS_Subset, FS_CardinalityType
      <4>6. /\ Cardinality(Ahead(a)') <= Cardinality(Ahead(a) \ {r})
            /\ Cardinality(Ahead(a)') \in Nat
        BY <3>7, <4>4, FS_Subset, FS_CardinalityType
      <4> QED BY <2>0, <4>2, <4>3, <4>4, <4>5, <4>6, SignInAssumption DEF Crowded
    <3>9. CASE requests[r].address # a
      <4>1. Recent(a)' \subseteq Recent(a)
        BY <3>2, <3>3, <3>5, <3>6, <3>9 DEF Recent
      <4> QED BY <2>0, <3>7, <4>1, CrowdShrinks
    <3> QED BY <3>8, <3>9
  <2>2. CASE \A r \in Requests : ~Mint(r)
    <3>1. Recent(a)' \subseteq Recent(a)
      BY <2>2, RecentShrinks
    <3>2. CASE Cardinality(Recent(a)) < MaxRequests
      <4>1. /\ IsFiniteSet(Recent(a)) /\ Cardinality(Recent(a)) \in Nat
            /\ Cardinality(Requests) \in Nat
        BY CrowdsAreFinite
      <4>2. /\ Cardinality(Recent(a)') <= Cardinality(Recent(a))
            /\ Cardinality(Recent(a)') \in Nat
        BY <3>1, <4>1, FS_Subset, FS_CardinalityType
      <4>3. Ahead(a)' \subseteq Requests
        BY DEF Ahead
      <4>4. /\ Cardinality(Ahead(a)') <= Cardinality(Requests)
            /\ Cardinality(Ahead(a)') \in Nat
        BY <4>3, SignInAssumption, FS_Subset, FS_CardinalityType
      <4> QED BY <3>2, <4>1, <4>2, <4>4, SignInAssumption DEF Crowded
    <3>3. CASE ~(Cardinality(Recent(a)) < MaxRequests)
      <4>1. Ahead(a)' \subseteq Ahead(a)
        BY <1>1, <3>3 DEF StaysAhead
      <4> QED BY <2>0, <3>1, <4>1, CrowdShrinks
    <3> QED BY <3>2, <3>3
  <2> QED BY <2>1, <2>2
<1> QED BY <1>2 DEF CrowdInv

LEMMA CrowdHolds == Spec => []CrowdInv
<1>1. ASSUME Init PROVE CrowdInv
  <2>1. ASSUME NEW a \in Addresses PROVE Crowded(a)
    <3>1. Recent(a) = {}
      BY <1>1 DEF Init, Recent
    <3>2. Ahead(a) = {}
      BY <1>1 DEF Init, Ahead, At, Idle
    <3>3. Cardinality(Requests) \in Nat /\ Cardinality(Requests) # 0
      BY SignInAssumption, FS_CardinalityType, FS_EmptySet
    <3> QED BY <3>1, <3>2, <3>3, FS_EmptySet, SignInAssumption DEF Crowded
  <2> QED BY <2>1 DEF CrowdInv
<1>2. IndInv /\ CrowdInv /\ [Next]_vars => CrowdInv'
  BY CrowdStep
<1> QED BY <1>1, <1>2, InvHolds, PTL DEF Spec

\* An inbox never holds more links of one window that still work than the limit
\* and the other handlers that may have read the table before they were in it,
\* whatever handlers race, mails fail and sweeps run.
THEOREM InboxesAreBounded == Spec => []InboxIsBounded
<1>1. ASSUME IndInv, CrowdInv PROVE InboxIsBounded
  <2>1. ASSUME NEW a \in Addresses
        PROVE  Cardinality(Working(a)) <= MaxRequests + Cardinality(Requests) - 1
    <3>1. Working(a) \subseteq Recent(a)
      BY DEF Working, Recent
    <3>2. /\ IsFiniteSet(Recent(a)) /\ Cardinality(Recent(a)) \in Nat
          /\ Cardinality(Ahead(a)) \in Nat /\ Cardinality(Requests) \in Nat
      BY <1>1, CrowdsAreFinite
    <3>3. Cardinality(Working(a)) <= Cardinality(Recent(a)) /\ Cardinality(Working(a)) \in Nat
      BY <3>1, <3>2, FS_Subset, FS_CardinalityType
    <3> QED BY <1>1, <3>2, <3>3, SignInAssumption DEF CrowdInv, Crowded
  <2> QED BY <2>1 DEF InboxIsBounded
<1> QED BY <1>1, InvHolds, CrowdHolds, PTL

-----------------------------------------------------------------------------
(* Offboarding *)

\* A session that outlived the deactivation of its person.
Lingers(i) == sessions[i].ended /\ sessions[i].live

\* Who is about to revoke sessions does nothing else.
LEMMA RevokersStay ==
    ASSUME IndInv, [Next]_vars, NEW q \in Requests, At(q, "revoke")
    PROVE  requests'[q] = requests[q] \/ Revoke(q)
<1>1. requests = [r \in Requests |-> requests[r]]
  BY DEF IndInv, TypeOK
<1>2. ASSUME NEW r \in Requests, RequestStep(r)
      PROVE  requests'[q] = requests[q] \/ Revoke(q)
  <2>1. r # q => requests'[q] = requests[q]
    BY <1>1, <1>2 DEF RequestStep, RequestLink, Invite, Throttle, Lookup, Pick, Register,
       Mint, Mail, Consume, ReadOwner, StartSession, LogOutEverywhere, Deactivate, Revoke, End, Goto
  <2>2. r = q => Revoke(q)
    BY <1>2 DEF RequestStep, RequestLink, Invite, Throttle, Lookup, Pick, Register, Mint, Mail,
       Consume, ReadOwner, StartSession, LogOutEverywhere, Deactivate, At
  <2> QED BY <2>1, <2>2
<1> QED BY <1>2 DEF Next, LogOut, Restore, Sweep, Tick, vars

LEMMA OffboardingStep ==
    ASSUME IndInv, OffboardingEndsSessions, [Next]_vars
    PROVE  OffboardingEndsSessions'
<1> DEFINE Revoked(p) == \E q \in Requests : requests'[q].pc = "revoke" /\ requests'[q].id = p
<1>1. requests = [r \in Requests |-> requests[r]]
  BY DEF IndInv, TypeOK
<1>2. sessions \in Seq(Session) /\ \A i \in DOMAIN sessions : sessions[i] \in Session
  <2>1. sessions \in Seq(Session)
    BY DEF IndInv, TypeOK
  <2> QED BY <2>1
<1>3. \A session \in Session : ~GoneSession(session).live
  BY DEF GoneSession, Session
\* Whoever was to revoke a session still is, unless they did.
<1>4. ASSUME NEW i \in DOMAIN sessions, Lingers(i) PROVE Revoked(sessions[i].id) \/ sessions'[i] = GoneSession(sessions[i])
  <2>1. PICK q \in Requests : At(q, "revoke") /\ requests[q].id = sessions[i].id
    BY <1>4 DEF OffboardingEndsSessions, Lingers
  <2>2. CASE requests'[q] = requests[q]
    BY <2>1, <2>2 DEF At
  <2>3. CASE Revoke(q)
    BY <2>1, <2>3 DEF Revoke, Without
  <2> QED BY <2>1, <2>2, <2>3, RevokersStay
\* A step that lets no session linger that did not.
<1>5. ASSUME \A i \in DOMAIN sessions' :
                sessions'[i].ended /\ sessions'[i].live =>
                    \/ i \in DOMAIN sessions /\ sessions'[i] = sessions[i]
                    \/ Revoked(sessions'[i].id)
      PROVE  OffboardingEndsSessions'
  <2>1. ASSUME NEW i \in DOMAIN sessions', sessions'[i].ended, sessions'[i].live
        PROVE  Revoked(sessions'[i].id)
    <3>1. CASE i \in DOMAIN sessions /\ sessions'[i] = sessions[i]
      BY <1>2, <1>3, <1>4, <2>1, <3>1 DEF Lingers
    <3> QED BY <1>5, <2>1, <3>1
  <2> QED BY <2>1 DEF OffboardingEndsSessions, At
<1>6. ASSUME DOMAIN sessions' = DOMAIN sessions,
             \A i \in DOMAIN sessions : sessions'[i] \in {sessions[i], GoneSession(sessions[i])}
      PROVE  OffboardingEndsSessions'
  BY <1>2, <1>3, <1>5, <1>6
<1>7. ASSUME NEW r \in Requests, StartSession(r) PROVE OffboardingEndsSessions'
  <2> DEFINE row == [id |-> requests[r].id, expires |-> now + SessionTtl,
                     live |-> TRUE, link |-> requests[r].link, ended |-> FALSE]
  <2>1. sessions' = Append(sessions, row) /\ ~row.ended
    BY <1>7 DEF StartSession
  <2> HIDE DEF row
  <2>2. \A i \in DOMAIN sessions' : sessions'[i] = row \/ (i \in DOMAIN sessions /\ sessions'[i] = sessions[i])
    BY <1>2, <2>1
  <2> QED BY <1>5, <2>1, <2>2
<1>8. ASSUME NEW r \in Requests, NEW p \in Ids, Deactivate(r, p) PROVE OffboardingEndsSessions'
  <2>1. Revoked(p)
    <3>1. requests' = [requests EXCEPT ![r] = [Idle EXCEPT !.pc = "revoke", !.id = p]]
      BY <1>8 DEF Deactivate
    <3>2. /\ [Idle EXCEPT !.pc = "revoke", !.id = p].pc = "revoke"
          /\ [Idle EXCEPT !.pc = "revoke", !.id = p].id = p
      BY IdleFields
    <3>3. requests'[r].pc = "revoke" /\ requests'[r].id = p
      BY <1>1, <3>1, <3>2
    <3> QED BY <3>3
  <2>2. sessions' = Ended(p)
    BY <1>8 DEF Deactivate
  <2>3. DOMAIN sessions' = DOMAIN sessions
    BY <2>2 DEF Ended
  <2>4. ASSUME NEW i \in DOMAIN sessions PROVE sessions'[i] = sessions[i] \/ sessions'[i].id = p
    BY <1>2, <2>2 DEF Ended, Session
  <2> HIDE DEF Revoked
  <2> QED BY <1>5, <2>1, <2>3, <2>4
<1>9. ASSUME NEW r \in Requests, Revoke(r) PROVE OffboardingEndsSessions'
  BY <1>6, <1>9 DEF Revoke, Without
<1>10. ASSUME NEW i \in DOMAIN sessions, LogOut(i) PROVE OffboardingEndsSessions'
  <2>1. sessions' = [sessions EXCEPT ![i] = GoneSession(sessions[i])]
    BY <1>10 DEF LogOut
  <2> QED BY <1>2, <1>6, <2>1
<1>11. CASE Sweep
  BY <1>6, <1>11 DEF Sweep
<1>12. CASE UNCHANGED sessions
  BY <1>6, <1>12
<1>13. ASSUME NEW r \in Requests, RequestStep(r)
       PROVE  UNCHANGED sessions \/ StartSession(r) \/ Revoke(r) \/ \E p \in Ids : Deactivate(r, p)
  BY <1>13 DEF RequestStep, RequestLink, Invite, Throttle, Lookup, Pick, Register, Mint, Mail,
     Consume, ReadOwner, LogOutEverywhere
<1> QED BY <1>7, <1>8, <1>9, <1>10, <1>11, <1>12, <1>13 DEF Next, Restore, Tick, vars

\* Once a person's sessions have been revoked, none that was live when they were
\* deactivated works again, whoever signs in, out or is restored meanwhile
\* (`admin_set_active` and `revoke_all_sessions`).
THEOREM OffboardingIsFinal == Spec => []OffboardingEndsSessions
<1>1. Init => OffboardingEndsSessions
  BY DEF Init, OffboardingEndsSessions
<1>2. IndInv /\ OffboardingEndsSessions /\ [Next]_vars => OffboardingEndsSessions'
  BY OffboardingStep
<1> QED BY <1>1, <1>2, InvHolds, PTL DEF Spec
=============================================================================
