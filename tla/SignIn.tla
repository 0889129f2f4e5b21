------------------------------- MODULE SignIn -------------------------------
(***************************************************************************)
(* Signing in by mailed link: the handlers of auth/routes.rs, the tables of *)
(* auth/store.rs, the lookup and creation of principals that a link needs,  *)
(* and what an administrator does to people meanwhile.                      *)
(*                                                                          *)
(* A handler is a chain of store calls, and other requests run between two  *)
(* of them.  Rows that are deleted stay in the model's tables, marked as     *)
(* gone and cleared.  API keys are left out; the administrator is taken to be signed in. *)
(***************************************************************************)
EXTENDS Integers, FiniteSets, Sequences

CONSTANTS
    Addresses,     \* e-mail addresses, trimmed and in lower case
    Allowed,       \* addresses the configuration lets in
    Ids,           \* principal ids
    Candidates,    \* Candidates[a]: the ids made of an address, in order
    Requests,      \* requests handled at the same time
    LinkTtl,       \* login_token_ttl_secs
    SessionTtl,    \* session_ttl_secs
    Window,        \* request_window_secs
    MaxRequests,   \* max_requests_per_window
    MaxTime,       \* bound: the clock stops here
    MaxLinks,      \* bound: links minted
    MaxSessions    \* bound: sessions started

NoAddress == ""
NoId == ""

ASSUME SignInAssumption ==
    /\ NoAddress \notin Addresses
    /\ Allowed \subseteq Addresses
    /\ Candidates \in [Addresses -> Seq(Ids)]
    /\ LinkTtl \in Nat \ {0} /\ SessionTtl \in Nat \ {0} /\ Window \in Nat \ {0}
    /\ MaxRequests \in Nat /\ MaxTime \in Nat /\ MaxLinks \in Nat
    /\ MaxSessions \in Nat
    /\ Requests # {} /\ IsFiniteSet(Requests)

VARIABLES
    now,          \* Utc::now()
    principals,   \* principals[p]: its address and whether it is active
    links,        \* the rows of auth_login_tokens, in the order of insertion
    sessions,     \* the rows of auth_sessions, in the order of insertion
    requests      \* requests[r]: where a handler is
vars == <<now, principals, links, sessions, requests>>

Unknown == [address |-> NoAddress, active |-> FALSE]
Known(p) == principals[p].address # NoAddress
ByAddress(a) == {p \in Ids : principals[p].address = a}

Idle == [pc |-> "idle", address |-> NoAddress, id |-> NoId, link |-> 0, invite |-> FALSE]
At(r, pc) == requests[r].pc = pc
Goto(r, pc) == requests' = [requests EXCEPT ![r].pc = pc]
End(r) == requests' = [requests EXCEPT ![r] = Idle]

\* What is left of a row that is deleted.
GoneLink(link) == [link EXCEPT !.created = 0, !.expires = 0, !.state = "gone", !.mailed = FALSE]
GoneSession(session) == [session EXCEPT !.expires = 0, !.live = FALSE, !.ended = FALSE]

-----------------------------------------------------------------------------
(* `request_link` *)

\* Who may ask: an active person, or an address the configuration lets in; a
\* deactivated person may not, whatever the configuration says.
MayAsk(a) ==
    IF ByAddress(a) = {} THEN a \in Allowed
    ELSE \E p \in ByAddress(a) : principals[p].active

RequestLink(r, a) ==
    /\ At(r, "idle")
    /\ MayAsk(a)
    /\ requests' = [requests EXCEPT ![r] = [Idle EXCEPT !.pc = "throttle", !.address = a]]
    /\ UNCHANGED <<now, principals, links, sessions>>

InWindow(i) == links[i].created > now - Window

\* Mutant of Recent: only the links that were followed count.
RecentFollowed(a) ==
    {i \in DOMAIN links : links[i].address = a /\ links[i].state = "consumed" /\ InWindow(i)}

\* `recent_login_requests` counts the rows there are, followed or not.
Recent(a) ==
    {i \in DOMAIN links : links[i].address = a /\ links[i].state # "gone" /\ InWindow(i)}

Throttle(r) ==
    /\ At(r, "throttle")
    /\ IF Cardinality(Recent(requests[r].address)) >= MaxRequests THEN End(r)
       ELSE Goto(r, "lookup")
    /\ UNCHANGED <<now, principals, links, sessions>>

\* `principal_by_email`; of several rows the query returns one.  An invitation
\* of a known address ends here.
Lookup(r) ==
    LET found == ByAddress(requests[r].address) IN
    /\ At(r, "lookup")
    /\ \/ found = {} /\ Goto(r, "pick")
       \/ found # {} /\ requests[r].invite /\ End(r)
       \/ /\ ~requests[r].invite
          /\ \E p \in found :
                requests' = [requests EXCEPT ![r].pc = "mint", ![r].id = p]
    /\ UNCHANGED <<now, principals, links, sessions>>

\* `principal_id_for`: the first candidate no principal has.  Ids are never
\* given up, so looking at them one by one comes to the same.
FirstFree(a) ==
    LET free == {i \in DOMAIN Candidates[a] : ~Known(Candidates[a][i])} IN
    {Candidates[a][i] : i \in {j \in free : \A k \in free : j <= k}}

\* An invitation may name the id instead, if nobody has it.
Choices(r) ==
    FirstFree(requests[r].address)
        \union IF requests[r].invite THEN {p \in Ids : ~Known(p)} ELSE {}

\* Mutant of Pick: the new person is not written before the link.
PickUnregistered(r) ==
    /\ At(r, "pick")
    /\ \E p \in Choices(r) :
          requests' = [requests EXCEPT ![r].pc = "mint", ![r].id = p]
    /\ UNCHANGED <<now, principals, links, sessions>>

Pick(r) ==
    /\ At(r, "pick")
    /\ \E p \in Choices(r) :
          requests' = [requests EXCEPT ![r].pc = "register", ![r].id = p]
    /\ UNCHANGED <<now, principals, links, sessions>>

\* `upsert_principal`: a row that is there meanwhile gets the new address and
\* stays as active as it was.
Register(r) ==
    LET p == requests[r].id IN
    /\ At(r, "register")
    /\ principals' = [principals EXCEPT ![p] =
          [address |-> requests[r].address, active |-> IF Known(p) THEN @.active ELSE TRUE]]
    /\ IF requests[r].invite THEN End(r) ELSE Goto(r, "mint")
    /\ UNCHANGED <<now, links, sessions>>

\* `create_login_token`
Mint(r) ==
    /\ At(r, "mint")
    /\ Len(links) < MaxLinks
    /\ links' = Append(links, [address |-> requests[r].address, id |-> requests[r].id,
                               created |-> now, expires |-> now + LinkTtl,
                               state |-> "fresh", mailed |-> FALSE])
    /\ requests' = [requests EXCEPT ![r].pc = "mail", ![r].link = Len(links) + 1]
    /\ UNCHANGED <<now, principals, sessions>>

\* The mail goes out, or the error is logged; the person sees the same page.
Mail(r) ==
    /\ At(r, "mail")
    /\ \/ links' = [links EXCEPT ![requests[r].link].mailed = TRUE]
       \/ UNCHANGED links
    /\ End(r)
    /\ UNCHANGED <<now, principals, sessions>>

-----------------------------------------------------------------------------
(* `callback` and browser sessions *)

\* Between following a link and the session it starts.
Starting(r) == requests[r].pc \in {"owner", "session"}
Room == Len(sessions) + Cardinality({r \in Requests : Starting(r)}) < MaxSessions

\* Mutant of Consume: a link that was followed may be followed again.
ConsumeAgain(r, i) ==
    /\ At(r, "idle")
    /\ Room
    /\ links[i].mailed
    /\ links[i].state # "gone"
    /\ links[i].expires > now
    /\ links' = [links EXCEPT ![i].state = "consumed"]
    /\ requests' = [requests EXCEPT ![r] = [Idle EXCEPT !.pc = "owner", !.link = i]]
    /\ UNCHANGED <<now, principals, sessions>>

\* `consume_login_token`: the conditional UPDATE, and then a SELECT that comes
\* back empty if the sweep has taken the row, which reads as a link already used.
Consume(r, i) ==
    /\ At(r, "idle")
    /\ Room
    /\ links[i].mailed
    /\ links[i].state = "fresh"
    /\ links[i].expires > now
    /\ links' = [links EXCEPT ![i].state = "consumed"]
    /\ requests' = [requests EXCEPT ![r] = [Idle EXCEPT !.pc = "owner", !.link = i]]
    /\ UNCHANGED <<now, principals, sessions>>

ReadOwner(r) ==
    LET i == requests[r].link IN
    /\ At(r, "owner")
    /\ \/ links[i].state = "gone" /\ End(r)
       \/ /\ links[i].state # "gone"
          /\ requests' = [requests EXCEPT ![r].pc = "session", ![r].id = links[i].id]
    /\ UNCHANGED <<now, principals, links, sessions>>

\* `create_session`, whether or not the person is still active.  `link` and
\* `ended` are history: the link it comes from, and whether the person was
\* deactivated since.
StartSession(r) ==
    /\ At(r, "session")
    /\ sessions' = Append(sessions, [id |-> requests[r].id, expires |-> now + SessionTtl,
                                     live |-> TRUE, link |-> requests[r].link, ended |-> FALSE])
    /\ End(r)
    /\ UNCHANGED <<now, principals, links>>

\* `principal_for_session`: what every page asks first.
Serves(i) ==
    /\ sessions[i].live
    /\ sessions[i].expires > now
    /\ principals[sessions[i].id].active

LogOut(i) ==
    /\ Serves(i)
    /\ sessions' = [sessions EXCEPT ![i] = GoneSession(@)]
    /\ UNCHANGED <<now, principals, links, requests>>

LogOutEverywhere(r, i) ==
    /\ At(r, "idle")
    /\ Serves(i)
    /\ requests' = [requests EXCEPT ![r] = [Idle EXCEPT !.pc = "revoke", !.id = sessions[i].id]]
    /\ UNCHANGED <<now, principals, links, sessions>>

Without(p) ==
    [i \in DOMAIN sessions |->
        IF sessions[i].id = p THEN GoneSession(sessions[i]) ELSE sessions[i]]

\* `revoke_all_sessions`
Revoke(r) ==
    /\ At(r, "revoke")
    /\ sessions' = Without(requests[r].id)
    /\ End(r)
    /\ UNCHANGED <<now, principals, links>>

-----------------------------------------------------------------------------
(* The administrator, the sweep and the clock *)

Invite(r, a) ==
    /\ At(r, "idle")
    /\ requests' = [requests EXCEPT ![r] =
          [Idle EXCEPT !.pc = "lookup", !.address = a, !.invite = TRUE]]
    /\ UNCHANGED <<now, principals, links, sessions>>

Ended(p) ==
    [i \in DOMAIN sessions |->
        IF sessions[i].id = p /\ sessions[i].live THEN [sessions[i] EXCEPT !.ended = TRUE]
        ELSE sessions[i]]

\* Mutant of Deactivate: the sessions are left to expire.
DeactivateOnly(r, p) ==
    /\ At(r, "idle")
    /\ Known(p)
    /\ principals' = [principals EXCEPT ![p].active = FALSE]
    /\ sessions' = Ended(p)
    /\ UNCHANGED <<now, links, requests>>

\* `admin_set_active`: the person first, then (Revoke) the sessions.
Deactivate(r, p) ==
    /\ At(r, "idle")
    /\ Known(p)
    /\ principals' = [principals EXCEPT ![p].active = FALSE]
    /\ sessions' = Ended(p)
    /\ requests' = [requests EXCEPT ![r] = [Idle EXCEPT !.pc = "revoke", !.id = p]]
    /\ UNCHANGED <<now, links>>

Restore(p) ==
    /\ Known(p)
    /\ principals' = [principals EXCEPT ![p].active = TRUE]
    /\ UNCHANGED <<now, links, sessions, requests>>

\* `sweep_expired`
Sweep ==
    /\ sessions' = [i \in DOMAIN sessions |->
          IF sessions[i].expires <= now THEN GoneSession(sessions[i]) ELSE sessions[i]]
    /\ links' = [i \in DOMAIN links |->
          IF links[i].expires <= now \/ links[i].state = "consumed"
          THEN GoneLink(links[i]) ELSE links[i]]
    /\ UNCHANGED <<now, principals, requests>>

Tick ==
    /\ now < MaxTime
    /\ now' = now + 1
    /\ UNCHANGED <<principals, links, sessions, requests>>

-----------------------------------------------------------------------------
Init ==
    /\ now = 0
    /\ principals = [p \in Ids |-> Unknown]
    /\ links = <<>>
    /\ sessions = <<>>
    /\ requests = [r \in Requests |-> Idle]

RequestStep(r) ==
    \/ \E a \in Addresses : RequestLink(r, a) \/ Invite(r, a)
    \/ Throttle(r) \/ Lookup(r) \/ Pick(r) \/ Register(r) \/ Mint(r) \/ Mail(r)
    \/ \E i \in DOMAIN links : Consume(r, i)
    \/ ReadOwner(r) \/ StartSession(r)
    \/ \E i \in DOMAIN sessions : LogOutEverywhere(r, i)
    \/ \E p \in Ids : Deactivate(r, p)
    \/ Revoke(r)

Next ==
    \/ \E r \in Requests : RequestStep(r)
    \/ \E i \in DOMAIN sessions : LogOut(i)
    \/ \E p \in Ids : Restore(p)
    \/ Sweep
    \/ Tick

Spec == Init /\ [][Next]_vars

-----------------------------------------------------------------------------
(* Properties *)

Link == [address : Addresses, id : Ids, created : Nat, expires : Nat,
         state : {"fresh", "consumed", "gone"}, mailed : BOOLEAN]
Session == [id : Ids, expires : Nat, live : BOOLEAN, link : DOMAIN links, ended : BOOLEAN]
RequestPcs == {"throttle", "lookup", "pick", "register", "mint", "mail", "owner",
               "session", "revoke"}
Request == [pc : RequestPcs, address : Addresses \union {NoAddress}, id : Ids \union {NoId},
            link : 0..Len(links), invite : BOOLEAN]

\* Rows name people and links that exist, and a link or a session a known one.
TypeOK ==
    /\ now \in 0..MaxTime
    /\ principals \in [Ids -> [address : Addresses, active : BOOLEAN] \union {Unknown}]
    /\ links \in Seq(Link)
    /\ sessions \in Seq(Session)
    /\ requests \in [Requests -> Request \union {Idle}]
    /\ \A i \in DOMAIN links : Known(links[i].id)

\* "Following the same link twice, or racing two tabs, yields exactly one
\* session" (auth/store.rs:74): no more than one, also after the sweep has taken
\* the row and while a second handler holds the link.
LinkSignsInOnce ==
    /\ \A q, r \in Requests :
          Starting(q) /\ Starting(r) /\ requests[q].link = requests[r].link => q = r
    /\ \A i, j \in DOMAIN sessions : sessions[i].link = sessions[j].link => i = j
    /\ \A r \in Requests, i \in DOMAIN sessions :
          Starting(r) => sessions[i].link # requests[r].link

\* The rate limit is read in one step and spent in another, so requests that
\* race can exceed it, each by one link: an inbox never holds more links that
\* still work, of one window, than the limit and the requests that overtook it.
Working(a) ==
    {i \in DOMAIN links : /\ links[i].address = a /\ links[i].mailed
                          /\ links[i].state = "fresh" /\ links[i].expires > now
                          /\ InWindow(i)}
InboxIsBounded ==
    \A a \in Addresses :
        Cardinality(Working(a)) <= MaxRequests + Cardinality(Requests) - 1

\* Deactivation ends "every live session" (web/pages.rs:1120): once it is done,
\* no session from before it is left to work again when the person is restored,
\* whatever sign-ins raced it.
OffboardingEndsSessions ==
    \A i \in DOMAIN sessions :
        sessions[i].ended /\ sessions[i].live =>
            \E r \in Requests : At(r, "revoke") /\ requests[r].id = sessions[i].id

-----------------------------------------------------------------------------
(* The inductive invariant behind LinkSignsInOnce *)

\* A handler has what its next store call needs.
HandlersAreReady ==
    \A r \in Requests :
        /\ requests[r].pc \in {"throttle", "lookup", "pick", "register", "mint"} =>
              requests[r].address \in Addresses
        /\ requests[r].pc \in {"register", "mint", "session", "revoke"} => requests[r].id \in Ids
        /\ At(r, "mint") => Known(requests[r].id)
        /\ requests[r].pc \in {"mail", "owner", "session"} => requests[r].link \in DOMAIN links

\* A link that has signed somebody in, or is about to, is spent.
FollowedIsSpent ==
    /\ \A r \in Requests : Starting(r) => links[requests[r].link].state # "fresh"
    /\ \A i \in DOMAIN sessions : links[sessions[i].link].state # "fresh"

IndInv ==
    /\ TypeOK
    /\ HandlersAreReady
    /\ FollowedIsSpent
    /\ LinkSignsInOnce
=============================================================================
