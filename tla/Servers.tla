------------------------------- MODULE Servers -------------------------------
(***************************************************************************)
(* Server processes on one database: how they boot (main.rs, db.rs,          *)
(* store/mod.rs), crash and boot again, and the pages for skills, API keys,   *)
(* people and groups they serve meanwhile (web/pages.rs, auth/routes.rs).    *)
(* A deployment replaces a process by a new one while the old one runs, so    *)
(* two of them boot and serve at once.                                      *)
(*                                                                          *)
(* A process serves one request at a time here; requests of two processes    *)
(* interleave as two tasks of one process do.  A handler reads, decides and   *)
(* then writes: another handler may come between.                           *)
(***************************************************************************)
EXTENDS Directory, Skills, ApiKeys

CONSTANTS
    Processes,
    Latest,        \* migrations in the binary
    Admin,         \* [org].admin
    BootstrapKey,  \* the key of the configuration
    Ops,           \* the group people share
    Invited,       \* people an administrator may invite
    MaxRequests, MaxChanges, MaxCrashes    \* bounds

\* A row of `skills`, signed with one of some secrets.
SkillRow(secrets) ==
    [scope : Scopes, manifest : Manifests, status : Statuses,
     signature : [secret : secrets, scope : Scopes, manifest : Manifests]]

ASSUME ServersAssumption ==
    /\ Admin \in People /\ Invited \subseteq People
    /\ Ops \in GroupIds
    /\ NoSkill \notin SkillRow(Nat) /\ Gone \notin SkillRow(Nat)
    /\ Latest \in Nat \ {0}
    /\ MaxRequests \in Nat /\ MaxChanges \in Nat /\ MaxCrashes \in Nat

VARIABLES
    schema,      \* the version the tables have
    applied,     \* the rows of schema_migrations: the versions up to this one
    signing,     \* the setting skills.signing_secret; 0 without a row
    generated,   \* secrets generated so far; each is a new number
    boot,        \* boot[s]: where a process is, and the secret it holds
    request,     \* request[s]: the request a process is handling
    fresh,       \* history: processes that found no secret
    overtaken,   \* history: processes whose request was checked before the
                 \* last change of an administrator
    requests, changes, crashes
startup == <<schema, applied, signing, generated, fresh>>
counters == <<requests, changes, crashes>>
vars == <<directory, skills, keys, startup, boot, request, overtaken, counters>>

Down == [at |-> "down", version |-> 0, secret |-> 0]
Quiet == [at |-> "idle", who |-> Nobody, op |-> [kind |-> "none"]]
Up(s) == boot[s].at = "up"
Stage(s, at) == boot' = [boot EXCEPT ![s].at = at]

-----------------------------------------------------------------------------
(* Boot *)

Start(s) ==
    /\ boot[s] = Down
    /\ boot' = [boot EXCEPT ![s] = [Down EXCEPT !.at = "migrate", !.version = 1]]
    /\ UNCHANGED <<startup, people, keys>>

\* Whether a migration is applied is asked outside its transaction.
CheckMigration(s) ==
    /\ boot[s].at = "migrate"
    /\ \/ boot[s].version > Latest /\ Stage(s, "secret")
       \/ /\ boot[s].version <= applied
          /\ boot' = [boot EXCEPT ![s].version = @ + 1]
       \/ boot[s].version \in (applied + 1)..Latest /\ Stage(s, "apply")
    /\ UNCHANGED <<startup, people, keys>>

\* Mutant of ApplyMigration: the version is not recorded with the tables, and
\* the process may die in between.
ApplyMigrationUnrecorded(s) ==
    /\ boot[s].at = "apply"
    /\ IF schema < boot[s].version
       THEN /\ schema' = boot[s].version
            /\ \/ /\ applied' = boot[s].version
                  /\ boot' = [boot EXCEPT ![s] = [boot[s] EXCEPT !.at = "migrate", !.version = boot[s].version + 1]]
               \/ boot' = [boot EXCEPT ![s] = Down] /\ UNCHANGED applied
       ELSE boot' = [boot EXCEPT ![s] = Down] /\ UNCHANGED <<schema, applied>>
    /\ UNCHANGED <<signing, generated, fresh, people, keys>>

\* One transaction.  Who comes second fails on the tables there are, or on the
\* row of the version; the error ends the process.
ApplyMigration(s) ==
    /\ boot[s].at = "apply"
    /\ IF schema < boot[s].version
       THEN /\ schema' = boot[s].version
            /\ applied' = boot[s].version
            /\ boot' = [boot EXCEPT ![s] = [boot[s] EXCEPT !.at = "migrate", !.version = boot[s].version + 1]]
       ELSE boot' = [boot EXCEPT ![s] = Down] /\ UNCHANGED <<schema, applied>>
    /\ UNCHANGED <<signing, generated, fresh, people, keys>>

\* Mutant of ReadSecret: every boot makes a new secret.
ReadSecretNever(s) ==
    /\ boot[s].at = "secret"
    /\ generated' = generated + 1
    /\ fresh' = IF signing = 0 THEN fresh \cup {s} ELSE fresh
    /\ boot' = [boot EXCEPT ![s] = [@ EXCEPT !.at = "store", !.secret = generated + 1]]
    /\ UNCHANGED <<schema, applied, signing, people, keys>>

\* Stores::new: the secret there is, or a new one.
ReadSecret(s) ==
    /\ boot[s].at = "secret"
    /\ IF signing # 0
       THEN /\ boot' = [boot EXCEPT ![s] = [@ EXCEPT !.at = "admin", !.secret = signing]]
            /\ UNCHANGED <<generated, fresh>>
       ELSE /\ generated' = generated + 1
            /\ fresh' = fresh \cup {s}
            /\ boot' = [boot EXCEPT ![s] = [@ EXCEPT !.at = "store", !.secret = generated + 1]]
    /\ UNCHANGED <<schema, applied, signing, people, keys>>

\* put_setting overwrites.
StoreSecret(s) ==
    /\ boot[s].at = "store"
    /\ signing' = boot[s].secret
    /\ Stage(s, "admin")
    /\ UNCHANGED <<schema, applied, generated, fresh, people, keys>>

RegisterAdmin(s) ==
    /\ boot[s].at = "admin"
    /\ UpsertPrincipal(Admin, "internal")
    /\ Stage(s, "keys")
    /\ UNCHANGED <<startup, keys>>

\* The key of the configuration is adopted only while there is no key, revoked
\* ones included.
CheckKeys(s) ==
    /\ boot[s].at = "keys"
    /\ Stage(s, IF AnyKeyExists THEN "up" ELSE "adopt")
    /\ UNCHANGED <<startup, people, keys>>

AdoptBootstrapKey(s) ==
    /\ boot[s].at = "adopt"
    /\ AdoptKey(BootstrapKey, Admin)
    /\ Stage(s, "up")
    /\ UNCHANGED <<startup, people>>

Boot(s) ==
    /\ \/ Start(s) \/ CheckMigration(s) \/ ApplyMigration(s) \/ ReadSecret(s)
       \/ StoreSecret(s) \/ RegisterAdmin(s) \/ CheckKeys(s) \/ AdoptBootstrapKey(s)
    /\ UNCHANGED <<channels, channelMembers, groupKey, groupMembers, identities, bindings,
                   skills, request, overtaken, counters>>

Crash(s) ==
    /\ boot[s] # Down
    /\ crashes < MaxCrashes
    /\ crashes' = crashes + 1
    /\ boot' = [boot EXCEPT ![s] = Down]
    /\ request' = [request EXCEPT ![s] = Quiet]
    /\ overtaken' = overtaken \ {s}
    /\ UNCHANGED <<directory, skills, keys, startup, requests, changes>>

-----------------------------------------------------------------------------
(* Pages.  CurrentUser authenticates a browser session, which only an active  *)
(* person has, or an API key.                                               *)

Active(p) == Known(p) /\ people[p].active
Session == "session"
Authenticated(p, via) == Active(p) /\ (IF via = Session THEN TRUE ELSE (Live(via) /\ keys[via].owner = p))

\* What can be asked for.
SkillScopes == {GroupScope(Ops), Org}
Asked ==
    [kind : {"create"}, scope : SkillScopes, manifest : Manifests]
        \cup [kind : {"update"}, id : SkillIds, manifest : Manifests]
        \cup [kind : {"status"}, id : SkillIds, status : {"published", "archived"}]
        \cup [kind : {"delete"}, id : SkillIds]
        \cup [kind : {"mint", "revoke"}, key : Keys]
OnSkill(op) == op.kind \in {"update", "status", "delete"}

\* A key mints no keys.
Arrive(s, p, via, op) ==
    /\ Up(s)
    /\ request[s] = Quiet
    /\ requests < MaxRequests
    /\ Authenticated(p, via)
    /\ op.kind = "mint" => via = Session
    /\ OnSkill(op) => op.id \in Rows      \* bound: no page leads to what never was
    /\ requests' = requests + 1
    /\ request' = [request EXCEPT ![s] = [at |-> "check", who |-> p, op |-> op]]
    /\ UNCHANGED <<directory, skills, keys, startup, boot, overtaken, changes, crashes>>

ScopeAsked(op) == IF op.kind = "create" THEN op.scope ELSE skills[op.id].scope

\* Mutant of MayUse: who signed in may use every skill.
MayUseAny(p, op) == op.kind = "create" => Entitled(p, op.scope)

\* require, then require_scope_access.
MayUse(p, op) ==
    op.kind \in {"mint", "revoke"} \/ Entitled(p, ScopeAsked(op))

Check(s) ==
    /\ request[s].at = "check"
    /\ request' = [request EXCEPT ![s] =
                      IF OnSkill(@.op) /\ @.op.id \notin Rows THEN Quiet
                      ELSE IF MayUse(@.who, @.op) THEN [@ EXCEPT !.at = "act"]
                      ELSE Quiet]
    /\ UNCHANGED <<directory, skills, keys, startup, boot, overtaken, counters>>

\* The write of a handler.  What is refused changes nothing.
Write(s, op) ==
    \/ /\ op.kind = "create"
       /\ IF Taken(op.scope, op.manifest.name, NoSkill) THEN UNCHANGED skills
          ELSE \E i \in SkillIds : CreateSkill(i, boot[s].secret, op.scope, op.manifest)
       /\ UNCHANGED keys
    \/ /\ op.kind = "update"
       /\ IF op.id \notin Rows THEN UNCHANGED skills
          ELSE IF Taken(skills[op.id].scope, op.manifest.name, op.id) THEN UNCHANGED skills
          ELSE UpdateSkill(op.id, boot[s].secret, op.manifest)
       /\ UNCHANGED keys
    \/ op.kind = "status" /\ SetStatus(op.id, op.status) /\ UNCHANGED keys
    \/ op.kind = "delete" /\ DeleteSkill(op.id) /\ UNCHANGED keys
    \/ op.kind = "mint" /\ MintKey(op.key, request[s].who) /\ UNCHANGED skills
    \/ op.kind = "revoke" /\ RevokeKey(op.key, request[s].who) /\ UNCHANGED skills

Act(s) ==
    /\ request[s].at = "act"
    /\ Write(s, request[s].op)
    /\ request' = [request EXCEPT ![s] = Quiet]
    /\ overtaken' = overtaken \ {s}
    /\ UNCHANGED <<directory, startup, boot, counters>>

-----------------------------------------------------------------------------
(* The administrator's pages, on a process that is up.  A person has one page  *)
(* at most; the administrator cannot be deactivated.                         *)

Invite == \E p \in Invited : ~Known(p) /\ UpsertPrincipal(p, "internal")
                                /\ UNCHANGED <<groupKey, groupMembers>>
Deactivate == \E p \in Invited, active \in BOOLEAN :
                  SetActive(p, active) /\ UNCHANGED <<groupKey, groupMembers>>
SaveGroup == \E p \in People :           \* Admin alone: the form names them twice
                 UpsertGroup(Ops, <<Admin, p>>) /\ UNCHANGED people
RemoveGroup == groupKey[Ops] # {} /\ DeleteGroup(Ops) /\ UNCHANGED people

Administer ==
    /\ \E s \in Processes : Up(s)
    /\ changes < MaxChanges
    /\ changes' = changes + 1
    /\ Invite \/ Deactivate \/ SaveGroup \/ RemoveGroup
    /\ overtaken' = {s \in Processes : request[s].at = "act"}
    /\ UNCHANGED <<channels, channelMembers, identities, bindings, skills, keys, startup,
                   boot, request, requests, crashes>>

-----------------------------------------------------------------------------

\* A new installation, or one that a process of an older version made, with a
\* skill its group shares.
Init ==
    /\ channels = {} /\ channelMembers = {}
    /\ identities = [a \in Accounts |-> Nobody]
    /\ bindings = [c \in Chats |-> NoScope]
    /\ keys = [k \in Keys |-> NoKey]
    /\ \/ /\ schema = 0 /\ signing = 0
          /\ skills = [i \in SkillIds |-> NoSkill]
          /\ people = [p \in People |-> NoPerson]
          /\ groupKey = [g \in GroupIds |-> {}]
          /\ groupMembers = {}
       \/ /\ schema = Latest - 1 /\ signing = 1
          /\ LET i == CHOOSE j \in SkillIds : TRUE
                 m == CHOOSE n \in Manifests : TRUE
             IN  skills = [j \in SkillIds |->
                    IF j # i THEN NoSkill
                    ELSE [scope |-> GroupScope(Ops), manifest |-> m, status |-> "published",
                          signature |-> Sign(1, GroupScope(Ops), m)]]
          /\ people = [p \in People |-> [kind |-> "internal", active |-> TRUE]]
          /\ groupKey = [g \in GroupIds |-> People]
          /\ groupMembers = GroupIds \X People
    /\ applied = schema /\ generated = signing
    /\ boot = [s \in Processes |-> Down]
    /\ request = [s \in Processes |-> Quiet]
    /\ fresh = {} /\ overtaken = {}
    /\ requests = 0 /\ changes = 0 /\ crashes = 0

Next ==
    \/ \E s \in Processes : Boot(s) \/ Crash(s) \/ Check(s) \/ Act(s)
    \/ \E s \in Processes, p \in People, op \in Asked :
           Arrive(s, p, Session, op) \/ \E k \in Keys : Arrive(s, p, k, op)
    \/ Administer

Spec == Init /\ [][Next]_vars

\* A process that is not up goes on with its boot; one that ended is started
\* again by whatever supervises it.
FairSpec == Spec /\ \A s \in Processes : WF_vars(Boot(s))

-----------------------------------------------------------------------------
(* Properties *)

\* The tables keep their shape: every signature was made with a secret that was
\* generated, the tables are at the version that is recorded, and a process that
\* serves has found them complete and a secret stored.
TypeOK ==
    /\ DirectoryTypeOK
    /\ skills \in [SkillIds -> SkillRow(1..generated) \cup {NoSkill, Gone}]
    /\ keys \in [Keys -> [owner : People, revoked : BOOLEAN] \cup {NoKey}]
    /\ schema \in 0..Latest /\ applied = schema
    /\ signing \in 0..generated
    /\ \A s \in Processes :
          /\ boot[s].at \in {"down", "migrate", "apply", "secret", "store", "admin", "keys", "adopt", "up"}
          /\ boot[s].version \in 0..Latest + 1 /\ boot[s].secret \in 0..generated
          /\ Up(s) => applied = Latest /\ signing # 0 /\ boot[s].secret # 0
          /\ request[s].at \in {"idle", "check", "act"}
          /\ request[s] # Quiet => Up(s) /\ request[s].who \in People /\ request[s].op \in Asked
    /\ fresh \subseteq Processes /\ overtaken \subseteq {s \in Processes : request[s].at = "act"}
    /\ requests \in 0..MaxRequests /\ changes \in 0..MaxChanges /\ crashes \in 0..MaxCrashes

\* A published skill stays visible, to those whose scopes it is in, on every
\* process that serves and after every restart, unless a nearer scope publishes
\* one of the same name, or two first boots raced for the secret.
ScopesOf(p) ==
    <<Personal(p)>> \o SetToSeq({GroupScope(g) : g \in {h \in GroupIds : <<h, p>> \in groupMembers}})
        \o <<Org>>
PublishedStaysVisible ==
    Cardinality(fresh) <= 1 =>
        \A s \in {t \in Processes : Up(t)}, p \in People :
            LET scopes == ScopesOf(p)
                seen   == VisibleForScopes(boot[s].secret, scopes)
            IN  \A i \in Rows, n \in DOMAIN scopes :
                    skills[i].status = "published" /\ skills[i].scope = scopes[n]
                        => \/ i \in seen
                           \/ \E m \in 1..n-1, j \in seen :
                                 /\ skills[j].scope = scopes[m]
                                 /\ skills[j].manifest.name = skills[i].manifest.name

\* "A published skill cannot change under the people it was shared with": what
\* stays published keeps its manifest and its scope.
IsPublished(i) == i \in Rows /\ skills[i].status = "published"
PublishedDoesNotChange ==
    [][\A i \in SkillIds :
          IsPublished(i) /\ IsPublished(i)'
              => skills'[i].manifest = skills[i].manifest /\ skills'[i].scope = skills[i].scope]_vars

\* A key that was revoked stays revoked, also when a process boots with that key
\* in its configuration and has looked for keys before it was adopted.
RevokedStaysRevoked ==
    [][\A k \in Keys : keys[k] # NoKey /\ keys[k].revoked => keys'[k] = keys[k]]_vars

\* Who changes a skill is entitled to its scope when it changes; a change of an
\* administrator is late only for requests that were checked before it.
EntitledWrite(s) ==
    request[s].at = "act" /\ skills' # skills /\ request'[s] = Quiet /\ request[s].op.kind \notin {"mint", "revoke"}
        => \/ s \in overtaken
           \/ boot'[s] = Down
           \/ Entitled(request[s].who, ScopeAsked(request[s].op))
WritesAreEntitled == [][\A s \in Processes : EntitledWrite(s)]_vars

\* Every process comes up in the end, whatever it and the others died of: a
\* migration that two of them tried ends one boot, not all later ones.
EveryProcessComesUp == \A s \in Processes : <>[]Up(s)
=============================================================================
