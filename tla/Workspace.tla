------------------------------ MODULE Workspace ------------------------------
(***************************************************************************)
(* What a turn starts from and what it leaves in its scope: the resolution  *)
(* of resolution.rs, plugin middleware and screening, the secrets of the    *)
(* keychain, the files of the sandbox and the grants of store/acl.rs.       *)
(*                                                                          *)
(* Turns models what happens between the question and the reply; here a     *)
(* turn is its inputs and three of its tools (`execute`, `write`, `share`). *)
(* A turn resolves its scope once and works from that snapshot, while other *)
(* turns share files and people change secrets on their pages.  Prompts,    *)
(* model routing, the confinement of paths and what a command does beyond   *)
(* the files of its workspace are left out.                                 *)
(***************************************************************************)
EXTENDS Integers, FiniteSets, SequencesExt

CONSTANTS
    Scopes,
    Org,           \* the organisation's scope
    Turns,         \* turns in flight at the same time
    Texts,
    Names,         \* keys of the keychain
    Values,
    Unusable,      \* values with a NUL, which no environment can hold
    Paths,         \* paths of files, relative to a workspace
    Basename,      \* Basename[p]: the last component of a path
    Dashed,        \* Dashed[p]: the path with '-' for '/'
    Prefixed,      \* Prefixed[s][n]: the name n behind the scope's id, without its kind
    ScopeRank,     \* the order of scope ids in SQL
    PathRank,      \* and of paths
    Configs,       \* the postures a deployment may start with
    Modules,       \* the number of middleware modules
    MaxParts,      \* bound: parts of an answer of the screening model
    MaxTurns,      \* bound: turns
    MaxCalls,      \* bound: tool calls of a turn
    MaxChanges     \* bound: changes to the keychain

Postures == {"dangerous", "auto", "strict"}
Unset == "unset"
\* Who screens, and whether the binary can run modules (the `wasm` feature).
Config == [floor : Postures \cup {"typo"}, rows : [Scopes -> Postures \cup {Unset}],
           screener : {"plugin", "model"}, host : {"wasm", "native"}]

ASSUME WorkspaceAssumption ==
    /\ Org \in Scopes
    /\ Unusable \subseteq Values
    /\ ScopeRank \in [Scopes -> Nat]
    /\ PathRank \in [Paths -> Nat]
    /\ Configs \subseteq Config
    /\ Modules \in Nat
    /\ {MaxParts, MaxTurns, MaxCalls, MaxChanges} \subseteq Nat

VARIABLES
    config,       \* [org].security_posture, the rows of scope_configs, [plugins]
    keychain,     \* keychain[s][n]: the value of a secret, Missing when there is none
    files,        \* files[s]: the files of the scope's workspace
    grants,       \* the rows of acl_grants
    manifest,     \* manifest[s]: shared/.handles in the scope's sandbox
    transcript,   \* transcript[s]: the rows of the scope's session
    turns,        \* turns[t]: where a turn is
    cleared,      \* history: cleared[s], the texts that passed the screener
    started,      \* turns so far
    changes       \* changes to the keychain so far
vars == <<config, keychain, files, grants, manifest, transcript, turns, cleared, started, changes>>

-----------------------------------------------------------------------------
(* Resolution *)

\* The layers of a scope, widest first: the organisation's is read-only, the
\* scope's own is the one that is written.  Mutant: narrowest first.
LayersReversed(s) == IF s = Org THEN <<Org>> ELSE <<s, Org>>
Layers(s) == IF s = Org THEN <<Org>> ELSE <<Org, s>>

Rank(posture) == CASE posture = "dangerous" -> 0 [] posture = "auto" -> 1 [] OTHER -> 2

\* Mutant of Compose: the scope's row has the last word.
ComposeReplacing(floor, row) == IF row = Unset THEN floor ELSE row
\* `compose_posture`
Compose(floor, row) == IF row # Unset /\ Rank(row) > Rank(floor) THEN row ELSE floor

Posture(s) ==
    LET floor == IF config.floor \in Postures THEN config.floor ELSE "auto"
    IN  Compose(Compose(floor, config.rows[Org]), config.rows[s])

Permissions == {"read", "write"}
Grant == [owner : Scopes, path : Paths, grantee : Scopes, permission : Permissions]
SameGrant(g, h) == g.owner = h.owner /\ g.path = h.path /\ g.grantee = h.grantee

GrantsFor(scopes) == {g \in grants : g.grantee \in scopes}

\* ORDER BY owner_scope_id, ref
Sooner(g, h) ==
    IF g.owner # h.owner THEN ScopeRank[g.owner] < ScopeRank[h.owner]
    ELSE PathRank[g.path] < PathRank[h.path]

\* The rows in that order.  A file granted to two of the scopes is two rows, whose
\* order is open.
Orders(rows) ==
    {order \in [1..Cardinality(rows) -> rows] :
        /\ Range(order) = rows
        /\ \A i, j \in DOMAIN order : i < j => ~Sooner(order[j], order[i])}

\* `to_handle`, and the two longer names for a name that is taken.
ShortName(g) == Basename[g.path]
OwnerName(g) == Prefixed[g.owner][Basename[g.path]]
FullName(g) == Prefixed[g.owner][Dashed[g.path]]

\* Mutant of NameFor: the longer name leaves the owner out.
NameUnowned(taken, g) == IF ShortName(g) \notin taken THEN ShortName(g) ELSE Dashed[g.path]

\* The last name is given without a look at those that are taken.
NameFor(taken, g) ==
    CASE ShortName(g) \notin taken -> ShortName(g)
      [] ShortName(g) \in taken /\ OwnerName(g) \notin taken -> OwnerName(g)
      [] OTHER -> FullName(g)

\* One row after the other, the names of those before it are taken.
NamesOf(order) ==
    LET names[i \in DOMAIN order] == NameFor({names[j] : j \in 1..(i - 1)}, order[i])
    IN  names

Handles(order) ==
    [i \in DOMAIN order |->
        [name |-> NamesOf(order)[i], owner |-> order[i].owner, path |-> order[i].path,
         permission |-> order[i].permission]]

\* Mutant of HandlesFor: every grant there is, to whomever it was given.
HandlesForAll(scopes) == {Handles(order) : order \in Orders(grants)}

HandlesFor(scopes) == {Handles(order) : order \in Orders(GrantsFor(scopes))}

-----------------------------------------------------------------------------
(* Turns *)

Missing == "none"
NoEnv == [n \in Names |-> Missing]
NoTurn == [pc |-> "idle", scope |-> Org, asked |-> "", text |-> "", screens |-> FALSE,
           approves |-> FALSE, handles |-> <<>>, calls |-> 0, unread |-> <<>>, env |-> NoEnv,
           touched |-> {}, share |-> {}]
At(t, pc) == turns[t].pc = pc
Goto(t, pc) == turns' = [turns EXCEPT ![t].pc = pc]

\* `resolve`: what the rest of the turn goes by, whatever changes meanwhile.
Resolve(t, s, text) ==
    /\ At(t, "idle")
    /\ started < MaxTurns
    /\ started' = started + 1
    /\ \E handles \in HandlesFor(Range(Layers(s))) :
          turns' = [turns EXCEPT ![t] = [NoTurn EXCEPT
             !.pc = "provision", !.scope = s, !.asked = text, !.text = text,
             !.screens = Posture(s) = "auto", !.approves = Posture(s) = "strict",
             !.handles = handles]]
    /\ UNCHANGED <<config, keychain, files, grants, manifest, transcript, cleared, changes>>

\* `provision`: without a handle the manifest is left as it was.
Provision(t) ==
    /\ At(t, "provision")
    /\ manifest' = IF turns[t].handles = <<>> THEN manifest
                   ELSE [manifest EXCEPT ![turns[t].scope] = turns[t].handles]
    /\ Goto(t, "rewrite")
    /\ UNCHANGED <<config, keychain, files, grants, transcript, cleared, started, changes>>

\* What a call of a module gives: its response, or a failure when the module is
\* missing or invalid, traps, or writes something else.  Optional fields are sets.
Failure == [ok |-> FALSE, text |-> {}, decision |-> {}]
Response == [ok : BOOLEAN, text : {{}} \cup {{text} : text \in Texts},
             decision : {{}, {"auto"}, {"strict"}, {"other"}}]
Responses == Response \cup {Failure}

\* A binary that cannot run modules has no middleware, and screens with the model.
Middleware == IF config.host = "wasm" THEN 1..Modules ELSE {}
Screener == IF config.host = "wasm" THEN config.screener ELSE "model"

\* A module that fails is skipped, and the last text wins.
Folded(text, responses) ==
    LET rewritten(current, response) ==
            IF response.ok /\ response.text # {} THEN CHOOSE new \in response.text : TRUE
            ELSE current
    IN  FoldLeft(rewritten, text, responses)

\* `apply_turn_middleware`
Rewrite(t) ==
    /\ At(t, "rewrite")
    /\ \E responses \in [Middleware -> Responses] :
          turns' = [turns EXCEPT
             ![t].text = Folded(turns[t].text, responses),
             ![t].pc = IF turns[t].screens THEN "screen" ELSE "record"]
    /\ UNCHANGED <<config, keychain, files, grants, manifest, transcript, cleared, started, changes>>

\* A module that does not say "auto" refuses.
AsVerdict(response) == IF response.ok /\ response.decision = {"auto"} THEN "auto" ELSE "strict"

\* An answer of the screening model: prose and objects.  The first object decides,
\* and one that is no JSON is none.
Parts == {"prose", "broken", "auto", "strict", "other"}
Answers == UNION {[1..n -> Parts] : n \in 0..MaxParts}
FirstObject(answer) ==
    LET objects == SelectSeq(answer, LAMBDA part : part # "prose")
    IN  IF objects = <<>> THEN "broken" ELSE objects[1]

\* `parse_screen_verdict`: an answer without an object is no verdict.
ParseVerdict(answer) ==
    CASE FirstObject(answer) = "broken" -> "unscreened"
      [] FirstObject(answer) = "auto" -> "auto"
      [] OTHER -> "strict"

\* `screen`: a model that cannot be reached, or read, lets the text pass.
Verdicts ==
    IF Screener = "plugin" THEN {AsVerdict(response) : response \in Responses}
    ELSE {"unscreened"} \cup {ParseVerdict(answer) : answer \in Answers}
Quarantined(verdict) == verdict = "strict"

\* Mutant of Screen: what was asked is screened, before the middleware.
ScreenAsked(t, verdict) ==
    /\ At(t, "screen")
    /\ ~Quarantined(verdict)
    /\ cleared' = [cleared EXCEPT ![turns[t].scope] = @ \cup {turns[t].asked}]
    /\ Goto(t, "record")
    /\ UNCHANGED <<config, keychain, files, grants, manifest, transcript, started, changes>>

Screen(t, verdict) ==
    /\ At(t, "screen")
    /\ ~Quarantined(verdict)
    /\ cleared' = [cleared EXCEPT ![turns[t].scope] = @ \cup {turns[t].text}]
    /\ Goto(t, "record")
    /\ UNCHANGED <<config, keychain, files, grants, manifest, transcript, started, changes>>

Add(s, kind, text) == transcript' = [transcript EXCEPT ![s] = Append(@, [kind |-> kind, text |-> text])]

\* A quarantined turn leaves a notice without the text, and the reply refuses.
Refuse(t, verdict) ==
    /\ At(t, "screen")
    /\ Quarantined(verdict)
    /\ Add(turns[t].scope, "system", "")
    /\ turns' = [turns EXCEPT ![t] = NoTurn]
    /\ UNCHANGED <<config, keychain, files, grants, manifest, cleared, started, changes>>

\* The user entry, before anything runs.
Record(t) ==
    /\ At(t, "record")
    /\ Add(turns[t].scope, "user", turns[t].text)
    /\ Goto(t, "run")
    /\ UNCHANGED <<config, keychain, files, grants, manifest, cleared, started, changes>>

\* The harness ends: with an answer, paused or failed (Turns).
Finish(t) ==
    /\ At(t, "run")
    /\ turns' = [turns EXCEPT ![t] = NoTurn]
    /\ UNCHANGED <<config, keychain, files, grants, manifest, transcript, cleared, started, changes>>

-----------------------------------------------------------------------------
(* Tools *)

Calls(t) == At(t, "run") /\ turns[t].calls < MaxCalls

\* `execute`, past its gate (Turns): `materialize` starts on the widest layer.
Execute(t) ==
    /\ Calls(t)
    /\ turns' = [turns EXCEPT ![t] = [turns[t] EXCEPT
          !.pc = "materialize", !.calls = turns[t].calls + 1, !.env = NoEnv, !.touched = {},
          !.unread = Layers(turns[t].scope)]]
    /\ UNCHANGED <<config, keychain, files, grants, manifest, transcript, cleared, started, changes>>

\* One SELECT for each scope: a later one overwrites the keys of an earlier one.
Overlay(env, secrets) == [n \in Names |-> IF secrets[n] = Missing THEN env[n] ELSE secrets[n]]

\* `env_from_keychain`
Exported(env) == [n \in Names |-> IF env[n] \in Unusable THEN Missing ELSE env[n]]

MaterializeLayer(t) ==
    /\ At(t, "materialize")
    /\ LET env == Overlay(turns[t].env, keychain[Head(turns[t].unread)])
           last == Len(turns[t].unread) = 1
       IN  turns' = [turns EXCEPT ![t] = [turns[t] EXCEPT
              !.unread = Tail(turns[t].unread), !.env = IF last THEN Exported(env) ELSE env,
              !.pc = IF last THEN "exec" ELSE "materialize"]]
    /\ UNCHANGED <<config, keychain, files, grants, manifest, transcript, cleared, started, changes>>

\* `exec`: the command may make and remove files of its workspace.
Exec(t) ==
    /\ At(t, "exec")
    /\ \E left \in SUBSET Paths : files' = [files EXCEPT ![turns[t].scope] = left]
    /\ turns' = [turns EXCEPT ![t] = [turns[t] EXCEPT !.pc = "run", !.env = NoEnv, !.touched = {}]]
    /\ UNCHANGED <<config, keychain, grants, manifest, transcript, cleared, started, changes>>

\* The `write` tool.
WriteFile(t, path) ==
    /\ Calls(t)
    /\ files' = [files EXCEPT ![turns[t].scope] = @ \cup {path}]
    /\ turns' = [turns EXCEPT ![t].calls = @ + 1]
    /\ UNCHANGED <<config, keychain, grants, manifest, transcript, cleared, started, changes>>

\* The `share` tool looks for the file, then writes the grant.
Share(t, path, grantee, permission) ==
    /\ Calls(t)
    /\ path \in files[turns[t].scope]
    /\ turns' = [turns EXCEPT ![t] = [turns[t] EXCEPT
          !.calls = turns[t].calls + 1, !.pc = "share",
          !.share = {[owner |-> turns[t].scope, path |-> path, grantee |-> grantee,
                      permission |-> permission]}]]
    /\ UNCHANGED <<config, keychain, files, grants, manifest, transcript, cleared, started, changes>>

\* `grant`: a scope gives itself nothing; granting again changes the permission.
PutGrant(t) ==
    /\ At(t, "share")
    /\ \E g \in turns[t].share :
          grants' = IF g.owner = g.grantee THEN grants
                    ELSE {h \in grants : ~SameGrant(g, h)} \cup {g}
    /\ turns' = [turns EXCEPT ![t] = [turns[t] EXCEPT !.pc = "run", !.share = {}]]
    /\ UNCHANGED <<config, keychain, files, manifest, transcript, cleared, started, changes>>

-----------------------------------------------------------------------------
(* The keychain page *)

\* Turns that are reading secrets remember which ones changed under them.
Change(s, n, value) ==
    /\ changes < MaxChanges
    /\ changes' = changes + 1
    /\ keychain' = [keychain EXCEPT ![s][n] = value]
    /\ turns' = [t \in Turns |->
          IF turns[t].pc \in {"materialize", "exec"}
          THEN [turns[t] EXCEPT !.touched = turns[t].touched \cup {n}] ELSE turns[t]]
    /\ UNCHANGED <<config, files, grants, manifest, transcript, cleared, started>>

PutSecret(s, n, value) == value \in Values /\ Change(s, n, value)
DeleteSecret(s, n) == keychain[s][n] # Missing /\ Change(s, n, Missing)

-----------------------------------------------------------------------------
Init ==
    /\ config \in Configs
    /\ keychain = [s \in Scopes |-> NoEnv]
    /\ files = [s \in Scopes |-> {}]
    /\ grants = {}
    /\ manifest = [s \in Scopes |-> <<>>]
    /\ transcript = [s \in Scopes |-> <<>>]
    /\ turns = [t \in Turns |-> NoTurn]
    /\ cleared = [s \in Scopes |-> {}]
    /\ started = 0
    /\ changes = 0

Next ==
    \/ \E t \in Turns :
          \/ \E s \in Scopes, text \in Texts : Resolve(t, s, text)
          \/ Provision(t) \/ Rewrite(t)
          \/ \E verdict \in Verdicts : Screen(t, verdict) \/ Refuse(t, verdict)
          \/ Record(t) \/ Finish(t)
          \/ Execute(t) \/ MaterializeLayer(t) \/ Exec(t)
          \/ \E path \in Paths :
                \/ WriteFile(t, path)
                \/ \E grantee \in Scopes, permission \in Permissions :
                      Share(t, path, grantee, permission)
          \/ PutGrant(t)
    \/ \E s \in Scopes, n \in Names :
          (\E value \in Values : PutSecret(s, n, value)) \/ DeleteSecret(s, n)

Spec == Init /\ [][Next]_vars

-----------------------------------------------------------------------------
(* Properties *)

Pcs == {"idle", "provision", "rewrite", "screen", "record", "run", "materialize", "exec", "share"}
HandleOK(h) == h.owner \in Scopes /\ h.path \in Paths /\ h.permission \in Permissions

\* The tables hold rows of their types, one grant for an owner, a file and a
\* grantee (the key of acl_grants).
TypeOK ==
    /\ config \in Configs
    /\ keychain \in [Scopes -> [Names -> Values \cup {Missing}]]
    /\ files \in [Scopes -> SUBSET Paths]
    /\ grants \subseteq Grant
    /\ \A g, h \in grants : SameGrant(g, h) => g = h
    /\ \A s \in Scopes :
          /\ \A h \in Range(manifest[s]) : HandleOK(h)
          /\ cleared[s] \subseteq Texts
          /\ \A entry \in Range(transcript[s]) : entry.kind = "user" => entry.text \in Texts
    /\ \A t \in Turns :
          /\ turns[t].pc \in Pcs /\ turns[t].scope \in Scopes
          /\ turns[t].env \in [Names -> Values \cup {Missing}]
          /\ turns[t].share \subseteq Grant

Running(t) == turns[t].pc \in {"run", "materialize", "exec", "share"}

\* In a scope that screens, the text a turn runs on and every question on the
\* transcript, which later turns read as their history, is a text that itself went
\* to the screener and passed: not the one it was rewritten from, and never one
\* that was refused (orchestrator.rs, "before the model ever sees the text").
ReadsWhatWasScreened ==
    \A s \in Scopes : Posture(s) = "auto" =>
        /\ \A entry \in Range(transcript[s]) : entry.kind = "user" => entry.text \in cleared[s]
        /\ \A t \in Turns : Running(t) /\ turns[t].scope = s => turns[t].text \in cleared[s]

\* The deployment, the organisation's row and the scope's row can each ask for
\* protection, and none can take it away from another: unless all of them are
\* without (a posture that cannot be read is not), a turn runs only on a text that
\* was screened or with every tool call waiting for a person.
PostureNeverLoosens ==
    \A t \in Turns :
        LET s == turns[t].scope
        IN  Running(t) /\ ~({config.floor, config.rows[Org], config.rows[s]} \subseteq {"dangerous", Unset}) =>
                turns[t].approves \/ turns[t].text \in cleared[s]

\* What a command finds in its environment under a name nobody changed while the
\* layers were read, one after the other: the value of the scope's own secret,
\* else the organisation's, and nothing of any other scope.
EnvironmentIsNearest ==
    \A t \in Turns : At(t, "exec") =>
        \A n \in Names \ turns[t].touched :
            LET own == keychain[turns[t].scope][n]
                nearest == IF own = Missing THEN keychain[Org][n] ELSE own
            IN  turns[t].env[n] = (IF nearest \in Unusable THEN Missing ELSE nearest)

\* What a turn knows of other scopes' files, from its resolution on, and what the
\* manifest tells the turns after it, was given to the scope or to the
\* organisation, in whatever order turns resolve, share and write the manifest.
\* Of what it was given, two files go by one name only where the longest name of
\* the later one is, as a text, a name of the earlier one: nothing else lets one
\* "shadow the first" (acl.rs).
Given(s, h) ==
    \E g \in GrantsFor(Range(Layers(s))) : g.owner = h.owner /\ g.path = h.path
HandlesNameWhatWasGiven ==
    /\ \A s \in Scopes : \A h \in Range(manifest[s]) : Given(s, h)
    /\ \A t \in Turns : \A h \in Range(turns[t].handles) : Given(turns[t].scope, h)
    /\ \A s \in Scopes : \A order \in Orders(GrantsFor(Range(Layers(s)))) :
          \A i, j \in DOMAIN order :
             i < j /\ Handles(order)[i].name = Handles(order)[j].name =>
                FullName(order[j]) \in
                   {ShortName(order[i]), OwnerName(order[i]), FullName(order[i])}
=============================================================================
