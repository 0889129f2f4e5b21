---------------------------- MODULE ServersProofs ----------------------------
(***************************************************************************)
(* What TLAPS proves of Servers: for any number of processes, keys, skills,  *)
(* requests, changes and crashes, what was revoked stays revoked and what is *)
(* published stays what it was and where it was, only those who may write    *)
(* do, and who serves has a complete schema and a secret.                    *)
(***************************************************************************)
EXTENDS Servers, FiniteSetTheorems, WellFoundedInduction, TLAPS

-----------------------------------------------------------------------------
(* The inductive invariant: the tables have a row or none for every key and  *)
(* skill, and the row of a skill has the fields a row has.                   *)

Keyed == DOMAIN keys = Keys

IsRow(r) ==
    r = [scope |-> r.scope, manifest |-> r.manifest, status |-> r.status,
         signature |-> r.signature]
Shelved ==
    /\ DOMAIN skills = SkillIds
    /\ \A i \in Rows : IsRow(skills[i])

Tables == Keyed /\ Shelved

\* What one step does to keys and to skills.
RevokedKept ==
    \A k \in Keys : keys[k] # NoKey /\ keys[k].revoked => keys'[k] = keys[k]
PublishedKept ==
    \A i \in SkillIds :
        IsPublished(i) /\ IsPublished(i)'
            => skills'[i].manifest = skills[i].manifest /\ skills'[i].scope = skills[i].scope

KeysKept == Keyed' /\ RevokedKept
SkillsKept == Shelved' /\ PublishedKept

-----------------------------------------------------------------------------
(* The store of keys *)

LEMMA KeysAlone ==
    ASSUME Keyed, UNCHANGED keys
    PROVE  KeysKept
BY DEF Keyed, KeysKept, RevokedKept

\* A key is minted where there is no row.
LEMMA Minting ==
    ASSUME Keyed, NEW k, NEW owner, MintKey(k, owner)
    PROVE  KeysKept
BY DEF Keyed, KeysKept, RevokedKept, MintKey

\* Only a live key is written by a revocation.
LEMMA Revoking ==
    ASSUME Keyed, NEW k, NEW who, RevokeKey(k, who)
    PROVE  KeysKept
<1>1. CASE Live(k) /\ keys[k].owner = who
  <2>1. keys' = [keys EXCEPT ![k].revoked = TRUE]
    BY <1>1 DEF RevokeKey
  <2>2. ASSUME NEW j \in Keys, keys[j].revoked
        PROVE  keys'[j] = keys[j]
    <3>1. j # k
      BY <1>1, <2>2, Zenon DEF Live
    <3> QED BY <2>1, <3>1 DEF Keyed
  <2> QED BY <2>1, <2>2 DEF Keyed, KeysKept, RevokedKept
<1>2. CASE ~(Live(k) /\ keys[k].owner = who)
  BY <1>2, KeysAlone DEF RevokeKey
<1> QED BY <1>1, <1>2

\* A row that exists, revoked or not, is not adopted again, whatever the boot
\* saw when it looked.
LEMMA Adopting ==
    ASSUME Keyed, NEW k, NEW owner, AdoptKey(k, owner)
    PROVE  KeysKept
BY DEF Keyed, KeysKept, RevokedKept, AdoptKey

-----------------------------------------------------------------------------
(* The store of skills *)

LEMMA SkillsAlone ==
    ASSUME Shelved, UNCHANGED skills
    PROVE  SkillsKept
BY DEF Shelved, SkillsKept, PublishedKept, IsPublished, Rows

LEMMA Creating ==
    ASSUME Shelved, NEW i \in SkillIds, NEW secret, NEW scope, NEW manifest,
           CreateSkill(i, secret, scope, manifest)
    PROVE  SkillsKept
<1> DEFINE row == [scope |-> scope, manifest |-> manifest, status |-> "draft",
                   signature |-> Sign(secret, scope, manifest)]
<1>1. skills[i] = NoSkill /\ skills' = [skills EXCEPT ![i] = row]
  BY DEF CreateSkill
<1>2. IsRow(row)
  BY DEF IsRow
<1>3. Shelved'
  BY <1>1, <1>2 DEF Shelved, Rows
<1>4. PublishedKept
  BY <1>1 DEF Shelved, PublishedKept, IsPublished, Rows
<1> QED BY <1>3, <1>4 DEF SkillsKept

\* What an edit leaves behind is a draft.
LEMMA Edited ==
    ASSUME NEW r, IsRow(r), NEW manifest, NEW signature
    PROVE  LET new == [r EXCEPT !.manifest = manifest, !.status = "draft",
                                !.signature = signature]
           IN  IsRow(new) /\ new.status = "draft"
<1> DEFINE one == [r EXCEPT !.manifest = manifest]
           two == [one EXCEPT !.status = "draft"]
           three == [two EXCEPT !.signature = signature]
<1>1. one = [scope |-> r.scope, manifest |-> manifest, status |-> r.status,
             signature |-> r.signature]
  BY DEF IsRow
<1>2. two = [scope |-> r.scope, manifest |-> manifest, status |-> "draft",
             signature |-> r.signature]
  <2> HIDE DEF one
  <2> QED BY <1>1
<1>3. three = [scope |-> r.scope, manifest |-> manifest, status |-> "draft",
               signature |-> signature]
  <2> HIDE DEF two
  <2> QED BY <1>2
<1>4. IsRow(three) /\ three.status = "draft"
  <2> HIDE DEF three
  <2> QED BY <1>3 DEF IsRow
<1>5. three = [r EXCEPT !.manifest = manifest, !.status = "draft", !.signature = signature]
  OBVIOUS
<1> QED BY <1>4, <1>5, Zenon

LEMMA Updating ==
    ASSUME Shelved, NEW i, NEW secret, NEW manifest,
           UpdateSkill(i, secret, manifest)
    PROVE  SkillsKept
<1> DEFINE new == [skills[i] EXCEPT !.manifest = manifest, !.status = "draft",
                          !.signature = Sign(secret, skills[i].scope, manifest)]
<1>1. i \in SkillIds /\ i \in Rows /\ skills' = [skills EXCEPT ![i] = new]
  BY DEF UpdateSkill, Rows
<1>2. IsRow(skills[i])
  BY <1>1 DEF Shelved
<1>3. IsRow(new) /\ new.status = "draft"
  BY <1>2, Edited, Zenon
<1>4. Shelved'
  BY <1>1, <1>3 DEF Shelved, Rows
<1>5. PublishedKept
  <2>1. ASSUME NEW j \in SkillIds, IsPublished(j)'
        PROVE  skills'[j] = skills[j]
    BY <1>1, <1>3, <2>1 DEF Shelved, IsPublished
  <2> QED BY <2>1 DEF PublishedKept
<1> QED BY <1>4, <1>5 DEF SkillsKept

LEMMA Reviewing ==
    ASSUME Shelved, NEW i, NEW status, SetStatus(i, status)
    PROVE  SkillsKept
<1>1. CASE i \in Rows
  <2> DEFINE new == [skills[i] EXCEPT !.status = status]
  <2>1. i \in SkillIds /\ i \in Rows /\ skills' = [skills EXCEPT ![i] = new]
    BY <1>1 DEF SetStatus, Rows
  <2>2. IsRow(skills[i])
    BY <2>1 DEF Shelved
  <2>3. IsRow(new) /\ new.manifest = skills[i].manifest /\ new.scope = skills[i].scope
    BY <2>2 DEF IsRow
  <2>4. Shelved'
    BY <2>1, <2>3 DEF Shelved, Rows
  <2>5. PublishedKept
    BY <2>1, <2>3 DEF Shelved, PublishedKept
  <2> QED BY <2>4, <2>5 DEF SkillsKept
<1>2. CASE i \notin Rows
  BY <1>2, SkillsAlone DEF SetStatus
<1> QED BY <1>1, <1>2

LEMMA Deleting ==
    ASSUME Shelved, NEW i, DeleteSkill(i)
    PROVE  SkillsKept
<1>1. CASE i \in Rows
  <2>1. skills' = [skills EXCEPT ![i] = Gone]
    BY <1>1 DEF DeleteSkill
  <2>2. Shelved'
    BY <2>1 DEF Shelved, Rows
  <2>3. PublishedKept
    BY <2>1 DEF Shelved, PublishedKept, IsPublished, Rows
  <2> QED BY <2>2, <2>3 DEF SkillsKept
<1>2. CASE i \notin Rows
  BY <1>2, SkillsAlone DEF DeleteSkill
<1> QED BY <1>1, <1>2

-----------------------------------------------------------------------------
(* Init and the steps *)

LEMMA InitTables == Init => Tables
<1> SUFFICES ASSUME Init
             PROVE  Tables
  OBVIOUS
<1>1. Keyed
  BY DEF Init, Keyed
<1>2. ASSUME skills = [i \in SkillIds |-> NoSkill]
      PROVE  Shelved
  BY <1>2 DEF Shelved, Rows
<1>3. ASSUME NEW i, NEW m,
             skills = [j \in SkillIds |->
                         IF j # i THEN NoSkill
                         ELSE [scope |-> GroupScope(Ops), manifest |-> m, status |-> "published",
                               signature |-> Sign(1, GroupScope(Ops), m)]]
      PROVE  Shelved
  BY <1>3 DEF Shelved, IsRow, Rows
<1>4. CASE schema = 0 /\ skills = [i \in SkillIds |-> NoSkill]
  BY <1>1, <1>2, <1>4 DEF Tables
<1>5. CASE LET i == CHOOSE j \in SkillIds : TRUE
               m == CHOOSE n \in Manifests : TRUE
           IN  skills = [j \in SkillIds |->
                  IF j # i THEN NoSkill
                  ELSE [scope |-> GroupScope(Ops), manifest |-> m, status |-> "published",
                        signature |-> Sign(1, GroupScope(Ops), m)]]
  BY <1>1, <1>3, <1>5, Zenon DEF Tables
<1> QED BY <1>4, <1>5 DEF Init

\* A boot adopts a key or leaves the keys alone, and touches no skill.
LEMMA Booting ==
    ASSUME Tables, NEW s \in Processes, Boot(s)
    PROVE  KeysKept /\ SkillsKept
<1> USE DEF Tables
<1>1. SkillsKept
  BY SkillsAlone DEF Boot
<1>2. CASE AdoptBootstrapKey(s)
  BY <1>1, <1>2, Adopting DEF AdoptBootstrapKey
<1>3. CASE ~AdoptBootstrapKey(s)
  <2>1. UNCHANGED keys
    BY <1>3 DEF Boot, Start, CheckMigration, ApplyMigration, ReadSecret, StoreSecret,
                RegisterAdmin, CheckKeys
  <2> QED BY <1>1, <2>1, KeysAlone
<1> QED BY <1>2, <1>3

\* The write of a handler.
LEMMA Writing ==
    ASSUME Tables, NEW s \in Processes, NEW op, Write(s, op)
    PROVE  KeysKept /\ SkillsKept
<1> USE DEF Tables
<1>1. CASE op.kind = "create" /\ UNCHANGED keys
           /\ (UNCHANGED skills
                 \/ \E i \in SkillIds : CreateSkill(i, boot[s].secret, op.scope, op.manifest))
  BY <1>1, KeysAlone, SkillsAlone, Creating
<1>2. CASE op.kind = "update" /\ UNCHANGED keys
           /\ (UNCHANGED skills \/ UpdateSkill(op.id, boot[s].secret, op.manifest))
  BY <1>2, KeysAlone, SkillsAlone, Updating
<1>3. CASE SetStatus(op.id, op.status) /\ UNCHANGED keys
  BY <1>3, KeysAlone, Reviewing
<1>4. CASE DeleteSkill(op.id) /\ UNCHANGED keys
  BY <1>4, KeysAlone, Deleting
<1>5. CASE MintKey(op.key, request[s].who) /\ UNCHANGED skills
  BY <1>5, SkillsAlone, Minting
<1>6. CASE RevokeKey(op.key, request[s].who) /\ UNCHANGED skills
  BY <1>6, SkillsAlone, Revoking
<1> QED BY <1>1, <1>2, <1>3, <1>4, <1>5, <1>6, Zenon DEF Write

LEMMA Step ==
    ASSUME Tables, [Next]_vars
    PROVE  KeysKept /\ SkillsKept
<1>1. ASSUME NEW s \in Processes, Boot(s)
      PROVE  KeysKept /\ SkillsKept
  BY <1>1, Booting
<1>2. ASSUME NEW s \in Processes, Act(s)
      PROVE  KeysKept /\ SkillsKept
  BY <1>2, Writing DEF Act
<1>3. ASSUME UNCHANGED <<skills, keys>>
      PROVE  KeysKept /\ SkillsKept
  BY <1>3, KeysAlone, SkillsAlone DEF Tables
<1>4. ASSUME NEW s \in Processes, Crash(s) \/ Check(s)
      PROVE  UNCHANGED <<skills, keys>>
  BY <1>4 DEF Crash, Check
<1>5. ASSUME NEW s \in Processes, NEW p \in People, NEW op \in Asked,
             Arrive(s, p, Session, op) \/ \E k \in Keys : Arrive(s, p, k, op)
      PROVE  UNCHANGED <<skills, keys>>
  BY <1>5 DEF Arrive
<1>6. ASSUME Administer
      PROVE  UNCHANGED <<skills, keys>>
  BY <1>6 DEF Administer
<1>7. ASSUME UNCHANGED vars
      PROVE  UNCHANGED <<skills, keys>>
  BY <1>7 DEF vars
<1> QED BY <1>1, <1>2, <1>3, <1>4, <1>5, <1>6, <1>7, Zenon DEF Next

-----------------------------------------------------------------------------
(* Who writes a skill: the invariant                                        *)

SkillsTyped == skills \in [SkillIds -> SkillRow(Nat) \cup {NoSkill, Gone}]

\* The secret a process signs with is a number.
Stages ==
    [at : {"down", "migrate", "apply", "secret", "store", "admin", "keys", "adopt", "up"},
     version : Nat, secret : Nat]
SecretsOK ==
    /\ generated \in Nat /\ signing \in Nat
    /\ boot \in [Processes -> Stages]

\* A handler works on what can be asked for, and on an id that was given out: no
\* skill will be made under it any more.
Busy(r) == r.at \in {"check", "act"}
RequestOK(r) ==
    /\ r = [at |-> r.at, who |-> r.who, op |-> r.op]
    /\ r # Quiet => Busy(r)
    /\ Busy(r) => /\ r.who \in People
                  /\ r.op \in Asked
                  /\ OnSkill(r.op) => skills[r.op.id] # NoSkill

\* Past its check and not overtaken, whoever writes to a skill there is may use it.
Writes(op) == op.kind \notin {"mint", "revoke"}
MayWrite(r) ==
    Writes(r.op) /\ (OnSkill(r.op) => r.op.id \in Rows) => Entitled(r.who, ScopeAsked(r.op))

WriteInv ==
    /\ people \in [People -> Person]
    /\ SkillsTyped
    /\ SecretsOK
    /\ DOMAIN request = Processes
    /\ \A s \in Processes : RequestOK(request[s])
    /\ \A s \in Processes \ overtaken : request[s].at = "act" => MayWrite(request[s])

-----------------------------------------------------------------------------
(* What the rest of the system may do to a request that was checked          *)

\* No id is given out twice, and a skill stays in its scope.
SkillsStay ==
    /\ \A i \in SkillIds : skills[i] # NoSkill =>
          /\ skills'[i] # NoSkill
          /\ i \in Rows' => i \in Rows /\ skills'[i].scope = skills[i].scope

LEMMA NoRow == NoSkill \notin SkillRow(Nat) /\ Gone \notin SkillRow(Nat) /\ NoSkill # Gone
BY ServersAssumption, SkillAssumption

LEMMA ScopesAsked == SkillScopes \subseteq Scopes
<1>1. GroupScope(Ops) \in SharedScopes
  BY ServersAssumption DEF SharedScopes
<1> QED BY <1>1 DEF SkillScopes, Scopes

\* What can be asked for, by its kind.
LEMMA AskedIs ==
    ASSUME NEW op \in Asked
    PROVE  /\ op.kind \in {"create", "update", "status", "delete", "mint", "revoke"}
           /\ op.kind = "create" => op.scope \in Scopes /\ op.manifest \in Manifests
           /\ op.kind = "update" => op.id \in SkillIds /\ op.manifest \in Manifests
           /\ op.kind = "status" => op.id \in SkillIds /\ op.status \in Statuses
           /\ op.kind = "delete" => op.id \in SkillIds
<1>1. CASE op \in [kind : {"create"}, scope : SkillScopes, manifest : Manifests]
  BY <1>1, ScopesAsked
<1>2. CASE op \in [kind : {"update"}, id : SkillIds, manifest : Manifests]
  BY <1>2
<1>3. CASE op \in [kind : {"status"}, id : SkillIds, status : {"published", "archived"}]
  BY <1>3 DEF Statuses
<1>4. CASE op \in [kind : {"delete"}, id : SkillIds]
  BY <1>4
<1>5. CASE op \in [kind : {"mint", "revoke"}, key : Keys]
  BY <1>5
<1> QED BY <1>1, <1>2, <1>3, <1>4, <1>5 DEF Asked

LEMMA CreatingStays ==
    ASSUME SkillsTyped, NEW i \in SkillIds, NEW secret \in Nat, NEW scope \in Scopes,
           NEW manifest \in Manifests, CreateSkill(i, secret, scope, manifest)
    PROVE  SkillsTyped' /\ SkillsStay
<1> DEFINE row == [scope |-> scope, manifest |-> manifest, status |-> "draft",
                   signature |-> Sign(secret, scope, manifest)]
<1>1. skills[i] = NoSkill /\ skills' = [skills EXCEPT ![i] = row]
  BY DEF CreateSkill
<1>2. row \in SkillRow(Nat)
  BY DEF SkillRow, Sign, Statuses
<1> HIDE DEF row
<1> QED BY <1>1, <1>2 DEF SkillsTyped, SkillsStay, Rows

LEMMA UpdatingStays ==
    ASSUME SkillsTyped, NEW i \in SkillIds, NEW secret \in Nat, NEW manifest \in Manifests,
           UpdateSkill(i, secret, manifest)
    PROVE  SkillsTyped' /\ SkillsStay
<1> DEFINE new == [skills[i] EXCEPT !.manifest = manifest, !.status = "draft",
                          !.signature = Sign(secret, skills[i].scope, manifest)]
<1>1. i \in Rows /\ skills' = [skills EXCEPT ![i] = new]
  BY DEF UpdateSkill
<1>2. skills[i] \in SkillRow(Nat)
  BY <1>1 DEF SkillsTyped, Rows
<1>3. new \in SkillRow(Nat) /\ new.scope = skills[i].scope
  BY <1>2 DEF SkillRow, Sign, Statuses
<1> HIDE DEF new
<1> QED BY <1>1, <1>3, NoRow DEF SkillsTyped, SkillsStay, Rows

LEMMA ReviewingStays ==
    ASSUME SkillsTyped, NEW i \in SkillIds, NEW status \in Statuses, SetStatus(i, status)
    PROVE  SkillsTyped' /\ SkillsStay
<1>1. CASE i \in Rows
  <2> DEFINE new == [skills[i] EXCEPT !.status = status]
  <2>1. skills' = [skills EXCEPT ![i] = new]
    BY <1>1 DEF SetStatus
  <2>2. skills[i] \in SkillRow(Nat)
    BY <1>1 DEF SkillsTyped, Rows
  <2>3. new \in SkillRow(Nat) /\ new.scope = skills[i].scope
    BY <2>2 DEF SkillRow
  <2> HIDE DEF new
  <2> QED BY <1>1, <2>1, <2>3, NoRow DEF SkillsTyped, SkillsStay, Rows
<1>2. CASE i \notin Rows
  BY <1>2 DEF SetStatus, SkillsTyped, SkillsStay, Rows
<1> QED BY <1>1, <1>2

LEMMA DeletingStays ==
    ASSUME SkillsTyped, NEW i \in SkillIds, DeleteSkill(i)
    PROVE  SkillsTyped' /\ SkillsStay
<1>1. CASE i \in Rows
  <2>1. skills' = [skills EXCEPT ![i] = Gone]
    BY <1>1 DEF DeleteSkill
  <2> QED BY <2>1, NoRow DEF SkillsTyped, SkillsStay, Rows
<1>2. CASE i \notin Rows
  BY <1>2 DEF DeleteSkill, SkillsTyped, SkillsStay, Rows
<1> QED BY <1>1, <1>2

LEMMA NothingStays ==
    ASSUME SkillsTyped, UNCHANGED skills
    PROVE  SkillsTyped' /\ SkillsStay
BY DEF SkillsTyped, SkillsStay, Rows

\* The write of a handler, and what makes it one: the skill is there.
LEMMA WritingStays ==
    ASSUME WriteInv, NEW s \in Processes, NEW op \in Asked, Write(s, op)
    PROVE  /\ SkillsTyped' /\ SkillsStay
           /\ skills' # skills /\ OnSkill(op) => op.id \in Rows
<1>0. SkillsTyped /\ boot[s].secret \in Nat
  BY DEF WriteInv, SecretsOK, Stages
<1>1. ASSUME UNCHANGED skills
      PROVE  /\ SkillsTyped' /\ SkillsStay
             /\ skills' # skills /\ OnSkill(op) => op.id \in Rows
  BY <1>0, <1>1, NothingStays
<1>2. CASE op.kind = "create"
           /\ \E i \in SkillIds : CreateSkill(i, boot[s].secret, op.scope, op.manifest)
  BY <1>0, <1>2, AskedIs, CreatingStays DEF OnSkill
<1>3. CASE op.kind = "update" /\ op.id \in Rows /\ UpdateSkill(op.id, boot[s].secret, op.manifest)
  BY <1>0, <1>3, AskedIs, UpdatingStays
<1>4. CASE op.kind = "status" /\ SetStatus(op.id, op.status)
  <2>1. SkillsTyped' /\ SkillsStay
    BY <1>0, <1>4, AskedIs, ReviewingStays
  <2> QED BY <1>4, <2>1 DEF SetStatus
<1>5. CASE op.kind = "delete" /\ DeleteSkill(op.id)
  <2>1. SkillsTyped' /\ SkillsStay
    BY <1>0, <1>5, AskedIs, DeletingStays
  <2> QED BY <1>5, <2>1 DEF DeleteSkill
<1> QED BY <1>1, <1>2, <1>3, <1>4, <1>5 DEF Write

\* Nobody loses a scope.
NobodyLoses ==
    \A p \in People : \A scope : Entitled(p, scope) => (Entitled(p, scope))'

LEMMA SameDirectory ==
    ASSUME UNCHANGED directory
    PROVE  NobodyLoses
BY DEF NobodyLoses, Entitled, directory

LEMMA Registering ==
    ASSUME people \in [People -> Person], UpsertPrincipal(Admin, "internal"),
           UNCHANGED <<channelMembers, groupMembers>>
    PROVE  people' \in [People -> Person] /\ NobodyLoses
<1>1. Admin \in People /\ people[Admin] \in Person
  BY ServersAssumption
<1> DEFINE row == IF Known(Admin) THEN [people[Admin] EXCEPT !.kind = "internal"]
                  ELSE [kind |-> "internal", active |-> TRUE]
<1>2. people' = [people EXCEPT ![Admin] = row]
  BY DEF UpsertPrincipal
<1>3. row \in Person /\ row.kind = "internal" /\ (people[Admin].active => row.active)
  <2>1. CASE Known(Admin)
    <3>1. people[Admin] \in [kind : Kinds, active : BOOLEAN]
      BY <1>1, <2>1 DEF Person, Known
    <3> QED BY <2>1, <3>1 DEF Person, Kinds
  <2>2. CASE ~Known(Admin)
    BY <2>2 DEF Person, Kinds
  <2> QED BY <2>1, <2>2
<1> HIDE DEF row
<1>4. people' \in [People -> Person]
  BY <1>2, <1>3
<1>5. ASSUME NEW p \in People, NEW scope, Entitled(p, scope)
      PROVE  (Entitled(p, scope))'
  <2>1. CASE p = Admin
    BY <1>1, <1>2, <1>3, <1>5, <2>1 DEF Entitled
  <2>2. CASE p # Admin
    <3>1. people'[p] = people[p]
      BY <1>2, <2>2
    <3> QED BY <1>5, <3>1 DEF Entitled
  <2> QED BY <2>1, <2>2
<1> QED BY <1>4, <1>5 DEF NobodyLoses

\* A request that nobody touches is still one, and who was entitled still is.
LEMMA RequestStays ==
    ASSUME SkillsTyped, SkillsStay, NEW r, RequestOK(r)
    PROVE  /\ (RequestOK(r))'
           /\ NobodyLoses /\ r.at = "act" /\ MayWrite(r) => (MayWrite(r))'
<1>1. Busy(r) /\ OnSkill(r.op) => r.op.id \in SkillIds
  BY AskedIs DEF RequestOK, OnSkill
<1>2. (RequestOK(r))'
  BY <1>1 DEF RequestOK, SkillsStay, Busy
<1>3. ASSUME NobodyLoses, r.at = "act", MayWrite(r), Writes(r.op),
             OnSkill(r.op) => r.op.id \in Rows'
      PROVE  (Entitled(r.who, ScopeAsked(r.op)))'
  <2>1. Busy(r) /\ r.who \in People /\ r.op \in Asked
    BY <1>3 DEF RequestOK, Busy
  <2>2. CASE OnSkill(r.op)
    <3>1. r.op.id \in Rows /\ skills'[r.op.id].scope = skills[r.op.id].scope
      BY <1>1, <1>3, <2>1, <2>2 DEF SkillsStay, RequestOK
    <3>2. ScopeAsked(r.op) = skills[r.op.id].scope /\ (ScopeAsked(r.op))' = skills[r.op.id].scope
      BY <2>2, <3>1 DEF ScopeAsked, OnSkill
    <3>3. Entitled(r.who, skills[r.op.id].scope)
      BY <1>3, <2>2, <3>1, <3>2 DEF MayWrite
    <3> QED BY <1>3, <2>1, <3>2, <3>3 DEF NobodyLoses, Entitled
  <2>3. CASE ~OnSkill(r.op)
    <3>1. r.op.kind = "create"
      BY <1>3, <2>1, <2>3, AskedIs DEF Writes, OnSkill
    <3>2. ScopeAsked(r.op) = r.op.scope /\ (ScopeAsked(r.op))' = r.op.scope
      BY <3>1 DEF ScopeAsked
    <3>3. Entitled(r.who, r.op.scope)
      BY <1>3, <2>3, <3>2 DEF MayWrite
    <3> QED BY <1>3, <2>1, <3>2, <3>3 DEF NobodyLoses, Entitled
  <2> QED BY <2>2, <2>3
<1> QED BY <1>2, <1>3 DEF MayWrite

-----------------------------------------------------------------------------
(* Who writes a skill: the steps                                            *)

\* The request of one process moves on, those of the others stay.
LEMMA OneRequest ==
    ASSUME WriteInv, people' \in [People -> Person], SkillsTyped', SkillsStay, SecretsOK',
           NobodyLoses, NEW s \in Processes, NEW r, (RequestOK(r))',
           overtaken' = overtaken \/ overtaken' = overtaken \ {s},
           s \notin overtaken' /\ r.at = "act" => (MayWrite(r))',
           request' = [request EXCEPT ![s] = r]
    PROVE  WriteInv'
<1>1. request'[s] = r /\ \A t \in Processes \ {s} : request'[t] = request[t]
  BY DEF WriteInv
<1>2. ASSUME NEW t \in Processes PROVE (RequestOK(request[t]))'
  <2>1. CASE t = s
    BY <1>1, <2>1
  <2>2. CASE t # s
    <3>1. PICK q : q = request[t]
      OBVIOUS
    <3>2. (RequestOK(q))'
      BY <3>1, RequestStays DEF WriteInv
    <3> QED BY <1>1, <2>2, <3>1, <3>2
  <2> QED BY <2>1, <2>2
<1>3. ASSUME NEW t \in Processes, t \notin overtaken', request'[t].at = "act"
      PROVE  (MayWrite(request[t]))'
  <2>1. CASE t = s
    BY <1>1, <1>3, <2>1
  <2>2. CASE t # s
    <3>1. PICK q : q = request[t]
      OBVIOUS
    <3>2. t \notin overtaken /\ q.at = "act"
      BY <1>1, <1>3, <2>2, <3>1
    <3>3. MayWrite(q) /\ RequestOK(q)
      BY <3>1, <3>2 DEF WriteInv
    <3>4. (MayWrite(q))'
      BY <3>2, <3>3, RequestStays DEF WriteInv
    <3> QED BY <1>1, <2>2, <3>1, <3>4
  <2> QED BY <2>1, <2>2
<1>4. DOMAIN request' = Processes
  BY DEF WriteInv
<1> QED BY <1>2, <1>3, <1>4 DEF WriteInv

LEMMA QuietIsOK == RequestOK(Quiet) /\ (RequestOK(Quiet))' /\ Quiet.at = "idle"
BY DEF RequestOK, Quiet, Busy

\* Where every request stays.
LEMMA SameRequests ==
    ASSUME WriteInv, people' \in [People -> Person], SkillsTyped', SkillsStay, SecretsOK',
           NobodyLoses, UNCHANGED <<request, overtaken>>
    PROVE  WriteInv'
<1>1. ASSUME NEW t \in Processes PROVE (RequestOK(request[t]))'
  <2>1. PICK q : q = request[t]
    OBVIOUS
  <2>2. (RequestOK(q))'
    BY <2>1, RequestStays DEF WriteInv
  <2> QED BY <2>1, <2>2
<1>2. ASSUME NEW t \in Processes \ overtaken, request[t].at = "act"
      PROVE  (MayWrite(request[t]))'
  <2>1. PICK q : q = request[t]
    OBVIOUS
  <2>2. MayWrite(q) /\ RequestOK(q)
    BY <1>2, <2>1 DEF WriteInv
  <2>3. (MayWrite(q))'
    BY <1>2, <2>1, <2>2, RequestStays DEF WriteInv
  <2> QED BY <2>1, <2>3
<1> QED BY <1>1, <1>2 DEF WriteInv

LEMMA BootingSecrets ==
    ASSUME SecretsOK, NEW s \in Processes, Boot(s)
    PROVE  SecretsOK'
<1>0. /\ boot[s] \in Stages /\ Down \in Stages
      /\ generated \in Nat /\ signing \in Nat
  BY DEF SecretsOK, Down, Stages
<1>1. ASSUME NEW row \in Stages, boot' = [boot EXCEPT ![s] = row],
             generated' \in Nat, signing' \in Nat
      PROVE  SecretsOK'
  BY <1>1 DEF SecretsOK
<1>2. ASSUME NEW at \in {"secret", "apply", "admin", "keys", "adopt", "up"}, Stage(s, at),
             generated' \in Nat, signing' \in Nat
      PROVE  SecretsOK'
  <2> DEFINE row == [boot[s] EXCEPT !.at = at]
  <2>1. row \in Stages
    BY <1>0 DEF Stages
  <2>2. boot' = [boot EXCEPT ![s] = row]
    BY <1>2 DEF Stage, SecretsOK
  <2> HIDE DEF row
  <2> QED BY <1>1, <1>2, <2>1, <2>2
<1>3. CASE Start(s)
  <2> DEFINE row == [Down EXCEPT !.at = "migrate", !.version = 1]
  <2>1. row \in Stages
    BY DEF Down, Stages
  <2>2. boot' = [boot EXCEPT ![s] = row] /\ UNCHANGED startup
    BY <1>3 DEF Start
  <2> HIDE DEF row
  <2> QED BY <1>0, <1>1, <2>1, <2>2 DEF startup
<1>4. CASE CheckMigration(s)
  <2> DEFINE row == [boot[s] EXCEPT !.version = boot[s].version + 1]
  <2>1. row \in Stages
    BY <1>0 DEF Stages
  <2>2. /\ UNCHANGED startup
        /\ Stage(s, "secret") \/ Stage(s, "apply") \/ boot' = [boot EXCEPT ![s] = row]
    BY <1>4 DEF CheckMigration, SecretsOK
  <2> HIDE DEF row
  <2> QED BY <1>0, <1>1, <1>2, <2>1, <2>2 DEF startup
<1>5. CASE ApplyMigration(s)
  <2> DEFINE moved == [boot[s] EXCEPT !.at = "migrate"]
             row == [boot[s] EXCEPT !.at = "migrate", !.version = boot[s].version + 1]
  <2>1. row \in Stages
    <3>1. moved \in Stages
      BY <1>0 DEF Stages
    <3>2. row = [moved EXCEPT !.version = moved.version + 1]
      BY <1>0 DEF Stages
    <3> HIDE DEF moved, row
    <3> QED BY <3>1, <3>2 DEF Stages
  <2>2. /\ UNCHANGED <<generated, signing>>
        /\ boot' = [boot EXCEPT ![s] = row] \/ boot' = [boot EXCEPT ![s] = Down]
    BY <1>5 DEF ApplyMigration
  <2> HIDE DEF row
  <2> QED BY <1>0, <1>1, <2>1, <2>2
<1>6. CASE ReadSecret(s)
  <2> DEFINE found == [boot[s] EXCEPT !.at = "admin", !.secret = signing]
             made == [boot[s] EXCEPT !.at = "store", !.secret = generated + 1]
  <2>1. found \in Stages
    BY <1>0 DEF Stages
  <2>2. made \in Stages
    <3> DEFINE moved == [boot[s] EXCEPT !.at = "store"]
    <3>1. moved \in Stages
      BY <1>0 DEF Stages
    <3>2. made = [moved EXCEPT !.secret = generated + 1]
      OBVIOUS
    <3> HIDE DEF moved, made
    <3> QED BY <1>0, <3>1, <3>2 DEF Stages
  <2>3. /\ boot' = [boot EXCEPT ![s] = found] \/ boot' = [boot EXCEPT ![s] = made]
        /\ generated' \in Nat /\ signing' \in Nat
    BY <1>0, <1>6 DEF ReadSecret
  <2> HIDE DEF found, made
  <2> QED BY <1>1, <2>1, <2>2, <2>3
<1>7. CASE StoreSecret(s)
  <2>1. boot[s].secret \in Nat
    BY <1>0 DEF Stages
  <2> QED BY <1>0, <1>2, <1>7, <2>1 DEF StoreSecret
<1>8. CASE RegisterAdmin(s)
  BY <1>0, <1>2, <1>8 DEF RegisterAdmin, startup
<1>9. CASE CheckKeys(s)
  <2>1. UNCHANGED startup /\ (Stage(s, "up") \/ Stage(s, "adopt"))
    BY <1>9 DEF CheckKeys
  <2> QED BY <1>0, <1>2, <2>1 DEF startup
<1>10. CASE AdoptBootstrapKey(s)
  BY <1>0, <1>2, <1>10 DEF AdoptBootstrapKey, startup
<1> QED BY <1>3, <1>4, <1>5, <1>6, <1>7, <1>8, <1>9, <1>10 DEF Boot

LEMMA BootingWrites ==
    ASSUME WriteInv, NEW s \in Processes, Boot(s)
    PROVE  WriteInv'
<1>1. UNCHANGED <<skills, request, overtaken, channelMembers, groupMembers>>
  BY DEF Boot
<1>2. SkillsTyped' /\ SkillsStay
  BY <1>1, NothingStays DEF WriteInv
<1>3. SecretsOK'
  BY BootingSecrets DEF WriteInv
<1>4. people' \in [People -> Person] /\ NobodyLoses
  <2>1. CASE RegisterAdmin(s)
    BY <1>1, <2>1, Registering DEF RegisterAdmin, WriteInv
  <2>2. CASE ~RegisterAdmin(s)
    <3>1. UNCHANGED people
      BY <2>2 DEF Boot, Start, CheckMigration, ApplyMigration, ReadSecret, StoreSecret,
                  CheckKeys, AdoptBootstrapKey
    <3> QED BY <1>1, <3>1 DEF NobodyLoses, Entitled, WriteInv
  <2> QED BY <2>1, <2>2
<1> QED BY <1>1, <1>2, <1>3, <1>4, SameRequests

LEMMA CrashingWrites ==
    ASSUME WriteInv, NEW s \in Processes, Crash(s)
    PROVE  WriteInv'
<1>1. /\ UNCHANGED <<directory, skills, startup>>
      /\ boot' = [boot EXCEPT ![s] = Down]
      /\ request' = [request EXCEPT ![s] = Quiet]
      /\ overtaken' = overtaken \ {s}
  BY DEF Crash
<1>2. SecretsOK'
  <2>1. Down \in Stages
    BY DEF Down, Stages
  <2> QED BY <1>1, <2>1 DEF WriteInv, SecretsOK, startup
<1>3. SkillsTyped' /\ SkillsStay
  BY <1>1, NothingStays DEF WriteInv
<1>4. people' \in [People -> Person] /\ NobodyLoses
  BY <1>1, SameDirectory DEF WriteInv, directory
<1> QED BY <1>1, <1>2, <1>3, <1>4, QuietIsOK, OneRequest

LEMMA ArrivingWrites ==
    ASSUME WriteInv, NEW s \in Processes, NEW p \in People, NEW via, NEW op \in Asked,
           Arrive(s, p, via, op)
    PROVE  WriteInv'
<1> DEFINE r == [at |-> "check", who |-> p, op |-> op]
<1>1. /\ UNCHANGED <<directory, skills, startup, boot, overtaken>>
      /\ request' = [request EXCEPT ![s] = r]
      /\ OnSkill(op) => op.id \in Rows
  BY DEF Arrive
<1>2. SecretsOK'
  BY <1>1 DEF WriteInv, SecretsOK, startup
<1>3. SkillsTyped' /\ SkillsStay
  BY <1>1, NothingStays DEF WriteInv
<1>4. people' \in [People -> Person] /\ NobodyLoses
  BY <1>1, SameDirectory DEF WriteInv, directory
<1>5. (RequestOK(r))' /\ r.at # "act"
  BY <1>1 DEF RequestOK, Busy, Rows
<1> HIDE DEF r
<1> QED BY <1>1, <1>2, <1>3, <1>4, <1>5, OneRequest

LEMMA CheckingWrites ==
    ASSUME WriteInv, NEW s \in Processes, Check(s)
    PROVE  WriteInv'
<1> PICK q : q = request[s]
  OBVIOUS
<1> DEFINE acting == [q EXCEPT !.at = "act"]
<1>0. RequestOK(q) /\ q.at = "check" /\ Busy(q)
  BY DEF WriteInv, Check, Busy
<1>1. /\ UNCHANGED <<directory, skills, startup, boot, overtaken>>
      /\ \/ request' = [request EXCEPT ![s] = Quiet]
         \/ request' = [request EXCEPT ![s] = acting] /\ MayUse(q.who, q.op)
  BY DEF Check
<1>2. SecretsOK'
  BY <1>1 DEF WriteInv, SecretsOK, startup
<1>3. SkillsTyped' /\ SkillsStay
  BY <1>1, NothingStays DEF WriteInv
<1>4. people' \in [People -> Person] /\ NobodyLoses
  BY <1>1, SameDirectory DEF WriteInv, directory
<1>5. CASE request' = [request EXCEPT ![s] = Quiet]
  BY <1>1, <1>2, <1>3, <1>4, <1>5, QuietIsOK, OneRequest
<1>6. CASE request' = [request EXCEPT ![s] = acting] /\ MayUse(q.who, q.op)
  <2>1. acting = [at |-> "act", who |-> q.who, op |-> q.op]
    BY <1>0 DEF RequestOK
  <2> HIDE DEF acting
  <2>2. RequestOK(acting) /\ acting.at = "act"
    BY <1>0, <2>1 DEF RequestOK, Busy
  <2>3. MayWrite(acting)
    BY <1>6, <2>1 DEF MayWrite, MayUse, Writes
  <2>4. PICK r : r = acting
    OBVIOUS
  <2>5. (RequestOK(r))' /\ (MayWrite(r))'
    BY <1>3, <1>4, <2>2, <2>3, <2>4, RequestStays DEF WriteInv
  <2>6. request' = [request EXCEPT ![s] = r]
    BY <1>6, <2>4
  <2> QED BY <1>1, <1>2, <1>3, <1>4, <2>5, <2>6, OneRequest
<1> QED BY <1>1, <1>5, <1>6

LEMMA ActingWrites ==
    ASSUME WriteInv, NEW s \in Processes, Act(s)
    PROVE  WriteInv'
<1>1. /\ UNCHANGED <<directory, startup, boot>>
      /\ request' = [request EXCEPT ![s] = Quiet]
      /\ overtaken' = overtaken \ {s}
      /\ request[s].at = "act"
      /\ Write(s, request[s].op)
  BY DEF Act
<1>2. request[s].op \in Asked
  BY <1>1 DEF WriteInv, RequestOK, Busy
<1>3. SkillsTyped' /\ SkillsStay
  BY <1>1, <1>2, WritingStays
<1>4. SecretsOK'
  BY <1>1 DEF WriteInv, SecretsOK, startup
<1>5. people' \in [People -> Person] /\ NobodyLoses
  BY <1>1, SameDirectory DEF WriteInv, directory
<1> QED BY <1>1, <1>3, <1>4, <1>5, QuietIsOK, OneRequest

\* The administrator's pages: every request that was checked is overtaken.
LEMMA AdministeringWrites ==
    ASSUME WriteInv, Administer
    PROVE  WriteInv'
<1>1. /\ UNCHANGED <<skills, startup, boot, request>>
      /\ overtaken' = {s \in Processes : request[s].at = "act"}
      /\ Invite \/ Deactivate \/ SaveGroup \/ RemoveGroup
  BY DEF Administer
<1>2. people' \in [People -> Person]
  <2>1. CASE Invite
    <3>1. PICK p \in Invited : ~Known(p) /\ UpsertPrincipal(p, "internal")
      BY <2>1 DEF Invite
    <3>2. people' = [people EXCEPT ![p] = [kind |-> "internal", active |-> TRUE]]
      BY <3>1 DEF UpsertPrincipal
    <3> QED BY <3>2 DEF WriteInv, Person, Kinds
  <2>2. CASE Deactivate
    <3>1. PICK p \in Invited, active \in BOOLEAN : SetActive(p, active)
      BY <2>2 DEF Deactivate
    <3>2. p \in People /\ Known(p) /\ people' = [people EXCEPT ![p].active = active]
      BY <3>1, ServersAssumption DEF SetActive
    <3>3. people[p] \in [kind : Kinds, active : BOOLEAN]
      BY <3>2 DEF WriteInv, Person, Known
    <3>4. PICK row : row = [people[p] EXCEPT !.active = active]
      OBVIOUS
    <3>5. row \in Person
      BY <3>3, <3>4 DEF Person
    <3>6. people' = [people EXCEPT ![p] = row]
      BY <3>2, <3>4 DEF WriteInv
    <3> QED BY <3>5, <3>6 DEF WriteInv
  <2>3. CASE UNCHANGED people
    BY <2>3 DEF WriteInv
  <2> QED BY <1>1, <2>1, <2>2, <2>3 DEF SaveGroup, RemoveGroup
<1>3. SecretsOK'
  BY <1>1 DEF WriteInv, SecretsOK, startup
<1>4. SkillsTyped' /\ SkillsStay
  BY <1>1, NothingStays DEF WriteInv
<1>5. ASSUME NEW t \in Processes PROVE (RequestOK(request[t]))'
  <2>1. PICK q : q = request[t]
    OBVIOUS
  <2>2. (RequestOK(q))'
    BY <1>4, <2>1, RequestStays DEF WriteInv
  <2> QED BY <1>1, <2>1, <2>2
<1> QED BY <1>1, <1>2, <1>3, <1>4, <1>5 DEF WriteInv

LEMMA InitWrites == Init => WriteInv
<1> SUFFICES ASSUME Init PROVE WriteInv
  OBVIOUS
<1>1. people \in [People -> Person]
  <2>1. NoPerson \in Person /\ [kind |-> "internal", active |-> TRUE] \in Person
    BY DEF Person, Kinds
  <2> QED BY <2>1 DEF Init
<1>2. SkillsTyped
  <2>1. CASE skills = [i \in SkillIds |-> NoSkill]
    BY <2>1 DEF SkillsTyped
  <2>2. ASSUME NEW i, NEW m \in Manifests,
               skills = [j \in SkillIds |->
                           IF j # i THEN NoSkill
                           ELSE [scope |-> GroupScope(Ops), manifest |-> m, status |-> "published",
                                 signature |-> Sign(1, GroupScope(Ops), m)]]
        PROVE  SkillsTyped
    <3> DEFINE row == [scope |-> GroupScope(Ops), manifest |-> m, status |-> "published",
                       signature |-> Sign(1, GroupScope(Ops), m)]
    <3>1. GroupScope(Ops) \in Scopes
      BY ScopesAsked DEF SkillScopes
    <3>2. row \in SkillRow(Nat)
      <4> HIDE DEF SkillsTyped
      <4> QED BY <3>1 DEF SkillRow, Sign, Statuses
    <3> HIDE DEF row
    <3>3. skills = [j \in SkillIds |-> IF j # i THEN NoSkill ELSE row]
      BY <2>2 DEF row
    <3> QED BY <3>2, <3>3 DEF SkillsTyped
  <2>3. (CHOOSE n \in Manifests : TRUE) \in Manifests
    <3>1. PICK name \in Names, body \in Bodies : TRUE
      BY SkillAssumption
    <3>2. [name |-> name, body |-> body] \in Manifests
      BY <3>1 DEF Manifests
    <3> QED BY <3>2
  <2>4. CASE LET i == CHOOSE j \in SkillIds : TRUE
                 m == CHOOSE n \in Manifests : TRUE
             IN  skills = [j \in SkillIds |->
                    IF j # i THEN NoSkill
                    ELSE [scope |-> GroupScope(Ops), manifest |-> m, status |-> "published",
                          signature |-> Sign(1, GroupScope(Ops), m)]]
    BY <2>2, <2>3, <2>4, Zenon
  <2> QED BY <2>1, <2>4 DEF Init
<1>3. SecretsOK
  <2>1. Down \in Stages
    BY DEF Down, Stages
  <2> QED BY <2>1 DEF Init, SecretsOK
<1>4. DOMAIN request = Processes /\ \A s \in Processes : request[s] = Quiet
  BY DEF Init
<1> QED BY <1>1, <1>2, <1>3, <1>4, QuietIsOK DEF WriteInv

LEMMA NextWrites == WriteInv /\ [Next]_vars => WriteInv'
<1> SUFFICES ASSUME WriteInv, [Next]_vars PROVE WriteInv'
  OBVIOUS
<1>1. ASSUME NEW s \in Processes, Boot(s) \/ Crash(s) \/ Check(s) \/ Act(s)
      PROVE  WriteInv'
  BY <1>1, BootingWrites, CrashingWrites, CheckingWrites, ActingWrites
<1>2. ASSUME NEW s \in Processes, NEW p \in People, NEW op \in Asked,
             Arrive(s, p, Session, op) \/ \E k \in Keys : Arrive(s, p, k, op)
      PROVE  WriteInv'
  BY <1>2, ArrivingWrites
<1>3. CASE UNCHANGED vars
  <2>1. UNCHANGED <<directory, skills, startup, boot, request, overtaken>>
    BY <1>3 DEF vars
  <2>2. SkillsTyped' /\ SkillsStay
    BY <2>1, NothingStays DEF WriteInv
  <2>3. people' \in [People -> Person] /\ NobodyLoses
    BY <2>1, SameDirectory DEF WriteInv, directory
  <2>4. SecretsOK'
    BY <2>1 DEF WriteInv, SecretsOK, startup
  <2> QED BY <2>1, <2>2, <2>3, <2>4, SameRequests
<1> QED BY <1>1, <1>2, <1>3, AdministeringWrites, Zenon DEF Next

LEMMA WritesHold == Spec => []WriteInv
BY InitWrites, NextWrites, PTL DEF Spec

\* Only the write of a handler changes a skill.
LEMMA WhoWrites ==
    ASSUME WriteInv, [Next]_vars, skills' # skills
    PROVE  \E s \in Processes : Act(s)
<1>1. ASSUME NEW s \in Processes, Boot(s) \/ Crash(s) \/ Check(s)
      PROVE  UNCHANGED skills
  BY <1>1 DEF Boot, Crash, Check
<1>2. ASSUME NEW s, NEW p, NEW via, NEW op, Arrive(s, p, via, op)
      PROVE  UNCHANGED skills
  BY <1>2 DEF Arrive
<1>3. ASSUME Administer
      PROVE  UNCHANGED skills
  BY <1>3 DEF Administer
<1>4. ASSUME UNCHANGED vars
      PROVE  UNCHANGED skills
  BY <1>4 DEF vars
<1> QED BY <1>1, <1>2, <1>3, <1>4, Zenon DEF Next

-----------------------------------------------------------------------------
(* Theorems *)

LEMMA TablesHold == Spec => []Tables
<1>1. Tables /\ [Next]_vars => Tables'
  BY Step DEF Tables, KeysKept, SkillsKept
<1> QED BY InitTables, <1>1, PTL DEF Spec

\* A revoked key stays revoked whatever processes boot, look for keys and adopt
\* that of their configuration, and whatever the pages ask for meanwhile.
THEOREM RevokedForGood == Spec => RevokedStaysRevoked
<1>1. Tables /\ [Next]_vars => RevokedKept
  BY Step DEF KeysKept
<1>2. RevokedKept => [RevokedKept]_vars
  OBVIOUS
<1>3. Spec => [][RevokedKept]_vars
  BY TablesHold, <1>1, PTL DEF Spec
<1> QED BY <1>3 DEF RevokedStaysRevoked, RevokedKept

\* A published skill keeps its manifest and its scope while it is published,
\* for any requests of any processes that check, wait and write between each
\* other's steps.
THEOREM PublishedForGood == Spec => PublishedDoesNotChange
<1>1. Tables /\ [Next]_vars => PublishedKept
  BY Step DEF SkillsKept
<1>2. Spec => [][PublishedKept]_vars
  BY TablesHold, <1>1, PTL DEF Spec
<1> QED BY <1>2 DEF PublishedDoesNotChange, PublishedKept

\* Who changes a skill may use it when the row is written, however long ago the
\* handler asked: between the two only an administrator's page takes a scope from
\* somebody, no id is given to a second skill, and no skill changes its scope
\* (web/pages.rs, require_scope_access).
THEOREM OnlyTheEntitledWrite == Spec => WritesAreEntitled
<1>1. ASSUME WriteInv, [Next]_vars, NEW s \in Processes
      PROVE  EntitledWrite(s)
  <2> SUFFICES ASSUME request[s].at = "act", skills' # skills, request'[s] = Quiet,
                      Writes(request[s].op), s \notin overtaken
               PROVE  Entitled(request[s].who, ScopeAsked(request[s].op))
    BY DEF EntitledWrite, Writes
  <2>1. PICK t \in Processes : Act(t)
    BY <1>1, WhoWrites
  <2>2. t = s
    <3>1. ASSUME t # s PROVE FALSE
      <4>1. request'[s] = request[s]
        BY <2>1, <3>1 DEF Act, WriteInv
      <4> QED BY <4>1, QuietIsOK
    <3> QED BY <3>1
  <2>3. request[s].op \in Asked /\ MayWrite(request[s])
    BY <1>1 DEF WriteInv, RequestOK, Busy
  <2>4. OnSkill(request[s].op) => request[s].op.id \in Rows
    BY <1>1, <2>1, <2>2, <2>3, WritingStays DEF Act
  <2> QED BY <2>3, <2>4 DEF MayWrite
<1>2. WriteInv /\ [Next]_vars => \A s \in Processes : EntitledWrite(s)
  BY <1>1
<1>3. Spec => [][\A s \in Processes : EntitledWrite(s)]_vars
  BY WritesHold, <1>2, PTL DEF Spec
<1> QED BY <1>3 DEF WritesAreEntitled
-----------------------------------------------------------------------------
(* What is published stays visible                                          *)

\* Among several positions there is a nearest one.
LEMMA LeastElement ==
    ASSUME NEW S \in SUBSET Nat, S # {}
    PROVE  \E t \in S : \A u \in S : t <= u
<1> DEFINE R == {p \in Nat \X Nat : p[1] < p[2]}
<1>1. OpToRel(<, Nat) = R
  BY DEF OpToRel
<1>2. IsWellFoundedOn(R, Nat)
  BY <1>1, NatLessThanWellFounded
<1> HIDE DEF R
<1>3. PICK t \in S : \A u \in S : ~ (<<u, t>> \in R)
  BY <1>2, WFMin
<1>4. \A u \in S : ~ (u < t)
  BY <1>3 DEF R
<1> QED BY <1>4

\* A usable skill is chosen, or one of its name that is nearer.
LEMMA ChosenOrShadowed ==
    ASSUME NEW secret, NEW scopes, NEW len \in Nat, DOMAIN scopes = 1..len,
           NEW i \in Rows, Usable(secret, i), NEW n \in 1..len, skills[i].scope = scopes[n]
    PROVE  \/ i \in VisibleForScopes(secret, scopes)
           \/ \E m \in 1..n-1, j \in VisibleForScopes(secret, scopes) :
                 /\ skills[j].scope = scopes[m]
                 /\ skills[j].manifest.name = skills[i].manifest.name
<1> DEFINE name == skills[i].manifest.name
           offering == {m \in 1..n : Offers(secret, scopes[m], name)}
<1>1. n \in offering
  BY DEF Offers, In
<1>2. PICK m \in offering : \A u \in offering : m <= u
  <2>1. offering \in SUBSET Nat /\ offering # {}
    BY <1>1
  <2> HIDE DEF offering
  <2> QED BY <2>1, LeastElement
<1>3. \A u \in 1..m-1 : ~Offers(secret, scopes[u], name)
  BY <1>2
<1>4. CASE m = n
  BY <1>3, <1>4 DEF VisibleForScopes
<1>5. CASE m # n
  <2>1. m \in 1..n-1 /\ m \in 1..len
    BY <1>5
  <2>2. PICK j \in In(scopes[m]) : Usable(secret, j) /\ skills[j].manifest.name = name
    BY <1>2 DEF Offers
  <2>3. j \in Rows /\ skills[j].scope = scopes[m]
    BY <2>2 DEF In
  <2>4. j \in VisibleForScopes(secret, scopes)
    BY <1>3, <2>1, <2>2, <2>3 DEF VisibleForScopes
  <2> QED BY <2>1, <2>2, <2>3, <2>4
<1> QED BY <1>4, <1>5

\* The scopes of a person come in a row.
LEMMA ScopesInARow ==
    ASSUME NEW p
    PROVE  \E len \in Nat : DOMAIN ScopesOf(p) = 1..len
<1> DEFINE mine == {h \in GroupIds : <<h, p>> \in groupMembers}
           groups == {GroupScope(g) : g \in mine}
<1>1. IsFiniteSet(mine)
  BY DirectoryAssumption, FS_Subset
<1>2. IsFiniteSet(groups)
  <2> DEFINE f == [g \in mine |-> GroupScope(g)]
  <2>1. f \in Surjection(mine, groups)
    BY DEF Surjection
  <2> HIDE DEF f, mine, groups
  <2> QED BY <1>1, <2>1, FS_Surjection
<1> HIDE DEF groups
<1>3. PICK n \in Nat : ExistsBijection(1..n, groups)
  BY <1>2, FS_NatBijection
<1>4. Cardinality(groups) = n
  BY <1>3, FS_CountingElements
<1>5. SetToSeq(groups) \in [1..n -> groups]
  <2>1. \E f \in [1..Cardinality(groups) -> groups] : IsInjective(f)
    BY <1>3, <1>4 DEF ExistsBijection, Bijection, Injection, IsInjective
  <2> QED BY <1>4, <2>1 DEF SetToSeq
<1>6. SetToSeq(groups) \in Seq(groups)
  BY <1>5
<1>7. PICK row : row = SetToSeq(groups)
  OBVIOUS
<1>8. PICK all : all = <<Personal(p)>> \o row \o <<Org>>
  OBVIOUS
<1>9. all \in Seq(groups \cup {Personal(p), Org})
  BY <1>6, <1>7, <1>8
<1>10. ScopesOf(p) = all
  BY <1>7, <1>8 DEF ScopesOf, groups
<1> QED BY <1>9, <1>10

\* Who made a secret: one process at most.
OneMaker == \A s, t \in fresh : s = t

\* A process past the secret holds the one that is stored, and so did whoever
\* signed the skills there are; who has made one and not stored it is alone.
Holds(s) == boot[s].at \in {"admin", "keys", "adopt", "up"}
SignedBy(row) == row.signature = Sign(signing, row.scope, row.manifest)
OneSecret ==
    /\ \A s \in Processes : boot[s].at = "store" =>
          s \in fresh /\ signing = 0 /\ boot[s].secret # 0
    /\ \A s \in Processes : Holds(s) => signing # 0 /\ boot[s].secret = signing
    /\ \A i \in Rows : signing # 0 /\ SignedBy(skills[i])

SecretInv ==
    /\ IsFiniteSet(fresh)
    /\ \A s \in Processes : request[s] # Quiet => Up(s)
    /\ OneMaker => OneSecret

LEMMA MakersAreFew ==
    ASSUME fresh \subseteq fresh', OneMaker'
    PROVE  OneMaker
BY DEF OneMaker

\* Where secrets, skills and boots stay.
LEMMA SameSecrets ==
    ASSUME SecretInv, UNCHANGED <<startup, boot, skills>>,
           \A s \in Processes : request'[s] # Quiet => Up(s)
    PROVE  SecretInv'
BY DEF SecretInv, OneMaker, OneSecret, Holds, SignedBy, Rows, Up, startup

\* A boot that touches no secret and stays on its side of it, or ends.
LEMMA BootGoesOn ==
    ASSUME SecretInv, WriteInv, NEW s \in Processes, NEW row,
           boot' = [boot EXCEPT ![s] = row], UNCHANGED <<signing, fresh, skills>>,
           (UNCHANGED request /\ ~Up(s)) \/ request' = [request EXCEPT ![s] = Quiet],
           row.at # "store",
           row.at \in {"admin", "keys", "adopt", "up"} => Holds(s) /\ row.secret = boot[s].secret
    PROVE  SecretInv'
<1>1. DOMAIN boot = Processes
  BY DEF WriteInv, SecretsOK
<1>2. boot'[s] = row /\ \A t \in Processes \ {s} : boot'[t] = boot[t]
  BY <1>1
<1>3. ASSUME NEW t \in Processes, request'[t] # Quiet PROVE Up(t)'
  <2>1. request'[t] = request[t] /\ t # s
    BY <1>3 DEF SecretInv, WriteInv
  <2> QED BY <1>2, <1>3, <2>1 DEF SecretInv, Up
<1>4. ASSUME OneMaker' PROVE OneSecret'
  <2>1. OneSecret
    BY <1>4 DEF SecretInv, OneMaker
  <2>2. Rows' = Rows /\ \A i \in Rows : SignedBy(skills[i]) => SignedBy(skills[i])'
    BY DEF Rows, SignedBy
  <2>3. (\A t \in Processes : boot[t].at = "store" => t \in fresh /\ signing = 0 /\ boot[t].secret # 0)'
    BY <1>2, <2>1 DEF OneSecret
  <2>4. (\A t \in Processes : Holds(t) => signing # 0 /\ boot[t].secret = signing)'
    BY <1>2, <2>1 DEF OneSecret, Holds
  <2> QED BY <2>1, <2>2, <2>3, <2>4 DEF OneSecret
<1> QED BY <1>3, <1>4 DEF SecretInv

LEMMA BootingKeepsSecrets ==
    ASSUME SecretInv, WriteInv, NEW s \in Processes, Boot(s)
    PROVE  SecretInv'
<1>0. /\ UNCHANGED <<skills, request>>
      /\ boot[s] \in Stages /\ DOMAIN boot = Processes
      /\ generated \in Nat /\ signing \in Nat
  BY DEF Boot, WriteInv, SecretsOK
<1>1. ASSUME NEW at \in {"secret", "apply"}, Stage(s, at), UNCHANGED startup, ~Up(s)
      PROVE  SecretInv'
  <2> DEFINE row == [boot[s] EXCEPT !.at = at]
  <2>1. row.at = at
    BY <1>0 DEF Stages
  <2>2. boot' = [boot EXCEPT ![s] = row]
    BY <1>0, <1>1 DEF Stage
  <2> HIDE DEF row
  <2> QED BY <1>0, <1>1, <2>1, <2>2, BootGoesOn DEF startup
<1>2. ASSUME NEW at \in {"keys", "adopt", "up"}, Stage(s, at), UNCHANGED startup, ~Up(s), Holds(s)
      PROVE  SecretInv'
  <2> DEFINE row == [boot[s] EXCEPT !.at = at]
  <2>1. row.at = at /\ row.secret = boot[s].secret
    BY <1>0 DEF Stages
  <2>2. boot' = [boot EXCEPT ![s] = row]
    BY <1>0, <1>2 DEF Stage
  <2> HIDE DEF row
  <2> QED BY <1>0, <1>2, <2>1, <2>2, BootGoesOn DEF startup
<1>3. ASSUME NEW row, row.at \in {"down", "migrate"}, boot' = [boot EXCEPT ![s] = row],
             UNCHANGED <<signing, fresh>>, ~Up(s)
      PROVE  SecretInv'
  BY <1>0, <1>3, BootGoesOn
<1>4. CASE Start(s)
  <2> DEFINE row == [Down EXCEPT !.at = "migrate", !.version = 1]
  <2>1. row.at = "migrate"
    BY DEF Down
  <2>2. Down.at = "down"
    BY DEF Down
  <2>3. boot' = [boot EXCEPT ![s] = row] /\ boot[s] = Down /\ UNCHANGED startup
    BY <1>4 DEF Start
  <2> HIDE DEF row
  <2>4. ~Up(s) /\ UNCHANGED <<signing, fresh>>
    BY <2>2, <2>3 DEF Up, startup
  <2> QED BY <1>0, <2>1, <2>3, <2>4, BootGoesOn
<1>5. CASE CheckMigration(s)
  <2> DEFINE row == [boot[s] EXCEPT !.version = boot[s].version + 1]
  <2>1. row.at = boot[s].at
    BY <1>0 DEF Stages
  <2>2. /\ boot[s].at = "migrate" /\ UNCHANGED startup
        /\ Stage(s, "secret") \/ Stage(s, "apply") \/ boot' = [boot EXCEPT ![s] = row]
    BY <1>0, <1>5 DEF CheckMigration
  <2> HIDE DEF row
  <2>3. ~Up(s) /\ UNCHANGED <<signing, fresh>>
    BY <2>2 DEF Up, startup
  <2> QED BY <1>1, <1>3, <2>1, <2>2, <2>3
<1>6. CASE ApplyMigration(s)
  <2> DEFINE row == [boot[s] EXCEPT !.at = "migrate", !.version = boot[s].version + 1]
  <2>1. row.at = "migrate" /\ Down.at = "down"
    BY <1>0 DEF Stages, Down
  <2>2. /\ boot[s].at = "apply" /\ UNCHANGED <<signing, fresh>>
        /\ boot' = [boot EXCEPT ![s] = row] \/ boot' = [boot EXCEPT ![s] = Down]
    BY <1>6 DEF ApplyMigration
  <2> HIDE DEF row
  <2>3. ~Up(s)
    BY <2>2 DEF Up
  <2> QED BY <1>3, <2>1, <2>2, <2>3
<1>7. CASE ReadSecret(s) /\ signing # 0
  <2> DEFINE row == [boot[s] EXCEPT !.at = "admin", !.secret = signing]
  <2>1. row.at = "admin" /\ row.secret = signing
    BY <1>0 DEF Stages
  <2>2. boot' = [boot EXCEPT ![s] = row] /\ UNCHANGED <<signing, fresh>> /\ boot[s].at = "secret"
    BY <1>7 DEF ReadSecret
  <2> HIDE DEF row
  <2>3. boot'[s] = row /\ \A t \in Processes \ {s} : boot'[t] = boot[t]
    BY <1>0, <2>2
  <2>4. ASSUME NEW t \in Processes, request'[t] # Quiet PROVE Up(t)'
    BY <1>0, <2>2, <2>3, <2>4 DEF SecretInv, Up
  <2>5. ASSUME OneMaker' PROVE OneSecret'
    <3>1. OneSecret
      BY <2>2, <2>5 DEF SecretInv, OneMaker
    <3>2. Rows' = Rows /\ \A i \in Rows : SignedBy(skills[i]) => SignedBy(skills[i])'
      BY <1>0, <2>2 DEF Rows, SignedBy
    <3>3. (\A t \in Processes : boot[t].at = "store" => t \in fresh /\ signing = 0 /\ boot[t].secret # 0)'
      BY <2>1, <2>2, <2>3, <3>1 DEF OneSecret
    <3>4. (\A t \in Processes : Holds(t) => signing # 0 /\ boot[t].secret = signing)'
      BY <1>7, <2>1, <2>2, <2>3, <3>1 DEF OneSecret, Holds
    <3> QED BY <1>0, <2>2, <3>1, <3>2, <3>3, <3>4 DEF OneSecret
  <2> QED BY <2>2, <2>4, <2>5 DEF SecretInv
<1>8. CASE ReadSecret(s) /\ signing = 0
  <2> DEFINE row == [boot[s] EXCEPT !.at = "store", !.secret = generated + 1]
  <2>1. row.at = "store" /\ row.secret = generated + 1
    BY <1>0 DEF Stages
  <2>2. /\ boot' = [boot EXCEPT ![s] = row] /\ boot[s].at = "secret"
        /\ UNCHANGED signing /\ fresh' = fresh \cup {s}
    BY <1>8 DEF ReadSecret
  <2> HIDE DEF row
  <2>3. boot'[s] = row /\ \A t \in Processes \ {s} : boot'[t] = boot[t]
    BY <1>0, <2>2
  <2>4. ASSUME NEW t \in Processes, request'[t] # Quiet PROVE Up(t)'
    BY <1>0, <2>2, <2>3, <2>4 DEF SecretInv, Up
  <2>5. ASSUME OneMaker' PROVE OneSecret'
    <3>1. OneSecret
      BY <2>2, <2>5, MakersAreFew DEF SecretInv
    <3>2. Rows' = Rows /\ \A i \in Rows : SignedBy(skills[i]) => SignedBy(skills[i])'
      BY <1>0, <2>2 DEF Rows, SignedBy
    <3>3. (\A t \in Processes : boot[t].at = "store" => t \in fresh /\ signing = 0 /\ boot[t].secret # 0)'
      BY <1>0, <1>8, <2>1, <2>2, <2>3, <3>1 DEF OneSecret
    <3>4. (\A t \in Processes : Holds(t) => signing # 0 /\ boot[t].secret = signing)'
      BY <2>1, <2>2, <2>3, <3>1 DEF OneSecret, Holds
    <3> QED BY <1>0, <2>2, <3>1, <3>2, <3>3, <3>4 DEF OneSecret
  <2> QED BY <2>2, <2>4, <2>5, FS_AddElement DEF SecretInv
<1>9. CASE StoreSecret(s)
  <2> DEFINE row == [boot[s] EXCEPT !.at = "admin"]
  <2>1. row.at = "admin" /\ row.secret = boot[s].secret
    BY <1>0 DEF Stages
  <2>2. /\ boot' = [boot EXCEPT ![s] = row] /\ boot[s].at = "store"
        /\ signing' = boot[s].secret /\ UNCHANGED fresh
    BY <1>0, <1>9 DEF StoreSecret, Stage
  <2> HIDE DEF row
  <2>3. boot'[s] = row /\ \A t \in Processes \ {s} : boot'[t] = boot[t]
    BY <1>0, <2>2
  <2>4. ASSUME NEW t \in Processes, request'[t] # Quiet PROVE Up(t)'
    BY <1>0, <2>2, <2>3, <2>4 DEF SecretInv, Up
  <2>5. ASSUME OneMaker' PROVE OneSecret'
    <3>1. OneSecret /\ OneMaker
      BY <2>2, <2>5 DEF SecretInv, OneMaker
    <3>2. s \in fresh /\ signing = 0 /\ boot[s].secret # 0
      BY <2>2, <3>1 DEF OneSecret
    <3>3. Rows' = {}
      BY <1>0, <3>1, <3>2 DEF OneSecret, Rows
    <3>4. ASSUME NEW t \in Processes PROVE boot'[t].at = "store" => FALSE
      BY <2>1, <2>3, <3>1, <3>2, <3>4 DEF OneSecret, OneMaker
    <3>5. (\A t \in Processes : Holds(t) => signing # 0 /\ boot[t].secret = signing)'
      BY <2>1, <2>2, <2>3, <3>1, <3>2 DEF OneSecret, Holds
    <3> QED BY <3>3, <3>4, <3>5 DEF OneSecret
  <2> QED BY <2>2, <2>4, <2>5 DEF SecretInv
<1>10. CASE RegisterAdmin(s) \/ CheckKeys(s) \/ AdoptBootstrapKey(s)
  <2>1. /\ boot[s].at \in {"admin", "keys", "adopt"} /\ UNCHANGED startup
        /\ Stage(s, "keys") \/ Stage(s, "up") \/ Stage(s, "adopt")
    BY <1>10 DEF RegisterAdmin, CheckKeys, AdoptBootstrapKey, startup
  <2> QED BY <1>2, <2>1 DEF Up, Holds
<1> QED BY <1>4, <1>5, <1>6, <1>7, <1>8, <1>9, <1>10 DEF Boot

\* What a process writes carries its secret.
LEMMA WritingSigns ==
    ASSUME WriteInv, NEW s \in Processes, NEW op \in Asked, Write(s, op),
           boot[s].secret = signing, UNCHANGED signing, \A i \in Rows : SignedBy(skills[i])
    PROVE  \A i \in Rows' : SignedBy(skills'[i])
<1>1. SkillsTyped
  BY DEF WriteInv
<1>2. ASSUME NEW j \in SkillIds, NEW row, SignedBy(row), skills' = [skills EXCEPT ![j] = row]
      PROVE  \A i \in Rows' : SignedBy(skills'[i])
  BY <1>1, <1>2 DEF SkillsTyped, Rows
<1>3. CASE UNCHANGED skills
  BY <1>3 DEF Rows
<1>4. ASSUME NEW j \in SkillIds, CreateSkill(j, signing, op.scope, op.manifest)
      PROVE  \A i \in Rows' : SignedBy(skills'[i])
  <2> DEFINE row == [scope |-> op.scope, manifest |-> op.manifest, status |-> "draft",
                     signature |-> Sign(signing, op.scope, op.manifest)]
  <2>1. SignedBy(row)
    BY DEF SignedBy
  <2>2. skills' = [skills EXCEPT ![j] = row]
    BY <1>4 DEF CreateSkill
  <2> HIDE DEF row
  <2> QED BY <1>2, <2>1, <2>2
<1>5. ASSUME op.id \in SkillIds, UpdateSkill(op.id, signing, op.manifest)
      PROVE  \A i \in Rows' : SignedBy(skills'[i])
  <2> DEFINE row == [skills[op.id] EXCEPT !.manifest = op.manifest, !.status = "draft",
                        !.signature = Sign(signing, skills[op.id].scope, op.manifest)]
  <2>1. op.id \in Rows /\ skills' = [skills EXCEPT ![op.id] = row]
    BY <1>5 DEF UpdateSkill
  <2>2. skills[op.id] \in SkillRow(Nat)
    BY <1>1, <2>1 DEF SkillsTyped, Rows
  <2>3. SignedBy(row)
    BY <2>2 DEF SignedBy, SkillRow
  <2> HIDE DEF row
  <2> QED BY <1>2, <1>5, <2>1, <2>3
<1>6. ASSUME op.id \in SkillIds, NEW status, SetStatus(op.id, status), op.id \in Rows
      PROVE  \A i \in Rows' : SignedBy(skills'[i])
  <2> DEFINE row == [skills[op.id] EXCEPT !.status = status]
  <2>1. skills' = [skills EXCEPT ![op.id] = row]
    BY <1>6 DEF SetStatus
  <2>2. skills[op.id] \in SkillRow(Nat) /\ SignedBy(skills[op.id])
    BY <1>1, <1>6 DEF SkillsTyped, Rows
  <2>3. SignedBy(row)
    BY <2>2 DEF SignedBy, SkillRow
  <2> HIDE DEF row
  <2> QED BY <1>2, <1>6, <2>1, <2>3
<1>7. ASSUME op.id \in SkillIds, skills' = [skills EXCEPT ![op.id] = Gone]
      PROVE  \A i \in Rows' : SignedBy(skills'[i])
  BY <1>1, <1>7 DEF SkillsTyped, Rows
<1>8. CASE op.kind = "create"
  BY <1>3, <1>4, <1>8 DEF Write
<1>9. CASE op.kind = "update"
  BY <1>3, <1>5, <1>9, AskedIs DEF Write
<1>10. CASE op.kind = "status"
  <2>1. op.id \in SkillIds /\ SetStatus(op.id, op.status)
    BY <1>10, AskedIs DEF Write
  <2> QED BY <1>3, <1>6, <2>1 DEF SetStatus
<1>11. CASE op.kind = "delete"
  <2>1. op.id \in SkillIds /\ DeleteSkill(op.id)
    BY <1>11, AskedIs DEF Write
  <2> QED BY <1>3, <1>7, <2>1 DEF DeleteSkill
<1>12. CASE op.kind \in {"mint", "revoke"}
  BY <1>3, <1>12 DEF Write
<1> QED BY <1>8, <1>9, <1>10, <1>11, <1>12, AskedIs

LEMMA ActingKeepsSecrets ==
    ASSUME SecretInv, WriteInv, NEW s \in Processes, Act(s)
    PROVE  SecretInv'
<1>1. /\ UNCHANGED <<startup, boot>>
      /\ request' = [request EXCEPT ![s] = Quiet]
      /\ request[s].at = "act"
      /\ Write(s, request[s].op)
  BY DEF Act
<1>2. request[s].op \in Asked /\ request[s] # Quiet
  BY <1>1, QuietIsOK DEF WriteInv, RequestOK, Busy
<1>3. ASSUME NEW t \in Processes, request'[t] # Quiet PROVE Up(t)'
  BY <1>1, <1>3 DEF SecretInv, WriteInv, Up
<1>4. ASSUME OneMaker' PROVE OneSecret'
  <2>1. OneSecret
    BY <1>1, <1>4 DEF SecretInv, OneMaker, startup
  <2>2. Up(s) /\ signing # 0 /\ boot[s].secret = signing
    BY <1>2, <2>1 DEF SecretInv, OneSecret, Holds, Up
  <2>3. \A i \in Rows' : SignedBy(skills'[i])
    BY <1>1, <1>2, <2>1, <2>2, WritingSigns DEF OneSecret, startup
  <2>4. UNCHANGED <<signing, fresh>>
    BY <1>1 DEF startup
  <2>5. \A i \in Rows' : SignedBy(skills[i])'
    BY <2>3, <2>4 DEF SignedBy
  <2> QED BY <1>1, <2>1, <2>2, <2>4, <2>5 DEF OneSecret, Holds
<1> QED BY <1>1, <1>3, <1>4 DEF SecretInv, startup

LEMMA InitSecrets == Init => SecretInv
<1> SUFFICES ASSUME Init PROVE SecretInv
  OBVIOUS
<1>1. fresh = {} /\ \A s \in Processes : request[s] = Quiet /\ boot[s].at = "down"
  BY DEF Init, Down
<1>2. \A i \in Rows : signing # 0 /\ SignedBy(skills[i])
  <2>1. CASE skills = [i \in SkillIds |-> NoSkill]
    BY <2>1 DEF Rows
  <2>2. ASSUME signing = 1, NEW i, NEW m,
               skills = [j \in SkillIds |->
                           IF j # i THEN NoSkill
                           ELSE [scope |-> GroupScope(Ops), manifest |-> m, status |-> "published",
                                 signature |-> Sign(1, GroupScope(Ops), m)]]
        PROVE  \A j \in Rows : signing # 0 /\ SignedBy(skills[j])
    <3> DEFINE row == [scope |-> GroupScope(Ops), manifest |-> m, status |-> "published",
                       signature |-> Sign(1, GroupScope(Ops), m)]
    <3>1. SignedBy(row)
      BY <2>2 DEF SignedBy
    <3> HIDE DEF row
    <3>2. skills = [j \in SkillIds |-> IF j # i THEN NoSkill ELSE row]
      BY <2>2 DEF row
    <3> QED BY <2>2, <3>1, <3>2 DEF Rows
  <2>3. CASE /\ signing = 1
             /\ LET i == CHOOSE j \in SkillIds : TRUE
                    m == CHOOSE n \in Manifests : TRUE
                IN  skills = [j \in SkillIds |->
                       IF j # i THEN NoSkill
                       ELSE [scope |-> GroupScope(Ops), manifest |-> m, status |-> "published",
                             signature |-> Sign(1, GroupScope(Ops), m)]]
    BY <2>2, <2>3, Zenon
  <2> QED BY <2>1, <2>3 DEF Init
<1> QED BY <1>1, <1>2, FS_EmptySet DEF SecretInv, OneSecret, Holds

LEMMA NextSecrets == WriteInv /\ SecretInv /\ [Next]_vars => SecretInv'
<1> SUFFICES ASSUME WriteInv, SecretInv, [Next]_vars PROVE SecretInv'
  OBVIOUS
<1>1. ASSUME NEW s \in Processes, Boot(s) PROVE SecretInv'
  BY <1>1, BootingKeepsSecrets
<1>2. ASSUME NEW s \in Processes, Crash(s) PROVE SecretInv'
  <2>1. /\ UNCHANGED <<signing, fresh, skills>> /\ boot' = [boot EXCEPT ![s] = Down]
        /\ request' = [request EXCEPT ![s] = Quiet]
    BY <1>2 DEF Crash, startup
  <2>2. Down.at = "down"
    BY DEF Down
  <2> QED BY <2>1, <2>2, BootGoesOn
<1>3. ASSUME NEW s \in Processes, Check(s) PROVE SecretInv'
  <2>1. /\ UNCHANGED <<startup, boot, skills>> /\ request[s].at = "check"
        /\ \A t \in Processes : t # s => request'[t] = request[t]
    BY <1>3 DEF Check, WriteInv
  <2> QED BY <2>1, QuietIsOK, SameSecrets DEF SecretInv
<1>4. ASSUME NEW s \in Processes, Act(s) PROVE SecretInv'
  BY <1>4, ActingKeepsSecrets
<1>5. ASSUME NEW s \in Processes, NEW p, NEW via, NEW op, Arrive(s, p, via, op) PROVE SecretInv'
  <2>1. /\ UNCHANGED <<startup, boot, skills>> /\ Up(s)
        /\ \A t \in Processes : t # s => request'[t] = request[t]
    BY <1>5 DEF Arrive, WriteInv
  <2> QED BY <2>1, SameSecrets DEF SecretInv
<1>6. ASSUME Administer PROVE SecretInv'
  BY <1>6, SameSecrets DEF Administer, SecretInv
<1>7. CASE UNCHANGED vars
  BY <1>7, SameSecrets DEF vars, SecretInv
<1> QED BY <1>1, <1>2, <1>3, <1>4, <1>5, <1>6, <1>7, Zenon DEF Next

LEMMA SecretsHold == Spec => []SecretInv
BY InitSecrets, NextSecrets, WritesHold, PTL DEF Spec

\* A published skill is seen by whoever has its scope, or one of its name that is
\* nearer: the secret a process verifies with is the one every skill was signed
\* with, whichever processes crash between making, storing and reading it
\* (store/mod.rs, Stores::new), unless two of them made one.
THEOREM PublishedIsSeen == Spec => []PublishedStaysVisible
<1>1. ASSUME SecretInv, WriteInv, Cardinality(fresh) <= 1,
             NEW s \in {t \in Processes : Up(t)}, NEW p \in People,
             NEW i \in Rows, NEW n \in DOMAIN ScopesOf(p),
             skills[i].status = "published", skills[i].scope = ScopesOf(p)[n]
      PROVE  \/ i \in VisibleForScopes(boot[s].secret, ScopesOf(p))
             \/ \E m \in 1..n-1, j \in VisibleForScopes(boot[s].secret, ScopesOf(p)) :
                   /\ skills[j].scope = ScopesOf(p)[m]
                   /\ skills[j].manifest.name = skills[i].manifest.name
  <2>1. OneMaker
    <3>1. Cardinality(fresh) = 0 => fresh = {}
      BY <1>1, FS_EmptySet DEF SecretInv
    <3>2. Cardinality(fresh) = 1 => \E x : fresh = {x}
      BY <1>1, FS_Singleton DEF SecretInv
    <3>3. Cardinality(fresh) = 0 \/ Cardinality(fresh) = 1
      BY <1>1, FS_CardinalityType DEF SecretInv
    <3> QED BY <3>1, <3>2, <3>3 DEF OneMaker
  <2>2. boot[s].secret = signing /\ SignedBy(skills[i])
    BY <1>1, <2>1 DEF SecretInv, OneSecret, Holds, Up
  <2>3. Usable(boot[s].secret, i)
    BY <1>1, <2>2 DEF Usable, Verify, SignedBy
  <2>4. PICK len \in Nat : DOMAIN ScopesOf(p) = 1..len
    BY ScopesInARow
  <2> QED BY <1>1, <2>3, <2>4, ChosenOrShadowed
<1>2. SecretInv /\ WriteInv => PublishedStaysVisible
  BY <1>1 DEF PublishedStaysVisible
<1> QED BY <1>2, SecretsHold, WritesHold, PTL

-----------------------------------------------------------------------------
(* Types, and what a boot has found when it goes on                         *)

\* Where a boot is past the migrations, past a secret of its own, and past the
\* secret that is stored.
Migrated == {"secret", "store", "admin", "keys", "adopt", "up"}
Secretive == {"store", "admin", "keys", "adopt", "up"}
Settled == {"admin", "keys", "adopt", "up"}

\* A boot looks at the versions in order, and goes past none that the tables do
\* not have: it is at the one after those there are, at most.
BootFits(b, tables, stored, made) ==
    /\ b.version <= Latest + 1 /\ b.version <= tables + 1
    /\ b.secret <= made
    /\ b.at = "apply" => 1 <= b.version /\ b.version <= Latest
    /\ b.at \in Migrated => tables = Latest
    /\ b.at \in Secretive => b.secret # 0
    /\ b.at \in Settled => stored # 0

BootInv ==
    /\ schema \in 0..Latest /\ applied = schema
    /\ signing <= generated
    /\ \A s \in Processes : BootFits(boot[s], applied, signing, generated)

\* One boot moves on; the tables and the secrets grow, and nothing else.
LEMMA OneBootMoves ==
    ASSUME SecretsOK, SecretsOK', BootInv, NEW s \in Processes, NEW row,
           boot' = [boot EXCEPT ![s] = row], BootFits(row, applied', signing', generated'),
           schema' \in 0..Latest, applied' = schema', schema <= schema',
           generated <= generated', signing' <= generated', signing # 0 => signing' # 0
    PROVE  BootInv'
<1>1. \A t \in Processes : boot'[t] = IF t = s THEN row ELSE boot[t]
  BY DEF SecretsOK
<1>2. /\ Latest \in Nat /\ schema \in Int /\ schema' \in Int /\ applied = schema /\ schema <= Latest
      /\ schema' <= Latest /\ generated \in Nat /\ generated' \in Nat
  BY ServersAssumption DEF BootInv, SecretsOK
<1>3. ASSUME NEW t \in Processes, t # s PROVE BootFits(boot'[t], applied', signing', generated')
  <2>1. PICK b : b = boot[t]
    OBVIOUS
  <2>2. b \in Stages /\ BootFits(b, applied, signing, generated) /\ boot'[t] = b
    BY <1>1, <1>3, <2>1 DEF SecretsOK, BootInv
  <2>3. b.version \in Nat /\ b.secret \in Nat
    BY <2>2 DEF Stages
  <2>4. BootFits(b, applied', signing', generated')
    BY <1>2, <2>2, <2>3 DEF BootFits
  <2>5. QED
    BY <2>2, <2>4
<1>4. BootFits(boot'[s], applied', signing', generated')
  BY <1>1
<1>5. QED
  BY <1>3, <1>4 DEF BootInv

\* Where the tables and the secrets stay.
LEMMA OneBootStays ==
    ASSUME SecretsOK, SecretsOK', BootInv, NEW s \in Processes, NEW row,
           boot' = [boot EXCEPT ![s] = row], BootFits(row, applied, signing, generated), UNCHANGED startup
    PROVE  BootInv'
<1>1. UNCHANGED <<schema, applied, signing, generated>>
  BY DEF startup
<1>2. BootFits(row, applied', signing', generated')
  BY <1>1 DEF BootFits
<1>3. schema \in Int /\ generated \in Int
  BY ServersAssumption DEF BootInv, SecretsOK
<1>4. schema' \in 0..Latest /\ applied' = schema' /\ signing' <= generated'
  BY <1>1 DEF BootInv
<1>5. schema <= schema' /\ generated <= generated' /\ (signing # 0 => signing' # 0)
  BY <1>1, <1>3
<1>6. QED
  BY <1>2, <1>4, <1>5, OneBootMoves

LEMMA DownIsOK ==
    ASSUME SecretsOK, BootInv
    PROVE  BootFits(Down, applied, signing, generated)
<1>1. Latest \in Nat /\ applied \in Nat /\ generated \in Nat
  BY ServersAssumption DEF BootInv, SecretsOK
<1>2. QED
  BY <1>1 DEF BootFits, Down, Migrated, Secretive, Settled

LEMMA BootingIsOK ==
    ASSUME SecretsOK, BootInv, NEW s \in Processes, Boot(s)
    PROVE  BootInv'
<1>0. SecretsOK'
  BY BootingSecrets
<1>1. /\ boot[s] \in Stages /\ BootFits(boot[s], applied, signing, generated) /\ DOMAIN boot = Processes
      /\ boot[s].version \in Nat /\ boot[s].secret \in Nat
      /\ Latest \in Nat \ {0} /\ applied \in Nat /\ schema \in Nat /\ applied = schema
      /\ schema <= Latest /\ generated \in Nat /\ signing \in Nat /\ signing <= generated
  BY ServersAssumption DEF SecretsOK, BootInv, Stages
<1>2. CASE Start(s)
  <2> DEFINE row == [Down EXCEPT !.at = "migrate", !.version = 1]
  <2>1. row.at = "migrate" /\ row.version = 1 /\ row.secret = 0
    BY DEF Down
  <2>2. boot' = [boot EXCEPT ![s] = row] /\ UNCHANGED startup
    BY <1>2 DEF Start
  <2> HIDE DEF row
  <2>3. BootFits(row, applied, signing, generated)
    BY <1>1, <2>1 DEF BootFits, Migrated, Secretive, Settled
  <2>4. QED
    BY <1>0, <2>2, <2>3, OneBootStays
<1>3. CASE CheckMigration(s)
  <2>1. boot[s].at = "migrate" /\ UNCHANGED startup
    BY <1>3 DEF CheckMigration
  <2>2. CASE boot[s].version > Latest /\ Stage(s, "secret")
    <3> DEFINE row == [boot[s] EXCEPT !.at = "secret"]
    <3>1. row.at = "secret" /\ row.version = boot[s].version /\ row.secret = boot[s].secret
      BY <1>1 DEF Stages
    <3>2. boot' = [boot EXCEPT ![s] = row]
      BY <1>1, <2>2 DEF Stage
    <3> HIDE DEF row
    <3>3. applied = Latest
      BY <1>1, <2>2 DEF BootFits
    <3>4. BootFits(row, applied, signing, generated)
      BY <1>1, <3>1, <3>3 DEF BootFits, Migrated, Secretive, Settled
    <3>5. QED
      BY <1>0, <2>1, <3>2, <3>4, OneBootStays
  <2>3. CASE /\ boot[s].version <= applied
             /\ boot' = [boot EXCEPT ![s].version = boot[s].version + 1]
    <3> DEFINE row == [boot[s] EXCEPT !.version = boot[s].version + 1]
    <3>1. row.at = "migrate" /\ row.version = boot[s].version + 1 /\ row.secret = boot[s].secret
      BY <1>1, <2>1 DEF Stages
    <3>2. boot' = [boot EXCEPT ![s] = row]
      BY <1>1, <2>3
    <3> HIDE DEF row
    <3>3. BootFits(row, applied, signing, generated)
      BY <1>1, <2>3, <3>1 DEF BootFits, Migrated, Secretive, Settled
    <3>4. QED
      BY <1>0, <2>1, <3>2, <3>3, OneBootStays
  <2>4. CASE boot[s].version \in (applied + 1)..Latest /\ Stage(s, "apply")
    <3> DEFINE row == [boot[s] EXCEPT !.at = "apply"]
    <3>1. row.at = "apply" /\ row.version = boot[s].version /\ row.secret = boot[s].secret
      BY <1>1 DEF Stages
    <3>2. boot' = [boot EXCEPT ![s] = row]
      BY <1>1, <2>4 DEF Stage
    <3> HIDE DEF row
    <3>3. 1 <= boot[s].version /\ boot[s].version <= Latest
      BY <1>1, <2>4
    <3>4. BootFits(row, applied, signing, generated)
      BY <1>1, <3>1, <3>3 DEF BootFits, Migrated, Secretive, Settled
    <3>5. QED
      BY <1>0, <2>1, <3>2, <3>4, OneBootStays
  <2>5. QED
    BY <1>1, <1>3, <2>2, <2>3, <2>4 DEF CheckMigration
<1>4. CASE ApplyMigration(s)
  <2>1. boot[s].at = "apply" /\ UNCHANGED <<signing, generated>>
    BY <1>4 DEF ApplyMigration
  <2>2. 1 <= boot[s].version /\ boot[s].version <= Latest
    BY <1>1, <2>1 DEF BootFits
  <2>3. CASE schema < boot[s].version
    <3> DEFINE moved == [boot[s] EXCEPT !.at = "migrate"]
               row == [boot[s] EXCEPT !.at = "migrate", !.version = boot[s].version + 1]
    <3>1. /\ schema' = boot[s].version /\ applied' = boot[s].version
          /\ boot' = [boot EXCEPT ![s] = row]
      BY <1>4, <2>3 DEF ApplyMigration
    <3>2. row.at = "migrate" /\ row.version = boot[s].version + 1 /\ row.secret = boot[s].secret
      <4>1. moved.at = "migrate" /\ moved.version = boot[s].version /\ moved.secret = boot[s].secret
            /\ moved \in Stages
        BY <1>1 DEF Stages
      <4>2. row = [moved EXCEPT !.version = boot[s].version + 1]
        OBVIOUS
      <4> HIDE DEF moved, row
      <4>3. QED
        BY <4>1, <4>2 DEF Stages
    <3> HIDE DEF row
    <3>3. BootFits(row, applied', signing', generated')
      <4>1. generated' = generated
        BY <2>1
      <4>2. row.version <= Latest + 1 /\ row.version <= applied' + 1 /\ row.secret <= generated'
        BY <1>1, <2>2, <3>1, <3>2, <4>1 DEF BootFits
      <4>3. QED
        BY <3>2, <4>2 DEF BootFits, Migrated, Secretive, Settled
    <3>4. schema' \in 0..Latest /\ schema <= schema'
      BY <1>1, <2>2, <2>3, <3>1
    <3>5. generated <= generated' /\ signing' <= generated' /\ (signing # 0 => signing' # 0)
      BY <1>1, <2>1
    <3>6. QED
      BY <1>0, <3>1, <3>3, <3>4, <3>5, OneBootMoves
  <2>4. CASE ~(schema < boot[s].version)
    <3>1. boot' = [boot EXCEPT ![s] = Down] /\ UNCHANGED startup
      BY <1>4, <2>4 DEF ApplyMigration, startup
    <3>2. QED
      BY <1>0, <3>1, DownIsOK, OneBootStays
  <2>5. QED
    BY <2>3, <2>4
<1>5. CASE ReadSecret(s)
  <2>1. boot[s].at = "secret" /\ UNCHANGED <<schema, applied, signing>> /\ applied = Latest
    BY <1>1, <1>5 DEF ReadSecret, BootFits, Migrated
  <2>2. CASE signing # 0
    <3> DEFINE moved == [boot[s] EXCEPT !.at = "admin"]
               row == [boot[s] EXCEPT !.at = "admin", !.secret = signing]
    <3>1. boot' = [boot EXCEPT ![s] = row] /\ UNCHANGED startup
      BY <1>1, <1>5, <2>2 DEF ReadSecret, startup
    <3>2. row.at = "admin" /\ row.version = boot[s].version /\ row.secret = signing
      <4>1. moved.at = "admin" /\ moved.version = boot[s].version /\ moved \in Stages
        BY <1>1 DEF Stages
      <4>2. row = [moved EXCEPT !.secret = signing]
        OBVIOUS
      <4> HIDE DEF moved, row
      <4>3. QED
        BY <4>1, <4>2 DEF Stages
    <3> HIDE DEF row
    <3>3. BootFits(row, applied, signing, generated)
      BY <1>1, <2>1, <2>2, <3>2 DEF BootFits
    <3>4. QED
      BY <1>0, <3>1, <3>3, OneBootStays
  <2>3. CASE ~(signing # 0)
    <3> DEFINE moved == [boot[s] EXCEPT !.at = "store"]
               row == [boot[s] EXCEPT !.at = "store", !.secret = generated + 1]
    <3>1. boot' = [boot EXCEPT ![s] = row] /\ generated' = generated + 1
      BY <1>1, <1>5, <2>3 DEF ReadSecret
    <3>2. row.at = "store" /\ row.version = boot[s].version /\ row.secret = generated + 1
      <4>1. moved.at = "store" /\ moved.version = boot[s].version /\ moved \in Stages
        BY <1>1 DEF Stages
      <4>2. row = [moved EXCEPT !.secret = generated + 1]
        OBVIOUS
      <4> HIDE DEF moved, row
      <4>3. QED
        BY <4>1, <4>2 DEF Stages
    <3> HIDE DEF row
    <3>3. BootFits(row, applied', signing', generated')
      BY <1>1, <2>1, <3>1, <3>2 DEF BootFits, Settled
    <3>4. schema' \in 0..Latest /\ applied' = schema' /\ schema <= schema'
      BY <1>1, <2>1
    <3>5. generated <= generated' /\ signing' <= generated' /\ (signing # 0 => signing' # 0)
      BY <1>1, <2>1, <3>1
    <3>6. QED
      BY <1>0, <3>1, <3>3, <3>4, <3>5, OneBootMoves
  <2>4. QED
    BY <2>2, <2>3
<1>6. CASE StoreSecret(s)
  <2> DEFINE row == [boot[s] EXCEPT !.at = "admin"]
  <2>1. /\ boot[s].at = "store" /\ UNCHANGED <<schema, applied, generated>>
        /\ signing' = boot[s].secret /\ boot' = [boot EXCEPT ![s] = row]
    BY <1>1, <1>6 DEF StoreSecret, Stage
  <2>2. row.at = "admin" /\ row.version = boot[s].version /\ row.secret = boot[s].secret
    BY <1>1 DEF Stages
  <2> HIDE DEF row
  <2>3. boot[s].secret # 0 /\ boot[s].secret <= generated /\ applied = Latest
    BY <1>1, <2>1 DEF BootFits, Secretive, Migrated
  <2>4. BootFits(row, applied', signing', generated')
    BY <1>1, <2>1, <2>2, <2>3 DEF BootFits
  <2>5. schema' \in 0..Latest /\ applied' = schema' /\ schema <= schema'
    BY <1>1, <2>1
  <2>6. generated <= generated' /\ signing' <= generated' /\ (signing # 0 => signing' # 0)
    BY <1>1, <2>1, <2>3
  <2>7. QED
    BY <1>0, <2>1, <2>4, <2>5, <2>6, OneBootMoves
<1>7. ASSUME NEW at \in {"keys", "adopt", "up"}, boot[s].at \in {"admin", "keys", "adopt"},
             Stage(s, at), UNCHANGED startup
      PROVE  BootInv'
  <2> DEFINE row == [boot[s] EXCEPT !.at = at]
  <2>1. row.at = at /\ row.version = boot[s].version /\ row.secret = boot[s].secret
    BY <1>1 DEF Stages
  <2>2. boot' = [boot EXCEPT ![s] = row]
    BY <1>1, <1>7 DEF Stage
  <2> HIDE DEF row
  <2>3. BootFits(row, applied, signing, generated)
    BY <1>1, <1>7, <2>1 DEF BootFits, Migrated, Secretive, Settled
  <2>4. QED
    BY <1>0, <1>7, <2>2, <2>3, OneBootStays
<1>8. CASE RegisterAdmin(s)
  BY <1>7, <1>8 DEF RegisterAdmin
<1>9. CASE CheckKeys(s)
  <2>1. boot[s].at = "keys" /\ UNCHANGED startup /\ (Stage(s, "up") \/ Stage(s, "adopt"))
    BY <1>9 DEF CheckKeys
  <2>2. QED
    BY <1>7, <2>1
<1>10. CASE AdoptBootstrapKey(s)
  BY <1>7, <1>10 DEF AdoptBootstrapKey
<1>11. QED
  BY <1>2, <1>3, <1>4, <1>5, <1>6, <1>8, <1>9, <1>10 DEF Boot

\* A boot that ended starts again, and no page touches a boot.
LEMMA NextBoots == WriteInv /\ BootInv /\ [Next]_vars => BootInv'
<1> SUFFICES ASSUME WriteInv, BootInv, [Next]_vars PROVE BootInv'
  OBVIOUS
<1>0. SecretsOK /\ SecretsOK'
  BY NextWrites DEF WriteInv
<1>1. ASSUME NEW s \in Processes, Boot(s) PROVE BootInv'
  BY <1>0, <1>1, BootingIsOK
<1>2. ASSUME NEW s \in Processes, Crash(s) PROVE BootInv'
  <2>1. boot' = [boot EXCEPT ![s] = Down] /\ UNCHANGED startup
    BY <1>2 DEF Crash
  <2>2. QED
    BY <1>0, <2>1, DownIsOK, OneBootStays
<1>3. ASSUME UNCHANGED <<startup, boot>> PROVE BootInv'
  BY <1>3 DEF BootInv, startup
<1>4. ASSUME NEW s \in Processes, Check(s) \/ Act(s) PROVE BootInv'
  BY <1>3, <1>4 DEF Check, Act
<1>5. ASSUME NEW s, NEW p, NEW via, NEW op, Arrive(s, p, via, op) PROVE BootInv'
  BY <1>3, <1>5 DEF Arrive
<1>6. ASSUME Administer PROVE BootInv'
  BY <1>3, <1>6 DEF Administer
<1>7. CASE UNCHANGED vars
  BY <1>3, <1>7 DEF vars
<1>8. QED
  BY <1>1, <1>2, <1>4, <1>5, <1>6, <1>7, Zenon DEF Next

LEMMA InitBoots == Init => BootInv
<1> SUFFICES ASSUME Init PROVE BootInv
  OBVIOUS
<1>1. Latest \in Nat \ {0} /\ applied = schema /\ generated = signing
      /\ \A s \in Processes : boot[s] = Down
  BY ServersAssumption DEF Init
<1>2. (schema = 0 /\ signing = 0) \/ (schema = Latest - 1 /\ signing = 1)
  BY DEF Init
<1>3. schema \in 0..Latest /\ generated \in Nat
  BY <1>1, <1>2
<1>4. BootFits(Down, applied, signing, generated)
  BY <1>1, <1>3 DEF BootFits, Down, Migrated, Secretive, Settled
<1>5. signing <= generated
  BY <1>1, <1>3
<1>6. QED
  BY <1>1, <1>3, <1>4, <1>5 DEF BootInv

LEMMA BootsHold == Spec => []BootInv
BY InitBoots, NextBoots, WritesHold, PTL DEF Spec

-----------------------------------------------------------------------------
(* Types: the tables                                                       *)

KeyRow == [owner : People, revoked : BOOLEAN]
KeysTyped == keys \in [Keys -> KeyRow \cup {NoKey}]

\* Every signature was made with a secret that somebody generated.
Made(row) == row.signature.secret \in 1..generated
Signed == \A i \in Rows : Made(skills[i])

Counted ==
    /\ fresh \subseteq Processes
    /\ overtaken \subseteq {s \in Processes : request[s].at = "act"}
    /\ requests \in 0..MaxRequests /\ changes \in 0..MaxChanges /\ crashes \in 0..MaxCrashes

ShapeInv == DirectoryTypeOK /\ KeysTyped /\ Signed /\ Counted

LEMMA KeyMade ==
    ASSUME KeysTyped, NEW k, NEW row \in KeyRow, keys' = [keys EXCEPT ![k] = row]
    PROVE  KeysTyped'
BY DEF KeysTyped

LEMMA KeyRevoked ==
    ASSUME KeysTyped, NEW k \in Keys, NEW who, RevokeKey(k, who)
    PROVE  KeysTyped'
<1>1. CASE Live(k) /\ keys[k].owner = who
  <2> DEFINE row == [keys[k] EXCEPT !.revoked = TRUE]
  <2>1. keys' = [keys EXCEPT ![k] = row]
    BY <1>1 DEF RevokeKey
  <2>2. keys[k] \in KeyRow
    BY <1>1, Zenon DEF Live, KeysTyped
  <2>3. row \in KeyRow
    BY <2>2 DEF KeyRow
  <2> HIDE DEF row
  <2>4. QED
    BY <2>1, <2>3, KeyMade
<1>2. CASE ~(Live(k) /\ keys[k].owner = who)
  BY <1>2 DEF RevokeKey, KeysTyped
<1>3. QED
  BY <1>1, <1>2

LEMMA AskedKeys ==
    ASSUME NEW op \in Asked, op.kind \in {"mint", "revoke"}
    PROVE  op.key \in Keys
BY DEF Asked

\* What a handler writes to the keys.
LEMMA WritingKeys ==
    ASSUME KeysTyped, NEW s \in Processes, NEW op \in Asked, Write(s, op),
           request[s].who \in People
    PROVE  KeysTyped'
<1>1. CASE UNCHANGED keys
  BY <1>1 DEF KeysTyped
<1>2. CASE op.kind = "mint" /\ MintKey(op.key, request[s].who)
  <2>1. [owner |-> request[s].who, revoked |-> FALSE] \in KeyRow
    BY DEF KeyRow
  <2>2. QED
    BY <1>2, <2>1, KeyMade DEF MintKey
<1>3. CASE op.kind = "revoke" /\ RevokeKey(op.key, request[s].who)
  BY <1>3, AskedKeys, KeyRevoked
<1>4. QED
  BY <1>1, <1>2, <1>3 DEF Write

LEMMA BootingKeys ==
    ASSUME KeysTyped, NEW s \in Processes, Boot(s)
    PROVE  KeysTyped'
<1>1. CASE UNCHANGED keys
  BY <1>1 DEF KeysTyped
<1>2. CASE AdoptBootstrapKey(s)
  <2>1. [owner |-> Admin, revoked |-> FALSE] \in KeyRow
    BY ServersAssumption DEF KeyRow
  <2>2. QED
    BY <1>1, <1>2, <2>1, KeyMade DEF AdoptBootstrapKey, AdoptKey
<1>3. QED
  BY <1>1, <1>2 DEF Boot, Start, CheckMigration, ApplyMigration, ReadSecret, StoreSecret,
                    RegisterAdmin, CheckKeys

\* What a process writes is signed with the secret it holds.
LEMMA WritingIsMade ==
    ASSUME WriteInv, Signed, NEW s \in Processes, NEW op \in Asked, Write(s, op),
           boot[s].secret \in 1..generated, UNCHANGED generated
    PROVE  Signed'
<1>1. SkillsTyped
  BY DEF WriteInv
<1>2. ASSUME NEW j \in SkillIds, NEW row, Made(row), skills' = [skills EXCEPT ![j] = row]
      PROVE  Signed'
  <2>1. ASSUME NEW i \in Rows' PROVE skills'[i].signature.secret \in 1..generated
    BY <1>1, <1>2, <2>1 DEF SkillsTyped, Rows, Signed, Made
  <2>2. QED
    BY <2>1 DEF Signed, Made
<1>3. CASE UNCHANGED skills
  BY <1>3 DEF Rows, Signed, Made
<1>4. ASSUME NEW j \in SkillIds, CreateSkill(j, boot[s].secret, op.scope, op.manifest)
      PROVE  Signed'
  <2> DEFINE row == [scope |-> op.scope, manifest |-> op.manifest, status |-> "draft",
                     signature |-> Sign(boot[s].secret, op.scope, op.manifest)]
  <2>1. Made(row)
    BY DEF Made, Sign
  <2>2. skills' = [skills EXCEPT ![j] = row]
    BY <1>4 DEF CreateSkill
  <2> HIDE DEF row
  <2>3. QED
    BY <1>2, <2>1, <2>2
<1>5. ASSUME op.id \in SkillIds, UpdateSkill(op.id, boot[s].secret, op.manifest)
      PROVE  Signed'
  <2> DEFINE row == [skills[op.id] EXCEPT !.manifest = op.manifest, !.status = "draft",
                        !.signature = Sign(boot[s].secret, skills[op.id].scope, op.manifest)]
  <2>1. op.id \in Rows /\ skills' = [skills EXCEPT ![op.id] = row]
    BY <1>5 DEF UpdateSkill
  <2>2. skills[op.id] \in SkillRow(Nat)
    BY <1>1, <2>1 DEF SkillsTyped, Rows
  <2>3. Made(row)
    BY <2>2 DEF Made, Sign, SkillRow
  <2> HIDE DEF row
  <2>4. QED
    BY <1>2, <1>5, <2>1, <2>3
<1>6. ASSUME op.id \in SkillIds, NEW status, SetStatus(op.id, status), op.id \in Rows
      PROVE  Signed'
  <2> DEFINE row == [skills[op.id] EXCEPT !.status = status]
  <2>1. skills' = [skills EXCEPT ![op.id] = row]
    BY <1>6 DEF SetStatus
  <2>2. skills[op.id] \in SkillRow(Nat) /\ Made(skills[op.id])
    BY <1>1, <1>6 DEF SkillsTyped, Rows, Signed
  <2>3. Made(row)
    BY <2>2 DEF Made, SkillRow
  <2> HIDE DEF row
  <2>4. QED
    BY <1>2, <1>6, <2>1, <2>3
<1>7. ASSUME op.id \in SkillIds, skills' = [skills EXCEPT ![op.id] = Gone]
      PROVE  Signed'
  <2>1. ASSUME NEW i \in Rows' PROVE i \in Rows /\ skills'[i] = skills[i]
    BY <1>1, <1>7, <2>1 DEF SkillsTyped, Rows
  <2>2. ASSUME NEW i \in Rows' PROVE skills'[i].signature.secret \in 1..generated
    BY <2>1, <2>2 DEF Signed, Made
  <2>3. QED
    BY <2>2 DEF Signed, Made
<1>8. CASE op.kind = "create"
  BY <1>3, <1>4, <1>8 DEF Write
<1>9. CASE op.kind = "update"
  BY <1>3, <1>5, <1>9, AskedIs DEF Write
<1>10. CASE op.kind = "status"
  <2>1. op.id \in SkillIds /\ SetStatus(op.id, op.status)
    BY <1>10, AskedIs DEF Write
  <2>2. QED
    BY <1>3, <1>6, <2>1 DEF SetStatus
<1>11. CASE op.kind = "delete"
  <2>1. op.id \in SkillIds /\ DeleteSkill(op.id)
    BY <1>11, AskedIs DEF Write
  <2>2. QED
    BY <1>3, <1>7, <2>1 DEF DeleteSkill
<1>12. CASE op.kind \in {"mint", "revoke"}
  BY <1>3, <1>12 DEF Write
<1>13. QED
  BY <1>8, <1>9, <1>10, <1>11, <1>12, AskedIs

\* Secrets that are generated later make no signature invalid.
LEMMA MadeBefore ==
    ASSUME Signed, UNCHANGED skills, generated \in Nat, generated' \in Nat,
           generated <= generated'
    PROVE  Signed'
<1>1. ASSUME NEW i \in Rows' PROVE skills'[i].signature.secret \in 1..generated'
  <2>1. i \in Rows /\ skills[i].signature.secret \in 1..generated
    BY <1>1 DEF Rows, Signed, Made
  <2>2. QED
    BY <2>1
<1>2. QED
  BY <1>1 DEF Signed, Made

-----------------------------------------------------------------------------
(* Types: the directory                                                    *)

\* Who is known stays known.
LEMMA KnownStay ==
    ASSUME DirectoryTypeOK, people' \in [People -> Person],
           \A p \in People : Known(p) => Known(p)',
           UNCHANGED <<channels, channelMembers, groupKey, groupMembers, identities, bindings>>
    PROVE  DirectoryTypeOK'
<1>1. {p \in People : Known(p)} \subseteq {p \in People : Known(p)'}
  OBVIOUS
<1>2. channelMembers \subseteq channels \X {p \in People : Known(p)'}
  BY <1>1 DEF DirectoryTypeOK
<1>3. groupMembers \subseteq {g \in GroupIds : groupKey[g] # {}} \X {p \in People : Known(p)'}
  BY <1>1 DEF DirectoryTypeOK
<1>4. QED
  BY <1>2, <1>3 DEF DirectoryTypeOK

LEMMA Upserting ==
    ASSUME DirectoryTypeOK, NEW p \in People, UpsertPrincipal(p, "internal"),
           UNCHANGED <<channels, channelMembers, groupKey, groupMembers, identities, bindings>>
    PROVE  DirectoryTypeOK'
<1> DEFINE row == IF Known(p) THEN [people[p] EXCEPT !.kind = "internal"]
                  ELSE [kind |-> "internal", active |-> TRUE]
<1>1. people \in [People -> Person] /\ people' = [people EXCEPT ![p] = row]
  BY DEF UpsertPrincipal, DirectoryTypeOK
<1>2. row \in Person /\ row.kind = "internal"
  <2>1. CASE Known(p)
    <3>1. people[p] \in [kind : Kinds, active : BOOLEAN]
      BY <1>1, <2>1 DEF Person, Known
    <3>2. QED
      BY <2>1, <3>1 DEF Person, Kinds
  <2>2. CASE ~Known(p)
    BY <2>2 DEF Person, Kinds
  <2>3. QED
    BY <2>1, <2>2
<1> HIDE DEF row
<1>3. row # NoPerson
  BY <1>2 DEF NoPerson
<1>4. people' \in [People -> Person] /\ \A q \in People : Known(q) => Known(q)'
  BY <1>1, <1>2, <1>3 DEF Known
<1>5. QED
  BY <1>4, KnownStay

LEMMA SettingActive ==
    ASSUME DirectoryTypeOK, NEW p \in People, NEW active \in BOOLEAN, SetActive(p, active),
           UNCHANGED <<channels, channelMembers, groupKey, groupMembers, identities, bindings>>
    PROVE  DirectoryTypeOK'
<1> DEFINE row == [people[p] EXCEPT !.active = active]
<1>1. people \in [People -> Person] /\ Known(p) /\ people' = [people EXCEPT ![p] = row]
  BY DEF SetActive, DirectoryTypeOK
<1>2. people[p] \in [kind : Kinds, active : BOOLEAN]
  BY <1>1 DEF Person, Known
<1>3. row \in [kind : Kinds, active : BOOLEAN]
  BY <1>2
<1> HIDE DEF row
<1>4. row \in Person /\ row # NoPerson
  BY <1>3 DEF Person, NoPerson, Kinds
<1>5. people' \in [People -> Person] /\ \A q \in People : Known(q) => Known(q)'
  BY <1>1, <1>4 DEF Known
<1>6. QED
  BY <1>5, KnownStay

\* A group is given people, or none: those it names are its members.
LEMMA Grouping ==
    ASSUME DirectoryTypeOK, NEW g \in GroupIds, NEW key \in SUBSET People,
           \A p \in key : Known(p),
           groupKey' = [groupKey EXCEPT ![g] = key],
           groupMembers' = {m \in groupMembers : m[1] # g} \cup {<<g, p>> : p \in key},
           UNCHANGED <<people, channels, channelMembers, identities, bindings>>
    PROVE  DirectoryTypeOK'
<1>1. groupKey' \in [GroupIds -> SUBSET People]
  BY DEF DirectoryTypeOK
<1>2. \A q \in People : Known(q)' <=> Known(q)
  BY DEF Known
<1>3. ASSUME NEW m \in groupMembers'
      PROVE  m \in {h \in GroupIds : groupKey'[h] # {}} \X {q \in People : Known(q)}
  <2>1. CASE m \in groupMembers /\ m[1] # g
    <3>1. PICK h \in GroupIds, q \in People :
              m = <<h, q>> /\ groupKey[h] # {} /\ Known(q)
      BY <2>1 DEF DirectoryTypeOK
    <3>2. h # g /\ groupKey'[h] = groupKey[h]
      BY <2>1, <3>1 DEF DirectoryTypeOK
    <3>3. QED
      BY <3>1, <3>2
  <2>2. CASE \E p \in key : m = <<g, p>>
    <3>1. groupKey'[g] = key
      BY DEF DirectoryTypeOK
    <3>2. QED
      BY <2>2, <3>1
  <2>3. QED
    BY <1>3, <2>1, <2>2
<1>4. groupMembers' \subseteq {h \in GroupIds : groupKey'[h] # {}} \X {q \in People : Known(q)'}
  BY <1>2, <1>3
<1>5. channelMembers' \subseteq channels' \X {q \in People : Known(q)'}
  BY <1>2 DEF DirectoryTypeOK
<1>6. QED
  BY <1>1, <1>4, <1>5 DEF DirectoryTypeOK

LEMMA SavingGroup ==
    ASSUME DirectoryTypeOK, SaveGroup, UNCHANGED <<channels, channelMembers, identities, bindings>>
    PROVE  DirectoryTypeOK'
<1>1. PICK p \in People : UpsertGroup(Ops, <<Admin, p>>) /\ UNCHANGED people
  BY DEF SaveGroup
<1> DEFINE key == ParticipantKey(<<Admin, p>>)
           g == GroupOf(key, Ops)
<1>2. key \in SUBSET People
  <2>1. DOMAIN <<Admin, p>> = 1..2 /\ <<Admin, p>>[1] = Admin /\ <<Admin, p>>[2] = p
    OBVIOUS
  <2>2. QED
    BY <2>1, ServersAssumption DEF ParticipantKey
<1>3. g \in GroupIds
  BY ServersAssumption DEF GroupOf
<1>4. /\ \A q \in key : Known(q)
      /\ groupKey' = [groupKey EXCEPT ![g] = key]
      /\ groupMembers' = {m \in groupMembers : m[1] # g} \cup {<<g, q>> : q \in key}
  BY <1>1 DEF UpsertGroup
<1> HIDE DEF key, g
<1>5. QED
  BY <1>1, <1>2, <1>3, <1>4, Grouping

LEMMA RemovingGroup ==
    ASSUME DirectoryTypeOK, RemoveGroup, UNCHANGED <<channels, channelMembers, identities, bindings>>
    PROVE  DirectoryTypeOK'
<1>1. /\ groupKey' = [groupKey EXCEPT ![Ops] = {}]
      /\ groupMembers' = {m \in groupMembers : m[1] # Ops} \cup {<<Ops, q>> : q \in {}}
      /\ UNCHANGED people
  BY DEF RemoveGroup, DeleteGroup
<1>2. QED
  BY <1>1, ServersAssumption, Grouping

-----------------------------------------------------------------------------
(* Types: the steps                                                        *)

LEMMA SameCounted ==
    ASSUME Counted, UNCHANGED <<fresh, request, overtaken, counters>>
    PROVE  Counted'
BY DEF Counted, counters

LEMMA SameDirectoryTyped ==
    ASSUME DirectoryTypeOK, UNCHANGED directory
    PROVE  DirectoryTypeOK'
<1>1. UNCHANGED <<people, channels, channelMembers, groupKey, groupMembers, identities, bindings>>
  BY DEF directory
<1>2. people' \in [People -> Person] /\ \A p \in People : Known(p) => Known(p)'
  BY <1>1 DEF DirectoryTypeOK, Known
<1>3. QED
  BY <1>1, <1>2, KnownStay

\* Where the tables stay and requests are counted.
LEMMA SameShape ==
    ASSUME WriteInv, ShapeInv, UNCHANGED <<directory, skills, keys, generated>>, Counted'
    PROVE  ShapeInv'
<1>1. DirectoryTypeOK'
  BY SameDirectoryTyped DEF ShapeInv
<1>2. KeysTyped'
  BY DEF ShapeInv, KeysTyped
<1>3. generated \in Nat
  BY DEF WriteInv, SecretsOK
<1>4. Signed'
  BY <1>3, MadeBefore DEF ShapeInv
<1>5. QED
  BY <1>1, <1>2, <1>4 DEF ShapeInv

LEMMA BootingShape ==
    ASSUME WriteInv, ShapeInv, NEW s \in Processes, Boot(s)
    PROVE  ShapeInv'
<1>1. UNCHANGED <<channels, channelMembers, groupKey, groupMembers, identities, bindings,
                  skills, request, overtaken, counters>>
  BY DEF Boot
<1>2. DirectoryTypeOK'
  <2>1. CASE RegisterAdmin(s)
    BY <1>1, <2>1, Upserting, ServersAssumption DEF RegisterAdmin, ShapeInv
  <2>2. CASE UNCHANGED people
    BY <1>1, <2>2, SameDirectoryTyped DEF ShapeInv, directory
  <2>3. QED
    BY <2>1, <2>2 DEF Boot, Start, CheckMigration, ApplyMigration, ReadSecret, StoreSecret,
                      CheckKeys, AdoptBootstrapKey
<1>3. KeysTyped'
  BY BootingKeys DEF ShapeInv
<1>4. generated \in Nat /\ generated' \in Nat
  BY BootingSecrets DEF WriteInv, SecretsOK
<1>5. generated <= generated' /\ (fresh' = fresh \/ fresh' = fresh \cup {s})
  <2>1. CASE ReadSecret(s)
    BY <1>4, <2>1 DEF ReadSecret
  <2>2. CASE UNCHANGED <<generated, fresh>>
    BY <1>4, <2>2
  <2>3. QED
    BY <2>1, <2>2 DEF Boot, Start, CheckMigration, ApplyMigration, StoreSecret,
                      RegisterAdmin, CheckKeys, AdoptBootstrapKey, startup
<1>6. Signed'
  BY <1>1, <1>4, <1>5, MadeBefore DEF ShapeInv
<1>7. Counted'
  BY <1>1, <1>5 DEF ShapeInv, Counted, counters
<1>8. QED
  BY <1>2, <1>3, <1>6, <1>7 DEF ShapeInv

LEMMA ActingShape ==
    ASSUME WriteInv, SecretInv, BootInv, ShapeInv, NEW s \in Processes, Act(s)
    PROVE  ShapeInv'
<1>1. /\ UNCHANGED <<directory, startup, boot, counters>>
      /\ request' = [request EXCEPT ![s] = Quiet]
      /\ overtaken' = overtaken \ {s}
      /\ request[s].at = "act"
      /\ Write(s, request[s].op)
  BY DEF Act
<1>2. request[s].op \in Asked /\ request[s].who \in People /\ request[s] # Quiet
  BY <1>1, QuietIsOK DEF WriteInv, RequestOK, Busy
<1>3. boot[s].secret \in 1..generated
  <2>1. Up(s)
    BY <1>2 DEF SecretInv
  <2>2. boot[s].secret \in Nat /\ generated \in Nat
    BY DEF WriteInv, SecretsOK, Stages
  <2>3. boot[s].secret # 0 /\ boot[s].secret <= generated
    BY <2>1 DEF BootInv, BootFits, Up, Secretive
  <2>4. QED
    BY <2>2, <2>3
<1>4. Signed'
  BY <1>1, <1>2, <1>3, WritingIsMade DEF ShapeInv, startup
<1>5. KeysTyped'
  BY <1>1, <1>2, WritingKeys DEF ShapeInv
<1>6. DirectoryTypeOK'
  BY <1>1, SameDirectoryTyped DEF ShapeInv
<1>7. \A t \in Processes : t # s => request'[t] = request[t]
  BY <1>1
<1>8. Counted'
  BY <1>1, <1>7 DEF ShapeInv, Counted, counters, startup
<1>9. QED
  BY <1>4, <1>5, <1>6, <1>8 DEF ShapeInv

LEMMA AdministeringShape ==
    ASSUME WriteInv, ShapeInv, Administer
    PROVE  ShapeInv'
<1>1. /\ UNCHANGED <<channels, channelMembers, identities, bindings, skills, keys, startup,
                     boot, request, requests, crashes>>
      /\ changes < MaxChanges /\ changes' = changes + 1
      /\ overtaken' = {s \in Processes : request[s].at = "act"}
      /\ Invite \/ Deactivate \/ SaveGroup \/ RemoveGroup
  BY DEF Administer
<1>2. DirectoryTypeOK
  BY DEF ShapeInv
<1>3. DirectoryTypeOK'
  <2>1. CASE Invite
    <3>1. PICK p \in Invited : UpsertPrincipal(p, "internal") /\ UNCHANGED <<groupKey, groupMembers>>
      BY <2>1 DEF Invite
    <3>2. p \in People
      BY ServersAssumption
    <3>3. QED
      BY <1>1, <1>2, <3>1, <3>2, Upserting
  <2>2. CASE Deactivate
    <3>1. PICK p \in Invited, active \in BOOLEAN :
              SetActive(p, active) /\ UNCHANGED <<groupKey, groupMembers>>
      BY <2>2 DEF Deactivate
    <3>2. p \in People
      BY ServersAssumption
    <3>3. QED
      BY <1>1, <1>2, <3>1, <3>2, SettingActive
  <2>3. CASE SaveGroup
    BY <1>1, <1>2, <2>3, SavingGroup
  <2>4. CASE RemoveGroup
    BY <1>1, <1>2, <2>4, RemovingGroup
  <2>5. QED
    BY <1>1, <2>1, <2>2, <2>3, <2>4
<1>4. generated \in Nat /\ generated' = generated /\ fresh' = fresh
  BY <1>1 DEF WriteInv, SecretsOK, startup
<1>5. Signed'
  BY <1>1, <1>4, MadeBefore DEF ShapeInv
<1>6. KeysTyped'
  BY <1>1 DEF ShapeInv, KeysTyped
<1>7. changes' \in 0..MaxChanges
  BY <1>1, ServersAssumption DEF ShapeInv, Counted
<1>8. Counted'
  BY <1>1, <1>4, <1>7 DEF ShapeInv, Counted
<1>9. QED
  BY <1>3, <1>5, <1>6, <1>8 DEF ShapeInv

LEMMA NextShape == WriteInv /\ SecretInv /\ BootInv /\ ShapeInv /\ [Next]_vars => ShapeInv'
<1> SUFFICES ASSUME WriteInv, SecretInv, BootInv, ShapeInv, [Next]_vars PROVE ShapeInv'
  OBVIOUS
<1>1. ASSUME NEW s \in Processes, Boot(s) PROVE ShapeInv'
  BY <1>1, BootingShape
<1>2. ASSUME NEW s \in Processes, Crash(s) PROVE ShapeInv'
  <2>1. /\ UNCHANGED <<directory, skills, keys, startup, requests, changes>>
        /\ crashes < MaxCrashes /\ crashes' = crashes + 1
        /\ request' = [request EXCEPT ![s] = Quiet] /\ overtaken' = overtaken \ {s}
    BY <1>2 DEF Crash
  <2>2. \A t \in Processes : t # s => request'[t] = request[t]
    BY <2>1
  <2>3. crashes' \in 0..MaxCrashes
    BY <2>1, ServersAssumption DEF ShapeInv, Counted
  <2>4. generated' = generated /\ fresh' = fresh
    BY <2>1 DEF startup
  <2>5. Counted'
    BY <2>1, <2>2, <2>3, <2>4 DEF ShapeInv, Counted
  <2>6. QED
    BY <2>1, <2>4, <2>5, SameShape
<1>3. ASSUME NEW s \in Processes, Check(s) PROVE ShapeInv'
  <2>1. /\ UNCHANGED <<directory, skills, keys, startup, overtaken, counters>>
        /\ request[s].at = "check"
        /\ \A t \in Processes : t # s => request'[t] = request[t]
    BY <1>3 DEF Check, WriteInv
  <2>2. s \notin overtaken
    BY <2>1 DEF ShapeInv, Counted
  <2>3. overtaken' \subseteq {t \in Processes : request'[t].at = "act"}
    BY <2>1, <2>2 DEF ShapeInv, Counted
  <2>4. generated' = generated /\ fresh' = fresh
    BY <2>1 DEF startup
  <2>5. Counted'
    BY <2>1, <2>3, <2>4 DEF ShapeInv, Counted, counters
  <2>6. QED
    BY <2>1, <2>4, <2>5, SameShape
<1>4. ASSUME NEW s \in Processes, Act(s) PROVE ShapeInv'
  BY <1>4, ActingShape
<1>5. ASSUME NEW s \in Processes, NEW p, NEW via, NEW op, Arrive(s, p, via, op) PROVE ShapeInv'
  <2>1. /\ UNCHANGED <<directory, skills, keys, startup, overtaken, changes, crashes>>
        /\ request[s] = Quiet
        /\ requests < MaxRequests /\ requests' = requests + 1
        /\ \A t \in Processes : t # s => request'[t] = request[t]
    BY <1>5 DEF Arrive, WriteInv
  <2>2. s \notin overtaken
    BY <2>1, QuietIsOK DEF ShapeInv, Counted
  <2>3. overtaken' \subseteq {t \in Processes : request'[t].at = "act"}
    BY <2>1, <2>2 DEF ShapeInv, Counted
  <2>4. requests' \in 0..MaxRequests
    BY <2>1, ServersAssumption DEF ShapeInv, Counted
  <2>5. generated' = generated /\ fresh' = fresh
    BY <2>1 DEF startup
  <2>6. Counted'
    BY <2>1, <2>3, <2>4, <2>5 DEF ShapeInv, Counted
  <2>7. QED
    BY <2>1, <2>5, <2>6, SameShape
<1>6. CASE Administer
  BY <1>6, AdministeringShape
<1>7. CASE UNCHANGED vars
  <2>1. UNCHANGED <<directory, skills, keys, generated, fresh, request, overtaken, counters>>
    BY <1>7 DEF vars, startup
  <2>2. Counted'
    BY <2>1, SameCounted DEF ShapeInv
  <2>3. QED
    BY <2>1, <2>2, SameShape
<1>8. QED
  BY <1>1, <1>2, <1>3, <1>4, <1>5, <1>6, <1>7, Zenon DEF Next

LEMMA InitShape == Init => ShapeInv
<1> SUFFICES ASSUME Init PROVE ShapeInv
  OBVIOUS
<1>1. DirectoryTypeOK
  <2>1. channels = {} /\ channelMembers = {}
        /\ identities \in [Accounts -> People \cup {Nobody}]
        /\ bindings \in [Chats -> SharedScopes \cup {NoScope}]
    BY DEF Init
  <2>2. CASE /\ people = [p \in People |-> NoPerson]
             /\ groupKey = [g \in GroupIds |-> {}] /\ groupMembers = {}
    BY <2>1, <2>2 DEF DirectoryTypeOK, Person
  <2>3. CASE /\ people = [p \in People |-> [kind |-> "internal", active |-> TRUE]]
             /\ groupKey = [g \in GroupIds |-> People] /\ groupMembers = GroupIds \X People
    <3>1. People # {}
      BY ServersAssumption
    <3>2. PICK row : row = [kind |-> "internal", active |-> TRUE]
      OBVIOUS
    <3>3. row \in Person /\ row # NoPerson
      BY <3>2 DEF Person, Kinds, NoPerson
    <3>4. people = [p \in People |-> row]
      BY <2>3, <3>2
    <3>5. people \in [People -> Person] /\ \A p \in People : Known(p)
      BY <3>3, <3>4 DEF Known
    <3>6. groupKey \in [GroupIds -> SUBSET People] /\ \A g \in GroupIds : groupKey[g] # {}
      BY <2>3, <3>1
    <3>7. groupMembers \subseteq {g \in GroupIds : groupKey[g] # {}} \X {p \in People : Known(p)}
      BY <2>3, <3>5, <3>6
    <3>8. QED
      BY <2>1, <3>5, <3>6, <3>7 DEF DirectoryTypeOK
  <2>4. QED
    BY <2>2, <2>3 DEF Init
<1>2. KeysTyped
  BY DEF Init, KeysTyped
<1>3. Signed
  <2>1. CASE skills = [i \in SkillIds |-> NoSkill]
    BY <2>1 DEF Signed, Rows
  <2>2. ASSUME generated = 1, NEW i, NEW m,
               skills = [j \in SkillIds |->
                           IF j # i THEN NoSkill
                           ELSE [scope |-> GroupScope(Ops), manifest |-> m, status |-> "published",
                                 signature |-> Sign(1, GroupScope(Ops), m)]]
        PROVE  Signed
    <3> DEFINE row == [scope |-> GroupScope(Ops), manifest |-> m, status |-> "published",
                       signature |-> Sign(1, GroupScope(Ops), m)]
    <3>1. Made(row)
      BY <2>2 DEF Made, Sign
    <3> HIDE DEF row
    <3>2. skills = [j \in SkillIds |-> IF j # i THEN NoSkill ELSE row]
      BY <2>2 DEF row
    <3>3. QED
      BY <3>1, <3>2 DEF Signed, Rows
  <2>3. CASE /\ signing = 1 /\ generated = signing
             /\ LET i == CHOOSE j \in SkillIds : TRUE
                    m == CHOOSE n \in Manifests : TRUE
                IN  skills = [j \in SkillIds |->
                       IF j # i THEN NoSkill
                       ELSE [scope |-> GroupScope(Ops), manifest |-> m, status |-> "published",
                             signature |-> Sign(1, GroupScope(Ops), m)]]
    BY <2>2, <2>3, Zenon
  <2>4. QED
    BY <2>1, <2>3 DEF Init
<1>4. Counted
  BY ServersAssumption DEF Init, Counted
<1>5. QED
  BY <1>1, <1>2, <1>3, <1>4 DEF ShapeInv

LEMMA ShapeHolds == Spec => []ShapeInv
BY InitShape, NextShape, WritesHold, SecretsHold, BootsHold, PTL DEF Spec

\* The tables are well formed at every step of any processes that boot, crash,
\* serve and are administered: who serves has found every migration applied and a
\* secret stored (main.rs, db.rs), every signature was made with a secret some
\* boot generated, members are people there are of groups there are, and a
\* handler works only on a process that is up.
THEOREM ServersTypeCorrect == Spec => []TypeOK
<1>1. ASSUME WriteInv, SecretInv, BootInv, ShapeInv PROVE TypeOK
  <2>1. generated \in Nat /\ signing \in Nat /\ boot \in [Processes -> Stages]
    BY <1>1 DEF WriteInv, SecretsOK
  <2>2. skills \in [SkillIds -> SkillRow(1..generated) \cup {NoSkill, Gone}]
    <3>1. ASSUME NEW i \in SkillIds
          PROVE  skills[i] \in SkillRow(1..generated) \cup {NoSkill, Gone}
      <4>1. CASE i \in Rows
        <5>1. skills[i] \in SkillRow(Nat) /\ skills[i].signature.secret \in 1..generated
          BY <1>1, <4>1 DEF WriteInv, SkillsTyped, Rows, ShapeInv, Signed, Made
        <5>2. QED
          BY <5>1 DEF SkillRow
      <4>2. CASE i \notin Rows
        BY <4>2 DEF Rows
      <4>3. QED
        BY <4>1, <4>2
    <3>2. QED
      BY <1>1, <3>1 DEF WriteInv, SkillsTyped
  <2>3. keys \in [Keys -> [owner : People, revoked : BOOLEAN] \cup {NoKey}]
    BY <1>1 DEF ShapeInv, KeysTyped, KeyRow
  <2>4. schema \in 0..Latest /\ applied = schema /\ signing \in 0..generated
    BY <1>1, <2>1 DEF BootInv
  <2>5. ASSUME NEW s \in Processes
        PROVE  /\ boot[s].at \in {"down", "migrate", "apply", "secret", "store", "admin", "keys", "adopt", "up"}
               /\ boot[s].version \in 0..Latest + 1 /\ boot[s].secret \in 0..generated
               /\ Up(s) => applied = Latest /\ signing # 0 /\ boot[s].secret # 0
    <3>1. boot[s] \in Stages /\ BootFits(boot[s], applied, signing, generated)
      BY <1>1, <2>1 DEF BootInv
    <3>2. boot[s].version \in Nat /\ boot[s].secret \in Nat /\ Latest \in Nat
      BY <3>1, ServersAssumption DEF Stages
    <3>3. boot[s].version \in 0..Latest + 1 /\ boot[s].secret \in 0..generated
      BY <2>1, <3>1, <3>2 DEF BootFits
    <3>4. Up(s) => applied = Latest /\ signing # 0 /\ boot[s].secret # 0
      BY <3>1 DEF BootFits, Up, Migrated, Secretive, Settled
    <3>5. QED
      BY <3>1, <3>3, <3>4 DEF Stages
  <2>6. ASSUME NEW s \in Processes
        PROVE  /\ request[s].at \in {"idle", "check", "act"}
               /\ request[s] # Quiet => Up(s) /\ request[s].who \in People /\ request[s].op \in Asked
    <3>1. RequestOK(request[s]) /\ (request[s] # Quiet => Up(s))
      BY <1>1 DEF WriteInv, SecretInv
    <3>2. QED
      BY <3>1, QuietIsOK DEF RequestOK, Busy
  <2>7. DirectoryTypeOK /\ Counted
    BY <1>1 DEF ShapeInv
  <2>8. QED
    BY <2>2, <2>3, <2>4, <2>5, <2>6, <2>7 DEF TypeOK, Counted
<1>2. WriteInv /\ SecretInv /\ BootInv /\ ShapeInv => TypeOK
  BY <1>1
<1>3. QED
  BY <1>2, WritesHold, SecretsHold, BootsHold, ShapeHolds, PTL

=============================================================================
