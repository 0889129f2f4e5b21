-------------------------------- MODULE Skills --------------------------------
(***************************************************************************)
(* The skill store, store/skills.rs, with the signatures of skills.rs.  A    *)
(* manifest is a name and a body; the body stands for description,           *)
(* capabilities, text and files.  A signature is what it was made of: HMAC   *)
(* verifies under the secret, the scope and the manifest it was made with,   *)
(* and no other.  Versions are counted for the pages alone, and left out.    *)
(***************************************************************************)
EXTENDS Naturals, FiniteSets, SequencesExt

CONSTANTS
    SkillIds,    \* ids the store gives out
    Names,       \* safe skill names
    Bodies,
    NoSkill,     \* no row yet
    Gone         \* no row any more: the store gives no id twice (`new_id`)

ASSUME SkillAssumption ==
    /\ IsFiniteSet(SkillIds)
    /\ Names # {} /\ Bodies # {}
    /\ NoSkill # Gone

VARIABLES
    skills       \* skills[i]: a row, NoSkill or Gone

Statuses == {"draft", "reviewed", "published", "archived"}
Manifests == [name : Names, body : Bodies]
Rows == {i \in SkillIds : skills[i] \notin {NoSkill, Gone}}

Sign(secret, scope, manifest) == [secret |-> secret, scope |-> scope, manifest |-> manifest]
Verify(secret, row) == row.signature = Sign(secret, row.scope, row.manifest)

\* Taken(scope, name, except): UNIQUE(scope_id, name).
Taken(scope, name, except) ==
    \E i \in Rows \ {except} : skills[i].scope = scope /\ skills[i].manifest.name = name

-----------------------------------------------------------------------------
(* Operations.  The caller passes the secret of its process. *)

CreateSkill(i, secret, scope, manifest) ==
    /\ skills[i] = NoSkill
    /\ ~Taken(scope, manifest.name, i)
    /\ skills' = [skills EXCEPT ![i] =
                     [scope |-> scope, manifest |-> manifest, status |-> "draft",
                      signature |-> Sign(secret, scope, manifest)]]

\* Mutant of UpdateSkill: an edit keeps the status.
UpdateSkillInPlace(i, secret, manifest) ==
    /\ i \in Rows
    /\ ~Taken(skills[i].scope, manifest.name, i)
    /\ skills' = [skills EXCEPT ![i] =
                     [@ EXCEPT !.manifest = manifest,
                               !.signature = Sign(secret, skills[i].scope, manifest)]]

\* Editing signs again and returns the skill to draft.
UpdateSkill(i, secret, manifest) ==
    /\ i \in Rows
    /\ ~Taken(skills[i].scope, manifest.name, i)
    /\ skills' = [skills EXCEPT ![i] =
                     [@ EXCEPT !.manifest = manifest, !.status = "draft",
                               !.signature = Sign(secret, skills[i].scope, manifest)]]

\* UPDATE ... WHERE id: no row, no change.  Any status follows any other.
SetStatus(i, status) ==
    skills' = IF i \in Rows THEN [skills EXCEPT ![i].status = status] ELSE skills

DeleteSkill(i) == skills' = IF i \in Rows THEN [skills EXCEPT ![i] = Gone] ELSE skills

-----------------------------------------------------------------------------
(* What a turn sees *)

Usable(secret, i) == skills[i].status = "published" /\ Verify(secret, skills[i])
In(scope) == {i \in Rows : skills[i].scope = scope}

\* A scope has a usable skill of the name.
Offers(secret, scope, name) ==
    \E i \in In(scope) : Usable(secret, i) /\ skills[i].manifest.name = name

\* visible_for_scopes, `scopes` nearest first: a usable skill is chosen at its
\* scope unless a scope before has one of its name.
VisibleForScopes(secret, scopes) ==
    {i \in Rows :
        /\ Usable(secret, i)
        /\ \E n \in DOMAIN scopes :
              /\ scopes[n] = skills[i].scope
              /\ \A m \in 1..n-1 : ~Offers(secret, scopes[m], skills[i].manifest.name)}
=============================================================================
