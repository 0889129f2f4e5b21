---------------------------- MODULE PolicyStages ----------------------------
(***************************************************************************)
(* How resolution.rs builds the command policy of a turn: the built-in      *)
(* floor, then the org's rules, then the rules of the turn's scope.  Two or  *)
(* more scopes resolve over the same org; a standing grant given in one is   *)
(* looked up by key in the others.                                           *)
(***************************************************************************)
EXTENDS CommandPolicy

CONSTANTS
    Scopes,       \* scopes whose policies are resolved
    Floor,        \* `default_org_policy`
    Extensions    \* policies an operator may add, at either stage

ASSUME PolicyAssumption ==
    /\ Floor \in Policy
    /\ Extensions \subseteq Policy
    /\ NoRules \in Extensions

VARIABLES
    org,      \* the org's policy after its stage, or the floor before it
    stage,    \* stage[s]: how far the policy of scope s is resolved
    policy    \* policy[s]: the policy of scope s so far
vars == <<org, stage, policy>>

Init ==
    /\ org = Floor
    /\ stage = [s \in Scopes |-> "floor"]
    /\ policy = [s \in Scopes |-> Floor]

\* The org row of `scopes` is one for all: its rules are the first stage.
AddOrgRules(extension) ==
    /\ \A s \in Scopes : stage[s] = "floor"
    /\ org' = Compose(Floor, extension)
    /\ policy' = [s \in Scopes |-> Compose(Floor, extension)]
    /\ stage' = [s \in Scopes |-> "org"]

\* Then each scope's own; a turn in the org's scope stops at the first stage.
AddScopeRules(s, extension) ==
    /\ stage[s] = "org"
    /\ policy' = [policy EXCEPT ![s] = Compose(org, extension)]
    /\ stage' = [stage EXCEPT ![s] = "scope"]
    /\ UNCHANGED org

Next ==
    \E extension \in Extensions :
        \/ AddOrgRules(extension)
        \/ \E s \in Scopes : AddScopeRules(s, extension)

Spec == Init /\ [][Next]_vars

-----------------------------------------------------------------------------
\* Policies are policies, and before its own stage a scope has exactly the org's.
TypeOK ==
    /\ org \in Policy
    /\ stage \in [Scopes -> {"floor", "org", "scope"}]
    /\ policy \in [Scopes -> Policy]
    /\ \A s \in Scopes :
          /\ stage[s] = "floor" => org = Floor
          /\ stage[s] # "scope" => policy[s] = org

Denied(s, command) == Evaluate(policy[s], command).decision = "deny"

\* "Deny is final" (KNOWLEDGE.md): no stage that comes later lifts a denial of
\* an earlier one, whatever it allows.
KeepsDenials ==
    \A s \in Scopes, command \in Commands : Denied(s, command) => Denied(s, command)'
DenyIsFinal == [][KeepsDenials]_vars

\* `compose_policy` refuses to turn an allowlist into a denylist, so a command
\* no rule mentions never becomes free to run where it was not.
KeepsAllowlist ==
    \A s \in Scopes, command \in Commands :
        /\ Evaluate(policy[s], command).key = AllowlistMiss
        /\ Hits(policy'[s], command) = {}
        => Evaluate(policy'[s], command).decision = "require_approval"
AllowlistStays == [][KeepsAllowlist]_vars

\* A standing grant covers a class, in every scope: commands that ask under one
\* key are matched by one pattern, even when the rules come from different
\* scopes and only happen to sit at the same place of the composed list.
KeyNamesOneClass ==
    \A s, t \in Scopes, c, d \in Commands :
        LET v == Evaluate(policy[s], c)
            w == Evaluate(policy[t], d)
        IN  v.decision = "require_approval" /\ w.decision = "require_approval" /\ v.key = w.key =>
                \/ v.key = AllowlistMiss
                \/ \E i \in Hits(policy[s], c), j \in Hits(policy[t], d) :
                      policy[s].rules[i].pattern = policy[t].rules[j].pattern
                      /\ i = v.key.index /\ j = w.key.index
=============================================================================
