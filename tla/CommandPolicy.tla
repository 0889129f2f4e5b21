---------------------------- MODULE CommandPolicy ----------------------------
(***************************************************************************)
(* policy/command.rs: rules over shell commands, evaluated before the       *)
(* `execute` tool runs anything, and how a scope's rules compose with the   *)
(* org's floor.                                                             *)
(*                                                                          *)
(* A rule's regular expression stands for the set of commands whose         *)
(* scannable form it matches; ShellCommand makes that form of a text.       *)
(***************************************************************************)
EXTENDS Integers, Sequences

CONSTANT Commands

Decisions == {"allow", "deny", "require_approval"}
Modes == {"denylist", "allowlist"}
Rule == [pattern : SUBSET Commands, decision : Decisions]
Policy == [mode : Modes, rules : Seq(Rule)]

\* A scope without a policy of its own.
NoRules == [mode |-> "denylist", rules |-> <<>>]

\* Approval keys: "rule:<index>:<pattern>", "allowlist:miss", or "".
NoKey == [index |-> 0, pattern |-> {}]
AllowlistMiss == [index |-> -1, pattern |-> {}]

\* Mutant of Compose: the scope's rules replace the floor's.
ComposeReplacing(floor, scope) ==
    [mode |-> IF floor.mode = "allowlist" THEN "allowlist" ELSE scope.mode,
     rules |-> IF scope.rules = <<>> THEN floor.rules ELSE scope.rules]

\* Mutant of Compose: the scope's mode wins.
ComposeScopeMode(floor, scope) ==
    [mode |-> scope.mode, rules |-> floor.rules \o scope.rules]

\* `compose_policy`: a scope only ever appends, and an allowlist floor stays one.
Compose(floor, scope) ==
    [mode |-> IF floor.mode = "allowlist" THEN "allowlist" ELSE scope.mode,
     rules |-> floor.rules \o scope.rules]

Hits(policy, command) == {i \in DOMAIN policy.rules : command \in policy.rules[i].pattern}
Denials(policy, command) == {i \in Hits(policy, command) : policy.rules[i].decision = "deny"}

\* Mutant of RuleVerdict: a key that names the rule by its place alone.
RuleVerdictByIndex(policy, i) ==
    [decision |-> policy.rules[i].decision, key |-> [index |-> i, pattern |-> {}]]

\* `evaluation`
RuleVerdict(policy, i) ==
    [decision |-> policy.rules[i].decision,
     key |-> [index |-> i, pattern |-> policy.rules[i].pattern]]

\* `evaluate_command`: the first deny is final, otherwise the last match wins.
Evaluate(policy, command) ==
    LET hits == Hits(policy, command)
        denied == Denials(policy, command)
    IN  IF denied # {} THEN RuleVerdict(policy, CHOOSE i \in denied : \A j \in denied : i <= j)
        ELSE IF hits # {} THEN RuleVerdict(policy, CHOOSE i \in hits : \A j \in hits : j <= i)
        ELSE IF policy.mode = "denylist" THEN [decision |-> "allow", key |-> NoKey]
        ELSE [decision |-> "require_approval", key |-> AllowlistMiss]
=============================================================================
