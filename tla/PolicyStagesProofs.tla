------------------------- MODULE PolicyStagesProofs -------------------------
(***************************************************************************)
(* What TLAPS proves of the command policy: for every set of commands and  *)
(* scopes, every floor and every rule an operator may add.                 *)
(***************************************************************************)
EXTENDS PolicyStages, WellFoundedInduction, TLAPS

\* A nonempty set of natural numbers has a least element: a policy has a first
\* rule that denies.
LEMMA LeastElement ==
    ASSUME NEW S \in SUBSET Nat, S # {}
    PROVE  \E t \in S : \A u \in S : t <= u
<1> DEFINE R == {p \in Nat \X Nat : p[1] < p[2]}
<1>1. OpToRel(<, Nat) = R
  BY DEF OpToRel
<1>2. IsWellFoundedOn(R, Nat)
  BY <1>1, NatLessThanWellFounded
<1> HIDE DEF R
<1>3. PICK t \in S : \A u \in S : ~ (<<u, t>> \in R)
  BY <1>2, WFMin
<1>4. \A u \in S : ~ (u < t)
  BY <1>3 DEF R
<1>5. QED
  BY <1>4

\* A nonempty set of indices has a greatest one: a policy has a last rule that
\* matches.
LEMMA GreatestElement ==
    ASSUME NEW n \in Nat, NEW S \in SUBSET (1..n), S # {}
    PROVE  \E t \in S : \A u \in S : u <= t
<1> DEFINE mirror == {n - i : i \in S}
<1>1. mirror \in SUBSET Nat /\ mirror # {}
  <2>1. \A i \in S : n - i \in Nat
    OBVIOUS
  <2>2. mirror \subseteq Nat
    BY <2>1
  <2>3. QED
    BY <2>2
<1>2. PICK m \in mirror : \A u \in mirror : m <= u
  BY <1>1, LeastElement
<1>3. PICK t \in S : m = n - t
  BY <1>2
<1>4. ASSUME NEW u \in S PROVE u <= t
  <2>1. n - t <= n - u
    BY <1>2, <1>3
  <2>2. QED
    BY <2>1
<1>5. QED
  BY <1>4

\* A composed policy is a policy.
LEMMA ComposeTyped ==
    ASSUME NEW p \in Policy, NEW e \in Policy
    PROVE  Compose(p, e) \in Policy
<1>1. p.rules \o e.rules \in Seq(Rule)
  BY DEF Policy
<1>2. QED
  BY <1>1 DEF Compose, Policy

\* A scope only appends: every rule of the floor is where it was.
LEMMA ComposeAppends ==
    ASSUME NEW p \in Policy, NEW e \in Policy, NEW i \in DOMAIN p.rules
    PROVE  /\ i \in DOMAIN Compose(p, e).rules
           /\ Compose(p, e).rules[i] = p.rules[i]
<1>1. p.rules \in Seq(Rule) /\ e.rules \in Seq(Rule)
  BY DEF Policy
<1>2. Compose(p, e).rules = p.rules \o e.rules
  BY DEF Compose
<1> DEFINE floor == p.rules
           added == e.rules
<1>3. floor \in Seq(Rule) /\ added \in Seq(Rule) /\ i \in 1..Len(floor)
  BY <1>1
<1>4. Compose(p, e).rules = floor \o added
  BY <1>2
<1> HIDE DEF floor, added
<1>5. i \in DOMAIN (floor \o added) /\ (floor \o added)[i] = floor[i]
  BY <1>3
<1>6. QED
  BY <1>4, <1>5 DEF floor

\* What the evaluation decides, in the terms of the rules that match.
LEMMA EvaluateCases ==
    ASSUME NEW p \in Policy, NEW c \in Commands
    PROVE  /\ Denials(p, c) # {} => \E i \in Denials(p, c) : Evaluate(p, c) = RuleVerdict(p, i)
           /\ Denials(p, c) = {} /\ Hits(p, c) # {} =>
                \E i \in Hits(p, c) : Evaluate(p, c) = RuleVerdict(p, i)
<1> DEFINE hits == Hits(p, c)
           denied == Denials(p, c)
<1>1. p.rules \in Seq(Rule)
  BY DEF Policy
<1>2. hits \in SUBSET (1..Len(p.rules)) /\ denied \in SUBSET hits /\ Len(p.rules) \in Nat
  BY <1>1 DEF Hits, Denials
<1>3. CASE denied # {}
  <2>1. denied \in SUBSET Nat
    BY <1>2
  <2>2. \E i \in denied : \A j \in denied : i <= j
    BY <1>3, <2>1, LeastElement
  <2>3. (CHOOSE i \in denied : \A j \in denied : i <= j) \in denied
    BY <2>2
  <2>4. Evaluate(p, c) = RuleVerdict(p, CHOOSE i \in denied : \A j \in denied : i <= j)
    BY <1>3 DEF Evaluate
  <2>5. QED
    BY <1>3, <2>3, <2>4
<1>4. CASE denied = {} /\ hits # {}
  <2>1. \E i \in hits : \A j \in hits : j <= i
    BY <1>2, <1>4, GreatestElement
  <2>2. (CHOOSE i \in hits : \A j \in hits : j <= i) \in hits
    BY <2>1
  <2>3. Evaluate(p, c) = RuleVerdict(p, CHOOSE i \in hits : \A j \in hits : j <= i)
    BY <1>4 DEF Evaluate
  <2>4. QED
    BY <1>4, <2>2, <2>3
<1>5. QED
  BY <1>3, <1>4

\* A command is denied exactly when some rule denies it.
LEMMA DeniedByARule ==
    ASSUME NEW p \in Policy, NEW c \in Commands
    PROVE  Evaluate(p, c).decision = "deny" <=> Denials(p, c) # {}
<1>1. CASE Denials(p, c) # {}
  <2>1. PICK i \in Denials(p, c) : Evaluate(p, c) = RuleVerdict(p, i)
    BY <1>1, EvaluateCases
  <2>2. QED
    BY <1>1, <2>1 DEF RuleVerdict, Denials
<1>2. CASE Denials(p, c) = {} /\ Hits(p, c) # {}
  <2>1. PICK i \in Hits(p, c) : Evaluate(p, c) = RuleVerdict(p, i)
    BY <1>2, EvaluateCases
  <2>2. p.rules[i].decision # "deny"
    BY <1>2 DEF Denials
  <2>3. QED
    BY <1>2, <2>1, <2>2 DEF RuleVerdict
<1>3. CASE Denials(p, c) = {} /\ Hits(p, c) = {}
  BY <1>3 DEF Evaluate
<1>4. QED
  BY <1>1, <1>2, <1>3

\* The allowlist's own key means that no rule matches, under an allowlist.
LEMMA MissMeansNoRule ==
    ASSUME NEW p \in Policy, NEW c \in Commands, Evaluate(p, c).key = AllowlistMiss
    PROVE  p.mode = "allowlist" /\ Hits(p, c) = {}
<1>1. p.rules \in Seq(Rule) /\ p.mode \in Modes
  BY DEF Policy
<1>2. ASSUME NEW i \in Hits(p, c), Evaluate(p, c) = RuleVerdict(p, i) PROVE FALSE
  <2>1. i \in Nat
    BY <1>1 DEF Hits
  <2>2. i = -1
    BY <1>2 DEF RuleVerdict, AllowlistMiss
  <2>3. QED
    BY <2>1, <2>2
<1>3. Hits(p, c) = {}
  BY <1>2, EvaluateCases DEF Denials
<1>4. p.mode # "denylist"
  <2>1. SUFFICES ASSUME p.mode = "denylist" PROVE FALSE
    OBVIOUS
  <2>2. Evaluate(p, c).key = NoKey
    BY <1>3, <2>1 DEF Evaluate, Denials
  <2>3. QED
    BY <2>2 DEF NoKey, AllowlistMiss
<1>5. QED
  BY <1>1, <1>3, <1>4 DEF Modes

-----------------------------------------------------------------------------
(* Resolution *)

LEMMA InitTyped == Init => TypeOK
  BY PolicyAssumption DEF Init, TypeOK

\* Before its own stage a scope has the org's policy, so a step composes what
\* the scope had with an extension, or leaves it alone.
LEMMA StepComposes ==
    ASSUME TypeOK, [Next]_vars, NEW s \in Scopes
    PROVE  \/ policy'[s] = policy[s]
           \/ \E e \in Extensions : policy'[s] = Compose(policy[s], e)
<1>1. ASSUME NEW e \in Extensions, AddOrgRules(e)
      PROVE  policy'[s] = Compose(policy[s], e)
  BY <1>1 DEF AddOrgRules, TypeOK
<1>2. ASSUME NEW e \in Extensions, NEW t \in Scopes, AddScopeRules(t, e)
      PROVE  policy'[s] = policy[s] \/ policy'[s] = Compose(policy[s], e)
  BY <1>2 DEF AddScopeRules, TypeOK
<1>3. QED
  BY <1>1, <1>2 DEF Next, vars

LEMMA StepTyped == TypeOK /\ [Next]_vars => TypeOK'
<1> SUFFICES ASSUME TypeOK, [Next]_vars PROVE TypeOK'
  OBVIOUS
<1> USE PolicyAssumption
<1>1. ASSUME NEW e \in Extensions, AddOrgRules(e) PROVE TypeOK'
  <2>1. Compose(Floor, e) \in Policy
    BY ComposeTyped
  <2>2. QED
    BY <1>1, <2>1 DEF AddOrgRules, TypeOK
<1>2. ASSUME NEW e \in Extensions, NEW s \in Scopes, AddScopeRules(s, e) PROVE TypeOK'
  <2>1. Compose(org, e) \in Policy
    BY ComposeTyped DEF TypeOK
  <2>2. stage' \in [Scopes -> {"floor", "org", "scope"}] /\ policy' \in [Scopes -> Policy]
    BY <1>2, <2>1 DEF AddScopeRules, TypeOK
  <2>3. ASSUME NEW t \in Scopes
        PROVE  /\ stage'[t] = "floor" => org' = Floor
               /\ stage'[t] # "scope" => policy'[t] = org'
    BY <1>2 DEF AddScopeRules, TypeOK
  <2>4. QED
    BY <1>2, <2>2, <2>3 DEF AddScopeRules, TypeOK
<1>3. CASE UNCHANGED vars
  BY <1>3 DEF vars, TypeOK
<1>4. QED
  BY <1>1, <1>2, <1>3 DEF Next

\* Policies stay policies, and a scope's rules never reach another's.
THEOREM PolicyTypeCorrect == Spec => []TypeOK
<1>1. QED
  BY InitTyped, StepTyped, PTL DEF Spec

\* A denial stays: what denies a command is a rule, and rules are only added.
LEMMA StepKeepsDenials ==
    ASSUME TypeOK, [Next]_vars, NEW s \in Scopes, NEW c \in Commands, Denied(s, c)
    PROVE  Denied(s, c)'
<1>1. policy[s] \in Policy
  BY DEF TypeOK
<1>2. CASE policy'[s] = policy[s]
  BY <1>2 DEF Denied
<1>3. ASSUME NEW e \in Extensions, policy'[s] = Compose(policy[s], e) PROVE Denied(s, c)'
  <2>1. e \in Policy /\ policy'[s] \in Policy
    BY <1>1, <1>3, ComposeTyped, PolicyAssumption
  <2>2. PICK i : i \in Denials(policy[s], c)
    BY <1>1, DeniedByARule DEF Denied
  <2>3. i \in DOMAIN policy[s].rules
    BY <2>2 DEF Denials, Hits
  <2>4. i \in DOMAIN policy'[s].rules /\ policy'[s].rules[i] = policy[s].rules[i]
    BY <1>1, <1>3, <2>1, <2>3, ComposeAppends
  <2>5. i \in Denials(policy'[s], c)
    BY <2>2, <2>4 DEF Denials, Hits
  <2>6. QED
    BY <2>1, <2>5, DeniedByARule DEF Denied
<1>4. QED
  BY <1>2, <1>3, StepComposes

\* A denial of the built-in floor or of the org holds in every scope.
THEOREM DenialsAreFinal == Spec => DenyIsFinal
<1>1. TypeOK /\ [Next]_vars => KeepsDenials
  BY StepKeepsDenials DEF KeepsDenials
<1>2. QED
  BY <1>1, PolicyTypeCorrect, PTL DEF Spec, DenyIsFinal

\* An allowlist stays one, and what it does not list still asks.
LEMMA StepKeepsAllowlist ==
    ASSUME TypeOK, [Next]_vars, NEW s \in Scopes, NEW c \in Commands,
           Evaluate(policy[s], c).key = AllowlistMiss, Hits(policy'[s], c) = {}
    PROVE  Evaluate(policy'[s], c).decision = "require_approval"
<1>1. policy[s] \in Policy
  BY DEF TypeOK
<1>2. policy[s].mode = "allowlist"
  BY <1>1, MissMeansNoRule
<1>3. policy'[s].mode = "allowlist"
  <2>1. CASE policy'[s] = policy[s]
    BY <1>2, <2>1
  <2>2. ASSUME NEW e \in Extensions, policy'[s] = Compose(policy[s], e)
        PROVE  policy'[s].mode = "allowlist"
    BY <1>2, <2>2 DEF Compose
  <2>3. QED
    BY <2>1, <2>2, StepComposes
<1>4. Denials(policy'[s], c) = {}
  BY DEF Denials
<1>5. QED
  BY <1>3, <1>4 DEF Evaluate

\* A scope cannot turn the org's allowlist into a denylist.
THEOREM AllowlistsStay == Spec => AllowlistStays
<1>1. TypeOK /\ [Next]_vars => KeepsAllowlist
  BY StepKeepsAllowlist DEF KeepsAllowlist
<1>2. QED
  BY <1>1, PolicyTypeCorrect, PTL DEF Spec, AllowlistStays

\* A verdict that asks comes from a matching rule, or from the allowlist.
LEMMA AskingHasAKey ==
    ASSUME NEW p \in Policy, NEW c \in Commands, Evaluate(p, c).decision = "require_approval"
    PROVE  \/ Evaluate(p, c).key = AllowlistMiss
           \/ \E i \in Hits(p, c) : Evaluate(p, c).key = [index |-> i, pattern |-> p.rules[i].pattern]
<1>1. Denials(p, c) = {}
  BY DeniedByARule
<1>2. CASE Hits(p, c) = {}
  BY <1>1, <1>2 DEF Evaluate
<1>3. CASE Hits(p, c) # {}
  <2>1. PICK i \in Hits(p, c) : Evaluate(p, c) = RuleVerdict(p, i)
    BY <1>1, <1>3, EvaluateCases
  <2>2. QED
    BY <2>1 DEF RuleVerdict
<1>4. QED
  BY <1>2, <1>3

\* A standing grant, which is looked up by key, never reaches the commands of a
\* rule other than the one it was given for.
THEOREM KeysNameClasses == Spec => []KeyNamesOneClass
<1>1. TypeOK => KeyNamesOneClass
  <2> SUFFICES ASSUME TypeOK, NEW s \in Scopes, NEW t \in Scopes,
                      NEW c \in Commands, NEW d \in Commands,
                      Evaluate(policy[s], c).decision = "require_approval",
                      Evaluate(policy[t], d).decision = "require_approval",
                      Evaluate(policy[s], c).key = Evaluate(policy[t], d).key,
                      Evaluate(policy[s], c).key # AllowlistMiss
               PROVE  \E i \in Hits(policy[s], c), j \in Hits(policy[t], d) :
                          /\ policy[s].rules[i].pattern = policy[t].rules[j].pattern
                          /\ i = Evaluate(policy[s], c).key.index
                          /\ j = Evaluate(policy[t], d).key.index
    BY DEF KeyNamesOneClass
  <2>1. policy[s] \in Policy /\ policy[t] \in Policy
    BY DEF TypeOK
  <2>2. PICK i \in Hits(policy[s], c) :
            Evaluate(policy[s], c).key = [index |-> i, pattern |-> policy[s].rules[i].pattern]
    BY <2>1, AskingHasAKey
  <2>3. PICK j \in Hits(policy[t], d) :
            Evaluate(policy[t], d).key = [index |-> j, pattern |-> policy[t].rules[j].pattern]
    BY <2>1, AskingHasAKey
  <2>4. /\ Evaluate(policy[s], c).key.index = i
        /\ Evaluate(policy[s], c).key.pattern = policy[s].rules[i].pattern
    BY <2>2
  <2>5. /\ Evaluate(policy[t], d).key.index = j
        /\ Evaluate(policy[t], d).key.pattern = policy[t].rules[j].pattern
    BY <2>3
  <2>6. policy[s].rules[i].pattern = policy[t].rules[j].pattern
    BY <2>4, <2>5
  <2>7. QED
    BY <2>4, <2>5, <2>6
<1>2. QED
  BY <1>1, PolicyTypeCorrect, PTL
=============================================================================
