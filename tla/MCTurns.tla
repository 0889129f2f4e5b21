------------------------------- MODULE MCTurns -------------------------------
(***************************************************************************)
(* Small instances of Turns.  The floor asks before `rm` and `rmdir`, which  *)
(* one rule matches, and denies `mkfs`; the scope of team asks before `rmdir` *)
(* on its own, and that of vault is strict.                                 *)
(***************************************************************************)
EXTENDS Turns, TLC

CONSTANTS rm, rmdir, mkfs, dm, team, vault

MCFloor ==
    [mode |-> "denylist",
     rules |-> <<[pattern |-> {rm, rmdir} \cap Commands, decision |-> "require_approval"],
                 [pattern |-> {mkfs} \cap Commands, decision |-> "deny"]>>]
MCTeamRules ==
    [mode |-> "denylist",
     rules |-> <<[pattern |-> {rmdir} \cap Commands, decision |-> "require_approval"]>>]
MCPolicyOf == [s \in Sessions |-> IF s = team THEN Compose(MCFloor, MCTeamRules) ELSE MCFloor]
MCPosture == [s \in Sessions |-> IF s = vault THEN "strict" ELSE "auto"]

\* [harness].max_steps of the file; the endpoint picks the harness with a loop.
Conf == INSTANCE Configuration
HarnessFile(steps) ==
    Conf!Toml([harness |-> [kind |-> "openai", endpoint |-> "http://gateway/v1", max_steps |-> steps]])
MCOneStep == Conf!Loaded(HarnessFile(1), <<>>).harness.max_steps
ASSUME HarnessAssumption ==
    /\ Conf!HarnessOf(Conf!Loaded(HarnessFile(1), <<>>)) = "openai"
    /\ Conf!HarnessOf(Conf!Loaded(HarnessFile(1), [QM_HARNESS_ENDPOINT |-> ""])) = "mock"

\* A plain question, and one whose lines the mock harness reads as calls.
Line(verb, argument) == [verb |-> verb, argument |-> argument]
MCPlain == [text \in Texts |-> <<Line("", "")>>]
MCScript == [text \in Texts |->
    <<Line("exec", rm), Line("", ""), Line("tool", ""), Line("silent", ""), Line("exec", rm)>>]

Symmetry == Permutations(Turns) \cup Permutations(Actors)
=============================================================================
