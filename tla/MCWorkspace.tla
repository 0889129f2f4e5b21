----------------------------- MODULE MCWorkspace -----------------------------
(***************************************************************************)
(* Small instances of Workspace: an organisation and ada's own scope, with  *)
(* deep, a file of a directory whose name is that of top, a file beside it. *)
(***************************************************************************)
EXTENDS Workspace, TLC

CONSTANTS org, ada, bob, top, deep

MCScopeRank == [s \in Scopes |-> IF s = org THEN 1 ELSE IF s = ada THEN 2 ELSE 3]
MCPathRank == [p \in Paths |-> IF p = deep THEN 1 ELSE 2]
MCBasename == [p \in Paths |-> "plan.md"]
MCDashed == [p \in Paths |-> IF p = deep THEN "notes-plan.md" ELSE "plan.md"]
Reference(s) == CASE s = org -> "acme" [] s = ada -> "ada" [] OTHER -> "bob"
MCPrefixed ==
    [s \in Scopes |-> [n \in {"plan.md", "notes-plan.md"} |-> Reference(s) \o "-" \o n]]

\* Where the floor comes from: a missing file, a file, the environment over it, a
\* text that is no posture.
Conf == INSTANCE Configuration
FloorOf(file, env) == Conf!Loaded(file, env).org.security_posture
AutoFloor == FloorOf(Conf!Missing, <<>>)
DangerousFloor == FloorOf(Conf!Toml([org |-> [security_posture |-> "dangerous"]]), <<>>)
UnknownFloor == FloorOf(Conf!Toml([org |-> [security_posture |-> "strict"]]), [QM_SECURITY_POSTURE |-> "typo"])

\* The rows that differ from the organisation's, a floor that cannot be read, both
\* screeners, and a screener configured where no module can run.
Rows(orgRow, adaRow) == [s \in Scopes |-> IF s = org THEN orgRow ELSE IF s = ada THEN adaRow ELSE Unset]
Deployed(floor, rows, screener, host) ==
    [floor |-> floor, rows |-> rows, screener |-> screener, host |-> host]
MCConfigs ==
    {Deployed(AutoFloor, Rows(Unset, "dangerous"), "plugin", "wasm"),
     Deployed(UnknownFloor, Rows("dangerous", Unset), "model", "wasm"),
     Deployed(DangerousFloor, Rows("strict", "auto"), "model", "wasm"),
     Deployed(DangerousFloor, Rows(Unset, "auto"), "plugin", "native")}

Symmetry == Permutations(Turns) \cup Permutations(Texts)
=============================================================================
