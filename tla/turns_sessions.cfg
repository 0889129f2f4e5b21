SPECIFICATION Spec
CONSTANTS
    rm = rm
    rmdir = rmdir
    mkfs = mkfs
    dm = dm
    team = team
    vault = vault
    Commands = {rm, rmdir, mkfs}
    Sessions = {dm, team, vault}
    Actors = {ann, bob}
    Admins = {gil}
    Texts = {q1}
    LinesOf <- MCPlain
    Harnesses = {"openai"}
    Offered = {rm, rmdir, mkfs, "read"}
    MaxCalls = 1
    Turns = {t1}
    Posture <- MCPosture
    PolicyOf <- MCPolicyOf
    MaxSteps <- MCOneStep
    MaxQuestions = 2
    MayFail = TRUE
SYMMETRY Symmetry
INVARIANTS RunsAreAuthorised StrictNeedsAHuman
CHECK_DEADLOCK FALSE
