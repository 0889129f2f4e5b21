SPECIFICATION Spec
CONSTANTS
    rm = rm
    rmdir = rmdir
    mkfs = mkfs
    dm = dm
    team = team
    vault = vault
    Commands = {rm}
    Sessions = {dm}
    Actors = {ann}
    Admins = {gil}
    Texts = {q1, q2}
    LinesOf <- MCPlain
    Harnesses = {"openai"}
    Offered = {rm}
    MaxCalls = 1
    Turns = {t1, t2}
    Posture <- MCPosture
    PolicyOf <- MCPolicyOf
    MaxSteps <- MCOneStep
    MaxQuestions = 2
    MayFail = FALSE
INVARIANTS ResumesItsQuestion
CHECK_DEADLOCK FALSE
