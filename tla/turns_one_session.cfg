SPECIFICATION FairSpec
CONSTANTS
    rm = rm
    rmdir = rmdir
    mkfs = mkfs
    dm = dm
    team = team
    vault = vault
    Commands = {rm}
    Sessions = {dm}
    Actors = {ann}
    Admins = {}
    Texts = {q1}
    LinesOf <- MCScript
    Harnesses = {"openai", "mock"}
    Offered = {rm}
    MaxCalls = 2
    Turns = {t1, t2}
    Posture <- MCPosture
    PolicyOf <- MCPolicyOf
    MaxSteps <- MCOneStep
    MaxQuestions = 2
    MayFail = FALSE
INVARIANTS OneResumption TranscriptMatchesRows
PROPERTIES TurnsEnd
CHECK_DEADLOCK FALSE
