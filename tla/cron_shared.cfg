SPECIFICATION Spec
CONSTANTS
    c1 = c1
    c2 = c2
    Crons = {c1}
    Workers = {w1, w2}
    Users = {u1, u2}
    Secs <- MCSecs
    Matches <- MCMatches
    Destined = {c1}
    MaxCatchup = 1
    MaxTime = 4
    Horizon = 6
    MaxFailures = 1
INVARIANTS RunsOnce OutcomeMatchesTurn
PROPERTIES ImplementsContract
CHECK_DEADLOCK FALSE
