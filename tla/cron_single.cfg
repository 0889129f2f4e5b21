SPECIFICATION FairSpec
CONSTANTS
    c1 = c1
    c2 = c2
    Crons = {c1, c2}
    Workers = {w1}
    Users = {u1}
    Secs <- MCSecs
    Matches <- MCMatches
    Destined = {c1}
    MaxCatchup = 1
    MaxTime = 4
    Horizon = 6
    MaxFailures = 0
INVARIANTS  DeletedLeavesNothing
 
CHECK_DEADLOCK FALSE
