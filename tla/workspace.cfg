SPECIFICATION Spec
CONSTANTS
    org = org
    ada = ada
    bob = bob
    top = top
    deep = deep
    Scopes = {org, ada}
    Org = org
    Turns = {t1, t2}
    Texts = {q1, q2}
    Names = {token}
    Values = {v1, nul}
    Unusable = {nul}
    Paths = {top}
    Basename <- MCBasename
    Dashed <- MCDashed
    Prefixed <- MCPrefixed
    ScopeRank <- MCScopeRank
    PathRank <- MCPathRank
    Configs <- MCConfigs
    Modules = 1
    MaxParts = 2
    MaxTurns = 2
    MaxCalls = 2
    MaxChanges = 2
SYMMETRY Symmetry
INVARIANTS   EnvironmentIsNearest 
CHECK_DEADLOCK FALSE
