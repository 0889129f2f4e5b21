\* Two notebooks, an agent and two pages, at the limit of the facts.
SPECIFICATION Spec
CONSTANTS
    Scopes = {"org", "ann"}
    Org = "org"
    Personal = {"ann"}
    Agents = {"turn"}
    Editors = {"page", "tab"}
    Settings <- MCSettings
    Texts <- MCTexts
    Words <- MCWords
    Mark <- MCMark
    Captures <- MCCaptures
    Drafts <- MCDrafts
    Queries <- MCQueries
    QueryLimit = 1
    MaxFacts = 3
    MaxRecall = 2
    MaxRevisions = 3
INVARIANTS
    SeenIsRecoverable
    RestoresItsOwnPast
    
    HearsItsOwnScopes
