SPECIFICATION FairSpec
CHECK_DEADLOCK FALSE
CONSTANTS
    None = None
    Order <- MCOrder
    Kind <- MCKind
    DependsOn <- MCDependsOn
    Challengeable <- MCChallengeable
    Compared <- MCCompared
    MaxAttempts <- MCMaxAttempts
    Rules <- MCRules
    Fallback = "manual_review"
    AnswerFacts = {}
    MaxRuns = 1
    Clients = {c1}
    Workers = {w1}
    Sessions = {c1, w1}
    MaxSignals = 2
PROPERTIES
    WorkflowSettles
