SPECIFICATION Spec
CHECK_DEADLOCK FALSE
CONSTANTS
    None = None
    Order <- MCOrder
    Kind <- MCKind
    DependsOn <- MCDependsOn
    Challengeable <- MCChallengeable
    Compared <- MCCompared
    MaxAttempts <- MCMaxAttempts
    Rules <- MCRules
    Fallback = "manual_review"
    AnswerFacts = {}
    MaxRuns = 2
    Sessions = {c1, c2}
SYMMETRY SessionSymmetry
INVARIANTS
    DecisionsFollow
    SummaryAgrees
    DependenciesEnded
    OneActiveRun
PROPERTIES
    OverIsOver
    ResultsFinal
