SPECIFICATION Spec
CHECK_DEADLOCK FALSE
SYMMETRY Symmetry
CONSTANTS
    None = None
    Mistyped = Mistyped
    Deleted = Deleted
    Dates <- MCNothing
    Matches <- MCNothing
    DateFormats <- MCNothing
    Computed <- MCComputed
    Versions = {"v1", "v2", "v3"}
    QuestionsOf <- MCQuestionsOf
    RuleSets <- MCRuleSets
    RuleIds = {1, 2}
    Published <- MCPublished
    NewRules <- MCNewRules
    Submissions = {s1}
    Created = "v1"
    Forms <- MCForms
    Sessions = {c1, c2}
PROPERTIES
    PublishedRulesTriedUnlessRaced
    MigrationsWholeUnlessRaced
    HandedInFormsFitUnlessRaced
    VerdictsLostUnlessRaced
