SPECIFICATION Spec
CHECK_DEADLOCK FALSE
CONSTANTS
    None = None
    Mistyped = Mistyped
    NoValue = NoValue
    Dates <- MCDates
    Matches <- MCMatches
    DateFormats <- MCDateFormats
    Computed <- MCComputed
    Number <- MCNumber
    Within <- MCWithin
    Falsy = {"no"}
    Versions <- MCVersions
    Texts <- MCTexts
    Values <- MCValues
    Strays = {"birth"}
    Rules <- MCRules
    MaxRules = 3
    Filters <- MCFilters
    MaxFilters = 3
    Rows <- MCRows
    Requests <- MCRequests
INVARIANTS
    AnswersCarriedOver
    RequiredFailureBlocksUnlessEnded
    FormsLikeAnswers
    CatalogueIsOrderFree
    PagesJoin
