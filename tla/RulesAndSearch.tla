--------------------------- MODULE RulesAndSearch ---------------------------
(***************************************************************************)
(* What the functions that compute without a state of their own promise:   *)
(* the rules two versions suggest, the loop over the rules of a set, the   *)
(* catalogue of search filters and the pages of a search.  A state is one  *)
(* input of one of them.                                                   *)
(***************************************************************************)
EXTENDS TransformRules, SubmissionSearch

CONSTANTS
    Versions,       \* versions of one template
    Texts,          \* field type -> texts given as answers
    Values,         \* JSON values in form_data
    Strays,         \* keys in form_data that may be no question's
    Rules,          \* rules of a set
    MaxRules,       \* bound: rules in a set
    Filters,        \* search filters of a template
    MaxFilters,     \* bound: filters of the templates together
    Rows,           \* the submissions there are, in any order
    Requests        \* search requests

\* Rules and filters come in any number up to a bound, a question has a key and a type,
\* a row a creation time, and a request asks for at least one row
\* (SubmissionSearchRequest.limit).
ASSUME InputsOK ==
    /\ MaxRules \in Nat /\ MaxFilters \in Nat
    /\ \A version \in Versions :
           /\ version \in Seq(Range(version)) /\ None \notin Keys(version)
           /\ \A i \in DOMAIN version : version[i].field_type \in DOMAIN Texts
    /\ Rows \in Seq(Range(Rows)) /\ IsInjective(Rows)
    /\ \A i \in DOMAIN Rows : Rows[i].created_at \in Int
    /\ \A request \in Requests :
           {"skip", "limit"} \subseteq DOMAIN request /\ request.limit \in Nat \ {0}

VARIABLE input

Nothing == [of |-> "nothing"]

\* Answers of the right sort for the questions of a version.
AnswerSets(version) ==
    LET all == UNION {Texts[version[i].field_type] : i \in DOMAIN version}
    IN  {answers \in [Keys(version) -> all] :
            \A key \in Keys(version) :
                answers[key] \in Texts[QuestionMap(version)[key].field_type]}

Init == input = Nothing

Migrate ==
    \E source, target \in Versions : \E before \in AnswerSets(source) :
        input' = [of |-> "versions", source |-> source, target |-> target, before |-> before]

Run ==
    \E n \in 1 .. MaxRules : \E rules \in [1 .. n -> Rules] : \E text \in Texts["text"] :
        input' = [of |-> "rules", rules |-> rules, before |-> [name |-> text]]

Validate ==
    \E version \in Versions : \E keys \in SUBSET (Keys(version) \cup Strays) :
        \E form \in [keys -> Values] :
            input' = [of |-> "form", version |-> version, form |-> form]

Catalogue ==
    \E n \in 1 .. MaxFilters : \E filters \in [1 .. n -> Filters] :
        input' = [of |-> "filters", filters |-> filters]

Query ==
    \E request \in Requests : input' = [of |-> "search", request |-> request]

Next == input = Nothing /\ (Migrate \/ Run \/ Validate \/ Catalogue \/ Query)

Spec == Init /\ [][Next]_input

-----------------------------------------------------------------------------

\* The hints of the target rename questions that are gone to ones that are new, one
\* to one.
HintsSane(source, target) ==
    LET hinting == {i \in DOMAIN target : target[i].renamed_from # None}
    IN  /\ \A i \in hinting :
               /\ target[i].renamed_from \in Keys(source) \ Keys(target)
               /\ target[i].key \notin Keys(source)
        /\ \A i, j \in hinting : target[i].renamed_from = target[j].renamed_from => i = j

\* What an answer to q should be worth as an answer to r: the day it is, by the first
\* format that reads it, if r has come to ask for a date, and else itself.
Converted(q, r, raw) ==
    LET formats == TriedFormats(SharedRule(q, r))
        reading == {i \in DOMAIN formats : Reads(formats[i], raw)}
    IN  IF raw = None \/ r.field_type # "date" THEN raw
        ELSE IF reading = {} THEN None
        ELSE <<DateFormats[formats[Min(reading)]][raw[1]]>>

\* If generate_rule_set suggests rules at all, they carry every answer over: under its
\* new name if it was renamed, as the day it is if a date has come to be asked for, and
\* nothing else is made up.  Hints that clash with the keys there are lose answers and
\* are left out.
AnswersCarriedOver ==
    input.of = "versions" =>
        LET rules == GeneratedRules(input.source, input.target)
            old == QuestionMap(input.source)
            new == QuestionMap(input.target)
            from(key) == IF new[key].renamed_from # None THEN new[key].renamed_from ELSE key
            carried == [key \in DOMAIN new |->
                           IF from(key) \notin DOMAIN old THEN None
                           ELSE IF from(key) # key THEN input.before[from(key)]
                           ELSE Converted(old[key], new[key], input.before[key])]
        IN  rules # None /\ HintsSane(input.source, input.target) =>
                NewAnswers(RunRules(rules, input.before).after, input.target) = carried

\* The rules that fail on the answers, each looked at on its own.
Failing(rules, before) ==
    {i \in DOMAIN rules :
        rules[i].operation # "drop" /\ ApplyOperation(rules[i], before).error}

\* The required rules that end the loop if it gets to them: before them, or at them,
\* something has failed.
Ending(rules, before) ==
    {i \in DOMAIN rules :
        /\ rules[i].is_required
        /\ rules[i].operation # "drop"
        /\ \E j \in Failing(rules, before) : j <= i}

\* A migration is refused exactly if a required rule fails on the answers, but for those
\* after a required rule that does not fail and comes after one that does: that one ends
\* the loop (executor.py:326), and nobody learns of the failure.  The story has a failing
\* required rule block the migration always (answer-transform-rules.md:52-54, AC8).
RequiredFailureBlocksUnlessEnded ==
    input.of = "rules" =>
        LET failing == Failing(input.rules, input.before)
            endedBy == Ending(input.rules, input.before) \ failing
        IN  RequiredFailure(input.rules, RunRules(input.rules, input.before).errors) <=>
                \E i \in failing : input.rules[i].is_required /\ \A j \in endedBy : i < j

\* Validating form_data, the older form, finds the errors that validating the same
\* values as answers finds, as long as no key is used twice and what a question
\* depends on is a question of the version.
FormsLikeAnswers ==
    input.of = "form" =>
        LET version == input.version
            keys == Keys(version)
            texts == [key \in DOMAIN input.form |-> CoerceAnswerValue(input.form[key])]
            plain == /\ Cardinality(keys) = Len(version)
                     /\ \A i \in DOMAIN version : version[i].depends_on \in keys \cup {None}
        IN  plain => FormErrors(version, input.form) = AnswerErrors(version, texts)

\* The catalogue of filters does not depend on the order in which the templates come:
\* a key is refused as ambiguous exactly if two templates mean different things by it,
\* and otherwise has the operators of all of them.
CatalogueIsOrderFree ==
    input.of = "filters" =>
        LET catalog == SearchConfig(<<input.filters>>)
            offered(key) == {Normalized(input.filters[i]) : i \in
                                {j \in DOMAIN input.filters :
                                    Wellformed(input.filters[j]) /\ input.filters[j].key = key}}
        IN  /\ DOMAIN catalog = {f.key : f \in {g \in Range(input.filters) : Wellformed(g)}}
            /\ \A key \in DOMAIN catalog :
                   /\ catalog[key].ambiguous
                          <=> \E f, g \in offered(key) : Signature(f) # Signature(g)
                   /\ ~catalog[key].ambiguous =>
                          catalog[key].operators = UNION {f.operators : f \in offered(key)}

\* Reading a search page by page until one is not full finds what one large page finds,
\* nothing twice, and nothing that belongs to somebody else if the reader is a maker
\* only.
PagesJoin ==
    input.of = "search" =>
        LET request == input.request
            catalog == SearchConfig(<<request.filters_offered>>)
            page(n) == Search(request.user, catalog, [request EXCEPT !.skip = n], Rows)
            whole == Search(request.user, catalog,
                            [request EXCEPT !.skip = 0, !.limit = Len(Rows)], Rows)
            pages == [n \in 1 .. Len(Rows) |->
                         IF (n - 1) % request.limit = 0 THEN page(n - 1) ELSE <<>>]
        IN  RequestValid(catalog, request) =>
                /\ FlattenSeq(pages) = whole
                /\ \A n \in 1 .. Len(pages) - 1 :
                       pages[n] # <<>> /\ Len(pages[n]) < request.limit =>
                           Len(whole) <= n - 1 + request.limit
                /\ IsInjective(whole)
                /\ MakerOnly(request.roles) =>
                       \A s \in Range(whole) : MayAccess(request.user, request.roles, FALSE, s)
=============================================================================
