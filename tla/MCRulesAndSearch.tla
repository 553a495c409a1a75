-------------------------- MODULE MCRulesAndSearch --------------------------
(***************************************************************************)
(* A few questions, rules, filters and submissions, chosen so that every   *)
(* operation, type change and kind of filter occurs.                       *)
(***************************************************************************)
EXTENDS RulesAndSearch, TLC

MCDates == "2000-01-15" :> 15 @@ "2001-01-01" :> 366
MCMatches == "[a-z]+" :> {"abel"}
MCDateFormats ==
    "%Y-%m-%d" :> ("2000-01-15" :> "2000-01-15" @@ "2001-01-01" :> "2001-01-01")
    @@ "%d/%m/%Y" :> ("15/01/2000" :> "2000-01-15")

\* int(value), and an expression that takes anything.
MCComputed ==
    "int" :> (<<"42">> :> <<"42">>)
    @@ "upper" :> ([text \in {None, <<"42">>, <<"sample">>, <<"abel">>} |-> <<"ABEL">>])

Question(key, type, options) ==
    [key |-> key, field_type |-> type, required |-> FALSE, depends_on |-> None,
     visible_when |-> None, options |-> options, regex |-> None, min_date |-> None,
     max_date |-> None, renamed_from |-> None]

Name == Question("name", "text", <<>>)
FullName == [Question("full_name", "text", <<>>) EXCEPT !.renamed_from = "name"]
Birth == [Question("birth", "date", <<>>) EXCEPT !.min_date = 100]
BirthAsText == Question("birth", "text", <<>>)
Color == Question("color", "checkbox", <<"red", "blue">>)
FewerColors == [Question("color", "checkbox", <<"green", "blue">>)
                EXCEPT !.depends_on = "birth", !.required = TRUE]
OneColor == Question("color", "dropdown", <<"red", "blue">>)
NameAgain == [Name EXCEPT !.regex = "[a-z]+", !.depends_on = "color",
                          !.visible_when = <<"blue">>]

Pool == {Name, FullName, Birth, BirthAsText, Color, FewerColors, OneColor, NameAgain}
MCVersions ==
    {<<>>} \cup {<<q>> : q \in Pool}
    \cup {v \in Pool \X Pool : v[1].key # v[2].key}
    \cup {<<Name, Color, NameAgain>>}

MCTexts ==
    [type \in {"text", "date", "checkbox", "dropdown"} |->
        {None} \cup
        CASE type = "text" -> {<<"42">>, <<"abel">>, <<"15/01/2000">>, <<"2001-01-01">>}
          [] type = "date" -> {<<"2000-01-15">>}
          [] type = "dropdown" -> {<<"red">>, <<"blue">>}
          [] OTHER -> {<<"red">>, <<"blue">>, <<"red", " ", "blue">>}]

Text(text) == [type |-> "text", value |-> text]
List(items) == [type |-> "list", value |-> items]
True == [type |-> "bool", value |-> TRUE]
MCValues ==
    {None, True, Text(<<"">>), Text(<<"abel">>), Text(<<"blue">>), List(<<>>),
     List(<<Text(<<"red">>), None, Text(<<"blue">>)>>), List(<<True>>)}

AgeOf(params) == Rule("name", "age", "compute", params)
IntOfName == [expr |-> [name |-> "int", reads |-> "value"]]
MCRules ==
    {Rule(None, "city", "default_value", [value |-> <<"Addis">>]),
     Rule("name", "name", "identity", <<>>),
     Rule("name", "first", "split", [separator |-> ",", index |-> 1]),
     Rule(None, "both", "merge", [sources |-> <<"name", "age">>, separator |-> ","]),
     Rule("name", "gone", "drop", <<>>),
     AgeOf(IntOfName), [AgeOf(IntOfName) EXCEPT !.is_required = TRUE],
     [Rule("name", "caps", "compute", [expr |-> [name |-> "upper", reads |-> "name"]])
         EXCEPT !.is_required = TRUE],
     [Rule("name", "day", "coerce_type", [to_type |-> "date"]) EXCEPT !.is_required = TRUE]}

-----------------------------------------------------------------------------

Filter(key, source, path, operators) ==
    [key |-> key, source |-> source, path |-> path, operators |-> operators,
     about |-> NoValue]
MCFilters ==
    {Filter("id", NoValue, NoValue, NoValue), Filter("id", "form_data", "id", {"in", "exists"}),
     Filter("id", "form_data", "national_id", {"eq"}),
     [Filter("id", NoValue, NoValue, NoValue) EXCEPT !.about = "number"],
     Filter("score", "verification", NoValue, {"gte", "lte"}),
     Filter("score", "verification", NoValue, {"like"}),
     Filter(NoValue, NoValue, NoValue, NoValue)}

MCNumber == "10" :> 10 @@ "20" :> 20
MCWithin == {<<"fn", "FN-1">>, <<"fn", "FN-2">>}

Submission(at, by, id, scores) ==
    [status |-> "draft", template |-> "kyc", created_by |-> by, created_at |-> at,
     columns |-> [source \in Sources \ {"verification"} |->
                     IF source = "form_data" THEN "id" :> id ELSE <<>>],
     runs |-> [i \in DOMAIN scores |-> "score" :> scores[i] @@ "status" :> "completed"]]
MCRows == <<Submission(2, "maker", "FN-2", <<"20", "10">>),
            Submission(1, "maker", "FN-1", <<>>),
            Submission(4, "other", "", <<"20">>),
            Submission(3, "other", "FN-1", <<"10">>)>>

Criterion(key, op, value) == [key |-> key, op |-> op, value |-> {value}]
Criteria ==
    {Criterion("id", "contains", "fn"), Criterion("id", "exists", "no"),
     Criterion("id", "ne", "FN-2"), [Criterion("id", "in", "FN-1") EXCEPT !.value = {"FN-1", "FN-2"}],
     Criterion("score", "gte", "10"), Criterion("score", "lte", "10"),
     Criterion("score", "eq", "20"), Criterion("other", "eq", "20")}
Offered == <<Filter("id", NoValue, NoValue, {"contains", "exists", "ne", "in"}),
             Filter("score", "verification", NoValue, {"gte", "lte", "eq"})>>
MCRequests ==
    [user : {"maker"}, roles : {{"maker"}, {"maker", "checker"}}, order : {"asc", "desc"},
     filters : {[status |-> NoValue, template |-> NoValue, created_after |-> after] :
                    after \in {NoValue, 2}},
     filters_offered : {Offered}, criteria : {c \in SUBSET Criteria : Cardinality(c) <= 2},
     verification_status : {NoValue, "completed"}, sort_by : {"created_at"},
     skip : {0}, limit : {1, 2, 3}]
=============================================================================
