--------------------------- MODULE TransformRules ---------------------------
(***************************************************************************)
(* What a rule set makes of the answers of a submission                    *)
(* (app/services/transforms/executor.py), which rule sets may be published *)
(* (sandbox.py) and which rules two versions suggest (diff_service.py).    *)
(*                                                                         *)
(* A rule is [source, target, operation, params, is_required] and a rule   *)
(* set the sequence of its rules by display_order.  params is a record     *)
(* with the fields that are there, Mistyped for one of the wrong type.     *)
(* Warnings and messages are left out: nothing depends on them.            *)
(***************************************************************************)
EXTENDS AnswerValidation

CONSTANTS
    DateFormats,    \* formats of strptime -> what it reads -> the day in ISO form
    Computed,       \* names of expressions -> inputs they evaluate on -> result
    Mistyped

Rule(source, target, operation, params) ==
    [source |-> source, target |-> target, operation |-> operation,
     params |-> params, is_required |-> FALSE]

Param(rule, name, default) ==
    IF name \in DOMAIN rule.params THEN rule.params[name] ELSE default

\* What _apply_operation returns, and whether it reports an error.
Gives(value) == [value |-> value, error |-> FALSE]
Fails == [value |-> None, error |-> TRUE]

-----------------------------------------------------------------------------
(* _apply_operation, one operation each.                                   *)

\* mapping.get(piece, default); a mapping is a function on pieces, whose values are
\* pieces or None.
MappedPiece(rule, piece) ==
    LET mapping == Param(rule, "mapping", <<>>)
    IN  IF piece \in DOMAIN mapping THEN mapping[piece] ELSE Param(rule, "default", None)

\* A choice of several is mapped piece by piece, what is not in the mapping to "".
MapValues(rule, raw) ==
    IF raw = None THEN None
    ELSE IF Len(raw) = 1
    THEN IF MappedPiece(rule, raw[1]) = None THEN None ELSE <<MappedPiece(rule, raw[1])>>
    ELSE IF Chosen(raw) = <<>> THEN <<"">>
    ELSE [i \in DOMAIN Chosen(raw) |->
             IF MappedPiece(rule, Chosen(raw)[i]) = None THEN ""
             ELSE MappedPiece(rule, Chosen(raw)[i])]

\* The formats are tried in order, the rule's own first.
TriedFormats(rule) == <<Param(rule, "format", ""), "%Y-%m-%d", "%m/%d/%Y", "%d/%m/%Y">>

Reads(format, raw) ==
    format \in DOMAIN DateFormats /\ Len(raw) = 1 /\ raw[1] \in DOMAIN DateFormats[format]

CoerceType(rule, raw) ==
    LET formats == TriedFormats(rule)
        reading == Picked(formats, {i \in DOMAIN formats : Reads(formats[i], raw)})
    IN  IF raw = None THEN Gives(None)
        ELSE IF Param(rule, "to_type", "text") # "date" THEN Gives(raw)
        ELSE IF reading = <<>> THEN Fails
        ELSE Gives(<<DateFormats[reading[1]][raw[1]]>>)

\* The separator is the comma, or one that occurs in no text.
Split(rule, raw) ==
    LET index == Param(rule, "index", 0)
        parts == IF Param(rule, "separator", " ") = "," THEN [i \in DOMAIN raw |-> <<raw[i]>>]
                 ELSE <<raw>>
    IN  IF raw # None /\ index < Len(parts) THEN parts[index + 1] ELSE None

\* sep.join(parts).strip() or None, where the separator is the comma: white space
\* goes, commas stay.
Merge(rule, answers) ==
    LET sources == Param(rule, "sources", <<>>)
        part(key) == IF AnswerTo(answers, key) = None THEN <<"">> ELSE AnswerTo(answers, key)
        joined == FlattenSeq([i \in DOMAIN sources |-> part(sources[i])])
    IN  IF joined = <<>> \/ IsBlank(joined) THEN None ELSE joined

\* The names an expression may use: the sources, and value when there is one.
ComputeNames(rule, answers) ==
    LET own == IF rule.source = None THEN <<>> ELSE <<rule.source>>
        sources == Param(rule, "sources", own)
        named == [key \in ToSet(sources) |-> AnswerTo(answers, key)]
    IN  IF Len(sources) = 1 THEN Put(named, "value", AnswerTo(answers, sources[1]))
        ELSE IF sources = <<>> /\ rule.source # None
        THEN [value |-> AnswerTo(answers, rule.source)]
        ELSE named

\* evaluate_compute_expr: an expression reads one name, and fails on what its
\* functions do not take.
Evaluates(expr, names) ==
    expr # None /\ expr.reads \in DOMAIN names
                /\ names[expr.reads] \in DOMAIN Computed[expr.name]

Compute(rule, answers) ==
    LET expr == Param(rule, "expr", None)
        names == ComputeNames(rule, answers)
    IN  IF Evaluates(expr, names) THEN Gives(Computed[expr.name][names[expr.reads]])
        ELSE Fails

ApplyOperation(rule, answers) ==
    LET raw == IF rule.source = None THEN None ELSE AnswerTo(answers, rule.source)
    IN  CASE rule.operation \in {"identity", "rename"} -> Gives(raw)
          [] rule.operation = "default_value" -> Gives(Param(rule, "value", None))
          [] rule.operation = "map_values" -> Gives(MapValues(rule, raw))
          [] rule.operation = "coerce_type" -> CoerceType(rule, raw)
          [] rule.operation = "split" -> Gives(Split(rule, raw))
          [] rule.operation = "merge" -> Gives(Merge(rule, answers))
          [] rule.operation = "compute" -> Compute(rule, answers)

-----------------------------------------------------------------------------
(* apply_rule_set, as far as it concerns the answers.                      *)

NothingYet == [after |-> <<>>, errors |-> {}, stopped |-> FALSE]

\* One round of the loop over the rules: a drop leaves no entry, and a required rule
\* ends the loop when anything has failed so far.
RunRule(rules, before, sofar, i) ==
    LET rule == rules[i]
        outcome == ApplyOperation(rule, before)
        errors == sofar.errors \cup (IF outcome.error THEN {i} ELSE {})
    IN  IF sofar.stopped \/ rule.operation = "drop" THEN sofar
        ELSE [after |-> Put(sofar.after, rule.target, outcome.value),
              errors |-> errors,
              stopped |-> rule.is_required /\ errors # {}]

RunRules(rules, before) ==
    FoldLeft(LAMBDA sofar, i : RunRule(rules, before, sofar, i), NothingYet,
             [i \in DOMAIN rules |-> i])

\* has_required_failure; the first form looks at the first error only.
RequiredFailure_First(rules, errors) ==
    \E i \in errors : rules[i].is_required /\ \A j \in errors : i <= j
RequiredFailure(rules, errors) == \E i \in errors : rules[i].is_required

\* What is inserted for the target version: entries for its keys.
NewAnswers(after, target) == [key \in DOMAIN after \cap Keys(target) |-> after[key]]

\* Whether the submission is moved to the target version.
Migrates(rules, before, target) ==
    LET run == RunRules(rules, before)
    IN  /\ ~RequiredFailure(rules, run.errors)
        /\ AnswerErrors(target, NewAnswers(run.after, target)) = {}

-----------------------------------------------------------------------------
(* The sandbox.                                                            *)

RequiredParams(operation) ==
    CASE operation = "map_values" -> {"mapping"}
      [] operation = "coerce_type" -> {"to_type"}
      [] operation = "split" -> {"separator", "index"}
      [] operation = "merge" -> {"sources"}
      [] operation = "compute" -> {"expr"}
      [] OTHER -> {}

\* validate_rule_params; the separator of a merge may be absent, not mistyped.
ParamsValid(rule) ==
    /\ RequiredParams(rule.operation) \subseteq DOMAIN rule.params
    /\ \A name \in DOMAIN rule.params \cap
              (RequiredParams(rule.operation)
               \cup (IF rule.operation = "merge" THEN {"separator"} ELSE {})) :
           rule.params[name] # Mistyped

\* validate_compute_expression, when a rule is written: one of three samples will do.
SampleInputs == {<<"sample">>, <<"42">>, <<"2000-01-15">>}
ComputeRuleValid(rule) ==
    rule.operation = "compute" =>
        LET own == IF rule.source = None THEN <<>> ELSE <<rule.source>>
            sources == Param(rule, "sources", own)
            names == ToSet(sources) \cup (IF Len(sources) <= 1 THEN {"value"} ELSE {})
        IN  \E sample \in SampleInputs :
                Evaluates(Param(rule, "expr", None), [name \in names |-> sample])

\* _generate_synthetic_answers.
SampleValue(q) ==
    IF q.options # <<>> THEN <<q.options[1]>>
    ELSE CASE q.field_type = "date" -> <<"2000-01-15">>
           [] q.field_type \in {"dropdown", "radio"} -> <<"option_a">>
           [] q.field_type = "checkbox" -> <<"option_a", "option_b">>
           [] OTHER -> <<"sample_text">>
SyntheticAnswers(source) ==
    [key \in Keys(source) |-> SampleValue(QuestionMap(source)[key])]

\* One rule in sandbox_validate_rules.
RuleValid(rule, source, target) ==
    /\ ParamsValid(rule)
    /\ rule.source # None /\ rule.source \notin Keys(source) =>
           rule.operation \in {"default_value", "drop"}
    /\ rule.target \notin Keys(target) => rule.operation = "drop"
    /\ rule.operation # "drop" => ~ApplyOperation(rule, SyntheticAnswers(source)).error

SandboxValid(rules, source, target) ==
    \A i \in DOMAIN rules : RuleValid(rules[i], source, target)

-----------------------------------------------------------------------------
(* generate_rule_set.                                                      *)

\* The questions as the dictionary lists them: one for each key, where the first
\* question with that key was.
Listed(version) ==
    LET firsts == {i \in DOMAIN version : \A j \in 1 .. i - 1 : version[j].key # version[i].key}
    IN  Picked([i \in DOMAIN version |-> QuestionMap(version)[version[i].key]], firsts)

\* {source key: target key}, from the hints of the target's questions; the last wins.
RenamedFrom(target) ==
    FoldLeft(LAMBDA renamed, q : IF q.renamed_from = None THEN renamed
                                 ELSE Put(renamed, q.renamed_from, q.key),
             <<>>, Listed(target))

CoerceParams(from, to) ==
    IF from = "text" /\ to = "date"
    THEN [from_type |-> from, to_type |-> to, format |-> "YYYY-MM-DD"]
    ELSE [from_type |-> from, to_type |-> to]

\* Two questions with one key, of different types; the first form takes no notice of
\* the types.
SharedRule_Identity(q, r) == Rule(q.key, q.key, "identity", <<>>)
SharedRule(q, r) ==
    Rule(q.key, q.key, "coerce_type", CoerceParams(q.field_type, r.field_type))

SourceRule(q, target) ==
    IF q.key \in DOMAIN RenamedFrom(target)
    THEN Rule(q.key, RenamedFrom(target)[q.key], "rename", <<>>)
    ELSE IF q.key \in Keys(target) THEN SharedRule(q, QuestionMap(target)[q.key])
    ELSE Rule(q.key, q.key, "drop", <<>>)

\* The options of two questions with one key and one type are compared, and are not
\* there: Question.options is loaded lazily, nobody has it loaded, and an asynchronous
\* session cannot do so when the attribute is looked at.
OptionsLookedAt(source, target) ==
    \E key \in Keys(source) \cap Keys(target) :
        /\ key \notin DOMAIN RenamedFrom(target)
        /\ QuestionMap(source)[key].field_type = QuestionMap(target)[key].field_type

\* A rule for every question of the source, then a default for every question of the
\* target that is neither in the source nor the new name of something; None where the
\* request fails.
GeneratedRules(source, target) ==
    LET old == Listed(source)
        new == Listed(target)
        added == Picked(new, {i \in DOMAIN new :
                     new[i].key \notin Keys(source) \cup Range(RenamedFrom(target))})
    IN  IF OptionsLookedAt(source, target) THEN None
        ELSE [i \in DOMAIN old |-> SourceRule(old[i], target)]
             \o [i \in DOMAIN added |->
                    Rule(None, added[i].key, "default_value", [value |-> None])]
=============================================================================
