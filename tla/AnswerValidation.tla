-------------------------- MODULE AnswerValidation --------------------------
(***************************************************************************)
(* Which answers a version of a template takes                             *)
(* (app/services/submissions/answer_validator.py).                         *)
(*                                                                         *)
(* A text is the sequence of its pieces between commas, so "a,b" is        *)
(* <<"a", "b">>, the empty text <<"">> and one of white space <<" ">>; no  *)
(* answer is None.  A version is the sequence of its questions in the      *)
(* order in which they are loaded, groups first.                           *)
(***************************************************************************)
EXTENDS Integers, Collections, SequencesExt

CONSTANTS
    Dates,          \* the pieces date.fromisoformat reads -> the day they are
    Matches,        \* regular expressions that compile -> pieces they match
    None

\* v.strip() == "" for a piece, and raw.strip() == "" for a text.
BlankPiece(piece) == piece \in {"", " "}
IsBlank(raw) == raw # None => Len(raw) = 1 /\ BlankPiece(raw[1])

\* [v.strip() for v in raw.split(",") if v.strip()]
Chosen(raw) == Picked(raw, {i \in DOMAIN raw : ~BlankPiece(raw[i])})

AnswerTo(answers, key) == IF key \in DOMAIN answers THEN answers[key] ELSE None

\* {q.unique_key: q}: keys may repeat in different groups, and the last question
\* with a key stands for it.
Keys(version) == {version[i].key : i \in DOMAIN version}
StandsFor(version, i) ==
    \A j \in DOMAIN version : version[j].key = version[i].key => j <= i
QuestionMap(version) ==
    [key \in Keys(version) |->
        version[CHOOSE i \in DOMAIN version : version[i].key = key /\ StandsFor(version, i)]]

-----------------------------------------------------------------------------

\* _is_visible.
IsVisible(q, answers) ==
    q.depends_on # None =>
        LET controlling == AnswerTo(answers, q.depends_on)
        IN  IF q.visible_when = None THEN controlling \notin {None, <<"">>}
            ELSE controlling = q.visible_when

\* _parse_date, of a text without a comma.
ParseDate(raw) == IF Len(raw) = 1 /\ raw[1] \in DOMAIN Dates THEN Dates[raw[1]] ELSE None

DateInRange(q, raw) ==
    /\ ParseDate(raw) # None
    /\ q.min_date # None => ParseDate(raw) >= q.min_date
    /\ q.max_date # None => ParseDate(raw) <= q.max_date

\* One of the options, where the question has any.
ValidOption(q, raw) == q.options # <<>> => Len(raw) = 1 /\ raw[1] \in ToSet(q.options)

ValidOptions(q, raw) == q.options # <<>> => ToSet(Chosen(raw)) \subseteq ToSet(q.options)

MatchesFormat(q, raw) ==
    q.regex \in DOMAIN Matches => Len(raw) = 1 /\ raw[1] \in Matches[q.regex]

\* _validate_question: raw has no error as an answer to q.
WellAnswered(q, raw) ==
    IF IsBlank(raw)
    THEN ~q.required /\ (q.field_type = "fileUpload" => raw = None)
    ELSE CASE q.field_type = "text" -> MatchesFormat(q, raw)
           [] q.field_type \in {"dropdown", "radio"} -> ValidOption(q, raw)
           [] q.field_type = "checkbox" -> ValidOptions(q, raw)
           [] q.field_type = "date" -> DateInRange(q, raw)
           [] OTHER -> TRUE

\* The positions of the questions with an error, where byKey has the texts that
\* decide what is visible and raw[i] is the text given for question i.
ErrorsIn(version, byKey, raw) ==
    {i \in DOMAIN version :
        IsVisible(version[i], byKey) /\ ~WellAnswered(version[i], raw[i])}

\* validate_answers: an answer belongs to one question, and answers has those of
\* the questions that stand for their keys.  The first form looks at the questions
\* that were answered only.
AnswerErrors_Given(version, answers) ==
    ErrorsIn(version, answers, [i \in DOMAIN version |-> AnswerTo(answers, version[i].key)])
        \cap {i \in DOMAIN version : AnswerTo(answers, version[i].key) # None}
AnswerErrors(version, answers) ==
    ErrorsIn(version, [key \in DOMAIN answers \cap Keys(version) |-> answers[key]],
             [i \in DOMAIN version |->
                 IF StandsFor(version, i) THEN AnswerTo(answers, version[i].key) ELSE None])

-----------------------------------------------------------------------------
(* form_data, whose values are JSON: None, a text, a boolean or a list of  *)
(* these.                                                                  *)

\* str(item) of an item of a list: a boolean with a capital.
ItemText(item) ==
    IF item.type = "bool" THEN <<IF item.value THEN "True" ELSE "False">> ELSE item.value

\* _coerce_answer_value: items are joined with commas, absent ones left out.
CoerceAnswerValue(value) ==
    IF value = None THEN None
    ELSE CASE value.type = "bool" -> <<IF value.value THEN "true" ELSE "false">>
           [] value.type = "list" ->
                LET present == SelectSeq(value.value, LAMBDA item : item # None)
                    texts == [i \in DOMAIN present |-> ItemText(present[i])]
                IN  IF texts = <<>> THEN <<"">> ELSE FlattenSeq(texts)
           [] OTHER -> value.value

\* validate_form_data.
FormErrors(version, form) ==
    LET byKey == [key \in DOMAIN form |-> CoerceAnswerValue(form[key])]
    IN  ErrorsIn(version, byKey, [i \in DOMAIN version |-> AnswerTo(byKey, version[i].key)])
=============================================================================
