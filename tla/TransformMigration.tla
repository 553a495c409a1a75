------------------------- MODULE TransformMigration -------------------------
(***************************************************************************)
(* Rule sets between the versions of a template, written, published and    *)
(* applied to submissions, one or many, while the submissions are edited,  *)
(* handed in and verified (app/services/transforms/rule_service.py,        *)
(* diff_service.py, executor.py, bulk_migrate.py).                         *)
(*                                                                         *)
(* A handler is XBegin, what it reads with the checks it makes on that,    *)
(* and a commit.  A bulk run commits once for each submission.  The        *)
(* versions are published: their questions do not change.                  *)
(***************************************************************************)
EXTENDS TransformRules, UnitOfWork

CONSTANTS
    Versions,       \* ids of tenant_template_definitions
    QuestionsOf,    \* Versions -> the questions, in order
    RuleSets,       \* pairs [source, target] that may have a rule set
    RuleIds,        \* ids of transform_rules, in the order of their creation
    NewRules,       \* what an administrator may ask of a rule
    Published,      \* rule ids -> rows: the rules of the sets published before
    Submissions,
    Created,        \* the version the submissions are created with
    Forms,          \* values of form_data
    Sessions,       \* requests that may be in flight at once
    Deleted

VARIABLES
    rule_sets,      \* RuleSets -> status of its row of transform_rule_sets, or None
                    \* or Deleted: a pair gets a rule set once
    rules,          \* RuleIds -> row of transform_rules, None or Deleted
    submissions,    \* Submissions -> row
    answers,        \* Submissions -> submission_answers: question id -> text
    request         \* Sessions -> the request in flight, or None

vars == <<rule_sets, rules, submissions, answers, request>>
tables == <<rule_sets, rules, submissions, answers>>

Statuses == {"draft", "published", "archived"}
SubmissionRow ==
    [version : Versions, status : {"draft", "submitted"}, form_data : Forms,
     validation_results : SUBSET {"valid", "decision"}]
\* What can be asked of a rule, and what the comparison of two versions suggests.
Suggested == {GeneratedRules(QuestionsOf[v], QuestionsOf[w]) : v, w \in Versions} \ {None}
RuleRow == [set : RuleSets, rule : NewRules \cup UNION {Range(new) : new \in Suggested}]

ASSUME ConstantsOK ==
    /\ RuleSets \subseteq [source : Versions, target : Versions]
    /\ RuleIds \subseteq Nat
    /\ DOMAIN Published \subseteq RuleIds
    /\ \A id \in DOMAIN Published : Published[id] \in RuleRow
    /\ Created \in Versions
    /\ Forms # {}
    /\ None # Deleted /\ {None, Deleted} \cap Statuses = {}

TypeOK ==
    /\ rule_sets \in [RuleSets -> Statuses \cup {None, Deleted}]
    /\ \A id \in RuleIds : rules[id] \in RuleRow \cup {None, Deleted}
    /\ submissions \in [Submissions -> SubmissionRow]
    /\ DOMAIN answers = Submissions /\ DOMAIN request = Sessions

Init ==
    /\ rules = [id \in RuleIds |-> IF id \in DOMAIN Published THEN Published[id] ELSE None]
    /\ rule_sets = [set \in RuleSets |->
                       IF \E id \in DOMAIN Published : Published[id].set = set
                       THEN "published" ELSE None]
    /\ submissions \in
           [Submissions -> [version : {Created}, status : {"draft"}, form_data : {CHOOSE form \in Forms : TRUE},
                            validation_results : {{}}]]
    /\ answers = [s \in Submissions |-> <<>>]
    /\ request = [c \in Sessions |-> None]

Live(id) == rules[id] \notin {None, Deleted}
SetLives(set) == rule_sets[set] \notin {None, Deleted}

\* The rules of a set, by display_order, which is the order of their creation.
IdsOf(set) == {id \in RuleIds : Live(id) /\ rules[id].set = set}
InOrder(rule) ==
    LET ids == SetToSortSeq(DOMAIN rule, <)
    IN  [i \in DOMAIN ids |-> rule[ids[i]]]
RulesOf(set) == InOrder([id \in IdsOf(set) |-> rules[id].rule])

\* New rules get the next ids, in their order.
EnoughIds(n) == Cardinality({id \in RuleIds : rules[id] = None}) >= n
Inserted(set, new) ==
    LET place(id) == Cardinality({other \in RuleIds : rules[other] = None /\ other <= id})
    IN  [id \in RuleIds |->
            IF rules[id] = None /\ place(id) \in DOMAIN new
            THEN [set |-> set, rule |-> new[place(id)]] ELSE rules[id]]

-----------------------------------------------------------------------------
(* Writing rule sets.                                                      *)

\* create_rule_set, with or without a first rule; a pair has one set.
CreateRuleSet(set, new) ==
    /\ rule_sets[set] = None
    /\ \A i \in DOMAIN new : ComputeRuleValid(new[i])
    /\ EnoughIds(Len(new))
    /\ rule_sets' = [rule_sets EXCEPT ![set] = "draft"]
    /\ rules' = Inserted(set, new)
    /\ UNCHANGED <<submissions, answers, request>>

\* generate_rule_set, for two versions that it can compare.
GenerateRuleSet(set) ==
    LET new == GeneratedRules(QuestionsOf[set.source], QuestionsOf[set.target])
    IN  /\ rule_sets[set] = None
        /\ new # None
        /\ EnoughIds(Len(new))
        /\ rule_sets' = [rule_sets EXCEPT ![set] = "draft"]
        /\ rules' = Inserted(set, new)
        /\ UNCHANGED <<submissions, answers, request>>

Idle(c) == request[c] = None
Close(c) == request' = [request EXCEPT ![c] = None]
Open(c, r) ==
    /\ Idle(c)
    /\ request' = [request EXCEPT ![c] = r]
    /\ UNCHANGED tables

\* _assert_draft.
AssertDraft(set) == rule_sets[set] = "draft"

\* add_rule and update_rule have an expression tried out first.
AddRuleBegin(c, set, new) ==
    /\ AssertDraft(set)
    /\ ComputeRuleValid(new)
    /\ Open(c, [op |-> "add", set |-> set, rule |-> new])

UpdateRuleBegin(c, id, new) ==
    /\ Live(id) /\ AssertDraft(rules[id].set)
    /\ new # rules[id].rule
    /\ ComputeRuleValid(new)
    /\ Open(c, [op |-> "update", row |-> id, rule |-> new])

DeleteRuleBegin(c, id) ==
    /\ Live(id) /\ AssertDraft(rules[id].set)
    /\ Open(c, [op |-> "delete", row |-> id])

\* The set must still be there when the rule goes in, and the rule when it is changed;
\* deleting what is gone is not an error.
CommitRule(c) ==
    LET r == request[c]
    IN  /\ ~Idle(c)
        /\ \/ /\ r.op = "add"
              /\ IF ~SetLives(r.set) THEN UNCHANGED rules
                 ELSE EnoughIds(1) /\ rules' = Inserted(r.set, <<r.rule>>)
           \/ /\ r.op = "update"
              /\ rules' = IF Live(r.row) THEN [rules EXCEPT ![r.row].rule = r.rule] ELSE rules
           \/ /\ r.op = "delete"
              /\ rules' = IF Live(r.row) THEN [rules EXCEPT ![r.row] = Deleted] ELSE rules
        /\ Close(c)
        /\ UNCHANGED <<rule_sets, submissions, answers>>

\* publish_rule_set: the rules go through the sandbox, whose samples look at the options
\* of every question of the source.  The first form leaves the sandbox out.
Publishable_Untried(set) == rule_sets[set] = "draft" /\ RulesOf(set) # <<>>
Publishable(set) ==
    /\ rule_sets[set] = "draft" /\ RulesOf(set) # <<>>
    /\ QuestionsOf[set.source] = <<>>
    /\ SandboxValid(RulesOf(set), QuestionsOf[set.source], QuestionsOf[set.target])

\* Publishing and archiving write the status alone.  Archiving what is archived, as
\* archive_rule_set allows, changes nothing.
SetStatusBegin(c, set) ==
    \E status \in {"published", "archived"} :
        /\ status = "published" => Publishable(set)
        /\ status = "archived" => rule_sets[set] = "published"
        /\ Open(c, [op |-> "status", set |-> set, mine |-> status, read |-> RulesOf(set)])

DeleteSetBegin(c, set) ==
    /\ AssertDraft(set)
    /\ Open(c, [op |-> "drop", set |-> set])

CommitSet(c) ==
    LET r == request[c]
    IN  /\ ~Idle(c)
        /\ \/ /\ r.op = "status"
              /\ rule_sets' = IF ~SetLives(r.set) THEN rule_sets
                              ELSE [rule_sets EXCEPT ![r.set] = r.mine]
              /\ UNCHANGED rules
           \/ /\ r.op = "drop"
              /\ rule_sets' = [rule_sets EXCEPT ![r.set] = Deleted]
              /\ rules' = [id \in RuleIds |->
                              IF id \in IdsOf(r.set) THEN Deleted ELSE rules[id]]
        /\ Close(c)
        /\ UNCHANGED <<submissions, answers>>

-----------------------------------------------------------------------------
(* Applying them.                                                          *)

\* An application under way: what is left to do, the submissions and the rules as this
\* session loaded them, and the one whose answers it has deleted but not committed.
Applying(set, todo, loaded) ==
    [op |-> "apply", set |-> set, todo |-> todo,
     rows |-> [s \in todo |-> submissions[s]], rules |-> loaded, at |-> None, wiped |-> {},
     new |-> <<>>]

\* apply_rule_set on one submission, which need not be at the source version.
ApplyBegin(c, set, s) ==
    /\ rule_sets[set] = "published"
    /\ submissions[s].status = "draft"
    /\ Open(c, Applying(set, {s}, RulesOf(set)))

\* bulk_migrate: the list is read once, the rules with the first of them.
Eligible(set) ==
    {s \in Submissions : submissions[s].version = set.source
                         /\ submissions[s].status = "draft"}
BulkBegin(c, set) ==
    /\ rule_sets[set] = "published"
    /\ Eligible(set) # {}
    /\ Open(c, Applying(set, Eligible(set), None))

\* _load_submission_answers: answers to questions of the source version, by key.
AnswersFor(set, s) ==
    LET asked == {key \in Keys(QuestionsOf[set.source]) :
                     <<set.source, key>> \in DOMAIN answers[s]}
    IN  [key \in asked |-> answers[s][<<set.source, key>>]]

\* The next submission: the rules are run, and unless they refuse it the answers it has
\* are deleted.  One that is refused leaves a log and nothing else; so does every one
\* whose rule set has gone.
ApplyNext(c) ==
    \E s \in request[c].todo :
        LET r == request[c]
            loaded == IF r.rules = None THEN RulesOf(r.set) ELSE r.rules
            before == AnswersFor(r.set, s)
            target == QuestionsOf[r.set.target]
            after == NewAnswers(RunRules(loaded, before).after, target)
        IN  /\ r.at = None
            /\ request' = [request EXCEPT ![c] =
                   IF SetLives(r.set) /\ Migrates(loaded, before, target)
                   THEN [r EXCEPT !.rules = loaded, !.at = s, !.wiped = DOMAIN answers[s],
                                  !.new = [q \in {<<r.set.target, key>> : key \in DOMAIN after}
                                              |-> after[q[2]]]]
                   ELSE IF r.todo = {s} THEN None
                   ELSE [r EXCEPT !.rules = loaded, !.todo = @ \ {s}]]
            /\ UNCHANGED tables

\* The submission as a migration leaves it in its session.
Moved(row, set) == [row EXCEPT !.version = set.target]

\* The answers of s that the DELETE of r did not see; the first form has no DELETE.
Kept_All(r, s) == answers[s]
Kept(r, s) == [q \in DOMAIN answers[s] \ r.wiped |-> answers[s][q]]

\* The commit of one migration.  When another request has answered one of the questions
\* in the meantime, or the rule set the log refers to has gone, it fails, and with the
\* session the whole run.
CommitApply(c) ==
    LET r == request[c]
        s == r.at
        kept == Kept(r, s)
    IN  IF DOMAIN kept \cap DOMAIN r.new # {} \/ ~SetLives(r.set)
        THEN Close(c) /\ UNCHANGED tables
        ELSE /\ submissions' =
                    [submissions EXCEPT ![s] = Flush(@, r.rows[s], Moved(r.rows[s], r.set))]
             /\ answers' = [answers EXCEPT ![s] =
                    [q \in DOMAIN r.new \cup DOMAIN kept |->
                        IF q \in DOMAIN r.new THEN r.new[q] ELSE kept[q]]]
             /\ request' = [request EXCEPT ![c] = IF r.todo = {s} THEN None
                               ELSE [r EXCEPT !.todo = @ \ {s}, !.at = None, !.wiped = {},
                                              !.new = <<>>]]
             /\ UNCHANGED <<rule_sets, rules>>

ApplyCommit(c) ==
    /\ ~Idle(c)
    /\ request[c].op = "apply" /\ request[c].at # None
    /\ CommitApply(c)

ApplyStep(c) ==
    ~Idle(c) /\ request[c].op = "apply" /\ ApplyNext(c)

-----------------------------------------------------------------------------
(* The submissions meanwhile.                                              *)

\* A handler that has changed the row of s in its session.
Writing(c, s, mine) ==
    Open(c, [op |-> "write", written |-> s, base |-> submissions[s], mine |-> mine])

\* update_submission; the first form takes a submission of any status.
EditBegin_AnyStatus(c, s, form) ==
    Writing(c, s, [submissions[s] EXCEPT !.form_data = form])
EditBegin(c, s, form) ==
    /\ submissions[s].status = "draft" /\ submissions[s].form_data # form
    /\ Writing(c, s, [submissions[s] EXCEPT !.form_data = form])

FormFits(row) == FormErrors(QuestionsOf[row.version], row.form_data) = {}

\* submit_submission, with its form validated or, if the caller wants, not.
SubmitBegin(c, s) ==
    /\ submissions[s].status = "draft"
    /\ \/ /\ FormFits(submissions[s])
          /\ Writing(c, s, [submissions[s] EXCEPT !.status = "submitted",
                                                  !.validation_results = {"valid"}])
       \/ Writing(c, s, [submissions[s] EXCEPT !.status = "submitted"])

\* finalize of a verification, which adds its decision to what it has read; the first
\* form puts it in the place of what was there.
FinalizeBegin_Alone(c, s) ==
    Writing(c, s, [submissions[s] EXCEPT !.validation_results = {"decision"}])
FinalizeBegin(c, s) ==
    Writing(c, s, [submissions[s] EXCEPT !.validation_results = @ \cup {"decision"}])

CommitWrite(c) ==
    /\ ~Idle(c) /\ request[c].op = "write"
    /\ submissions' = [submissions EXCEPT ![request[c].written] =
                          Flush(@, request[c].base, request[c].mine)]
    /\ Close(c)
    /\ UNCHANGED <<rule_sets, rules, answers>>

\* The client goes away or the process dies: what is not committed is lost.
GiveUp(c) == ~Idle(c) /\ Close(c) /\ UNCHANGED tables

-----------------------------------------------------------------------------

Administer(c) ==
    \/ \E set \in RuleSets : \/ \E new \in NewRules : AddRuleBegin(c, set, new)
                             \/ SetStatusBegin(c, set)
                             \/ DeleteSetBegin(c, set)
                             \/ \E s \in Submissions : ApplyBegin(c, set, s)
                             \/ BulkBegin(c, set)
    \/ \E id \in RuleIds : \/ \E new \in NewRules : UpdateRuleBegin(c, id, new)
                           \/ DeleteRuleBegin(c, id)

Work(c) ==
    \E s \in Submissions : \/ \E form \in Forms : EditBegin(c, s, form)
                           \/ SubmitBegin(c, s)
                           \/ FinalizeBegin(c, s)

Next ==
    \/ \E set \in RuleSets : \/ \E new \in {<<>>} \cup {<<rule>> : rule \in NewRules} :
                                    CreateRuleSet(set, new)
                             \/ GenerateRuleSet(set)
    \/ \E c \in Sessions : \/ Administer(c) \/ Work(c)
                           \/ CommitRule(c) \/ CommitSet(c)
                           \/ ApplyStep(c) \/ ApplyCommit(c)
                           \/ CommitWrite(c) \/ GiveUp(c)

Spec == Init /\ [][Next]_vars

-----------------------------------------------------------------------------

\* The rules of a set that can be applied have gone through the sandbox as they are.
Tried(set) ==
    rule_sets[set] = "published" =>
        SandboxValid(RulesOf(set), QuestionsOf[set.source], QuestionsOf[set.target])

\* Request c commits, or goes on, in this step.
Moves(c) == ~Idle(c) /\ request'[c] # request[c]

\* Request c read the set, or its rules, before they became what they are.
RulesRaced(c, set) ==
    LET r == request[c]
    IN  IF r.op = "status" THEN r.read # RulesOf(set) ELSE rule_sets[set] # "draft"

\* A published set has no rule that the sandbox refuses, unless a rule was edited while
\* the set was being published.
PublishedRulesTriedUnlessRaced ==
    [][\A set \in RuleSets : Tried(set) /\ ~Tried(set)' =>
           \E c \in Sessions : Moves(c) /\ RulesRaced(c, set)]_vars

\* The answers of a submission are to questions of the version it is locked to.
AnswersFit(s) == \A q \in DOMAIN answers[s] : q[1] = submissions[s].version

\* A migration, alone or in a bulk run that breaks off, moves a submission with its
\* answers or not at all, unless two of them work on the same submission.
MigrationsWholeUnlessRaced ==
    [][\A s \in Submissions : AnswersFit(s) /\ ~AnswersFit(s)' =>
           \E c \in Sessions :
               /\ Moves(c) /\ request[c].op = "apply" /\ request[c].at = s
               /\ \/ submissions[s].version # request[c].rows[s].version
                  \/ DOMAIN answers[s] # request[c].wiped]_vars

\* A form that was handed in with validation is one its version takes.
HandedInFits(s) ==
    submissions[s].status = "submitted" /\ "valid" \in submissions[s].validation_results =>
        FormFits(submissions[s])

\* It stops being so only when a request that read the submission as a draft writes its
\* form or its version after it was handed in, or when it is handed in after one has.
HandedInFormsFitUnlessRaced ==
    [][\A s \in Submissions : HandedInFits(s) /\ ~HandedInFits(s)' =>
           \E c \in Sessions :
               /\ Moves(c)
               /\ \/ request[c].op = "apply" /\ request[c].rows[s] # submissions[s]
                  \/ request[c].op = "write" /\ request[c].base # submissions[s]]_vars

\* The decision of a verification is lost to a validated submission alone, and the
\* verdict on the form to a verification that began before it was given.
VerdictsLostUnlessRaced ==
    [][\A s \in Submissions :
           LET old == submissions[s].validation_results
               new == submissions'[s].validation_results
           IN  /\ "decision" \in old \ new => submissions'[s].status = "submitted"
                                              /\ new = {"valid"}
               /\ "valid" \in old \ new =>
                      \E c \in Sessions : Moves(c) /\ request[c].base # submissions[s]]_vars
=============================================================================
