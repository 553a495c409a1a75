---------------------------- MODULE TemplateReview ----------------------------
(***************************************************************************)
(* One template of a tenant with its definitions: how they are written,    *)
(* reviewed, published and made active                                     *)
(* (app/services/tenant_templates/service.py).                             *)
(*                                                                         *)
(* As in SubmissionWorkflow, a handler is XBegin, what it reads with every *)
(* check it makes on that, and a commit.  A handler that commits without   *)
(* having checked anything that can change is one action.                  *)
(***************************************************************************)
EXTENDS Naturals, Sequences, Functions, UnitOfWork

CONSTANTS
    Admins,         \* users with templates.create, .update and .publish
    SuperAdmins,    \* users with every permission, and the only reviewers
    Definitions,    \* ids of rows of tenant_template_definitions
    First,          \* the definition the template may be created with
    Configs,        \* contents of rules_config
    Questions,      \* what a definition can ask
    Locked,         \* questions copied from the baseline, not tenant-editable
    Groups,         \* sets of questions that are in one group
    Sessions,       \* requests that may be in flight at once
    MaxReviews,     \* bound: entries of the review histories
    Askable,        \* bound: pairs of definitions rules are asked for
    None,
    Deleted

VARIABLES
    template,       \* row of tenant_templates, None or Deleted
    definitions,    \* Definitions -> row, None or Deleted
    questions,      \* Definitions -> questions it has
    reviews,        \* Definitions -> tenant_template_definition_reviews
    rule_sets,      \* transform_rule_sets: between which definitions, and
                    \* whether a publication or a request of its own made them
    request         \* Sessions -> the request in flight, or None

vars == <<template, definitions, questions, reviews, rule_sets, request>>

Users == Admins \cup SuperAdmins
ReviewStatuses == {"draft", "pending_review", "approved", "changes_requested"}

TemplateRow == [active_version_id : Definitions \cup {None}]
Row == [is_draft : BOOLEAN, review_status : ReviewStatuses,
        submitted_by : Users \cup {None}, reviewed_by : Users \cup {None},
        rules_config : Configs]
Event == [action : ReviewStatuses \ {"draft"}, by : Users]
RuleSet == [source : Definitions, target : Definitions, by : {"publication", "request"}]

\* base and mine are the definition as read and as changed, was and becomes the
\* template likewise, for the handlers that write it; touched are the questions
\* added or removed.  Only a review records its user: who may do the rest is up to
\* the permissions of the routes.
Operations == {"update", "review", "publish", "generate", "add", "remove",
               "delete", "activate"}
Request == [op : Operations, id : Definitions \cup {None}, user : Users \cup {None},
            base : Row \cup {None}, mine : Row \cup {None},
            was : TemplateRow \cup {None}, becomes : TemplateRow \cup {None},
            touched : SUBSET Questions]

ASSUME ConstantsOK ==
    /\ First \in Definitions
    /\ Locked \subseteq Questions
    /\ Groups \subseteq SUBSET Questions
    /\ MaxReviews \in Nat
    /\ Askable \subseteq Definitions \X Definitions
    /\ None \notin Definitions \cup Users \cup Row \cup TemplateRow \cup Request
    /\ Deleted \notin Row \cup TemplateRow /\ None # Deleted

Live(d) == definitions[d] \notin {None, Deleted}
TemplateLives == template \notin {None, Deleted}

TypeOK ==
    /\ template \in TemplateRow \cup {None, Deleted}
    /\ definitions \in [Definitions -> Row \cup {None, Deleted}]
    /\ questions \in [Definitions -> SUBSET Questions]
    /\ reviews \in [Definitions -> Seq(Event)]
    /\ rule_sets \subseteq RuleSet
    /\ request \in [Sessions -> Request \cup {None}]

Init ==
    /\ template = None
    /\ definitions = [d \in Definitions |-> None]
    /\ questions = [d \in Definitions |-> {}]
    /\ reviews = [d \in Definitions |-> <<>>]
    /\ rule_sets = {}
    /\ request = [c \in Sessions |-> None]

tables == <<template, definitions, questions, reviews, rule_sets>>

-----------------------------------------------------------------------------
(* Creating, and deleting the template.                                    *)

NewDefinition(config) ==
    [is_draft |-> TRUE, review_status |-> "draft", submitted_by |-> None,
     reviewed_by |-> None, rules_config |-> config]

\* create_tenant_template, with an initial version, which is active at once, or
\* without.
CreateTemplate(config, own) ==
    /\ template = None
    /\ \/ /\ template' = [active_version_id |-> First]
          /\ definitions' = [definitions EXCEPT ![First] = NewDefinition(config)]
          /\ questions' = [questions EXCEPT ![First] = Locked \cup own]
       \/ /\ template' = [active_version_id |-> None]
          /\ UNCHANGED <<definitions, questions>>
    /\ UNCHANGED <<reviews, rule_sets, request>>

\* create_tenant_template_definition.
CreateDefinition(d, config, own) ==
    /\ TemplateLives
    /\ d # First /\ definitions[d] = None
    /\ definitions' = [definitions EXCEPT ![d] = NewDefinition(config)]
    /\ questions' = [questions EXCEPT ![d] = Locked \cup own]
    /\ UNCHANGED <<template, reviews, rule_sets, request>>

\* delete_tenant_template; everything goes with it.
DeleteTemplate ==
    /\ TemplateLives
    /\ template' = Deleted
    /\ definitions' = [d \in Definitions |-> IF Live(d) THEN Deleted ELSE definitions[d]]
    /\ questions' = [d \in Definitions |-> {}]
    /\ reviews' = [d \in Definitions |-> <<>>]
    /\ rule_sets' = {}
    /\ UNCHANGED request

-----------------------------------------------------------------------------
(* What the handlers read and check.                                       *)

Idle(c) == request[c] = None
Close(c) == request' = [request EXCEPT ![c] = None]

Open(c, r) ==
    /\ request' = [request EXCEPT ![c] = r]
    /\ UNCHANGED tables

\* A request that has read definition d.
Reading(op, d) ==
    [op |-> op, id |-> d, user |-> None, base |-> definitions[d], mine |-> definitions[d],
     was |-> None, becomes |-> None, touched |-> {}]

\* _assert_definition_editable; the first form looks at is_draft only.
Editable_Draft(row) == row.is_draft
Editable(row) == row.is_draft /\ row.review_status # "pending_review"

\* update_tenant_template_definition: an edit voids the review it follows.
Edited(row, config) ==
    IF row.review_status \in {"approved", "changes_requested"}
      THEN NewDefinition(config)
      ELSE [row EXCEPT !.rules_config = config]

UpdateBegin(c, d, config) ==
    /\ Idle(c) /\ Live(d)
    /\ Editable(definitions[d])
    /\ Open(c, [Reading("update", d) EXCEPT !.mine = Edited(@, config)])

\* delete_tenant_template_definition.
DeleteBegin(c, d) ==
    /\ Idle(c) /\ Live(d)
    /\ Editable(definitions[d])
    /\ template.active_version_id # d
    /\ Open(c, Reading("delete", d))

\* The bound on the histories of all definitions together.
RoomForReview ==
    FoldFunction(LAMBDA log, n : Len(log) + n, 0, reviews) < MaxReviews

SubmitBegin(c, u, d) ==
    /\ Idle(c) /\ Live(d)
    /\ Editable(definitions[d])
    /\ definitions[d].review_status # "approved"
    /\ RoomForReview
    /\ Open(c, [Reading("review", d) EXCEPT !.user = u,
         !.mine.review_status = "pending_review", !.mine.submitted_by = u,
         !.mine.reviewed_by = None])

Reviewable(row) == row.is_draft /\ row.review_status = "pending_review"

\* approve_tenant_template_definition; the first form forgets four eyes.
MayApprove_Anyone(u, row) == Reviewable(row)
MayApprove(u, row) == Reviewable(row) /\ u # row.submitted_by

ReviewBegin(c, u, d, verdict) ==
    /\ Idle(c) /\ Live(d)
    /\ IF verdict = "approved" THEN MayApprove(u, definitions[d])
                               ELSE Reviewable(definitions[d])
    /\ RoomForReview
    /\ Open(c, [Reading("review", d) EXCEPT !.user = u,
         !.mine.review_status = verdict, !.mine.reviewed_by = u])

\* publish_tenant_template_definition.  (Unique keys are taken to be unique.)
Publishable(row) == row.is_draft /\ row.review_status = "approved"

PublishBegin(c, d, set_as_active) ==
    /\ Idle(c) /\ Live(d)
    /\ Publishable(definitions[d])
    /\ Open(c, [Reading("publish", d) EXCEPT !.mine.is_draft = FALSE, !.was = template,
         !.becomes = IF set_as_active THEN [active_version_id |-> d] ELSE template])

\* The questions have rows of their own, and the handlers that add or delete one
\* (or a group of them) ask only whether the definition is a draft; the first form
\* does not ask.
QuestionsOpen_Always(row) == TRUE
QuestionsOpen(row) == row.is_draft

AddBegin(c, d, q) ==
    /\ Idle(c) /\ Live(d)
    /\ q \notin Locked \cup questions[d]
    /\ QuestionsOpen(definitions[d])
    /\ Open(c, [Reading("add", d) EXCEPT !.touched = {q}])

\* Locked questions cannot be deleted, the group they are in can.
RemoveBegin(c, d, touched) ==
    /\ Idle(c) /\ Live(d)
    /\ touched \in Groups \cup {{q} : q \in Questions \ Locked}
    /\ touched \cap questions[d] # {}
    /\ QuestionsOpen(definitions[d])
    /\ Open(c, [Reading("remove", d) EXCEPT !.touched = touched])

\* update_tenant_template, with an active version or with none; the first form
\* activates drafts.
Activatable_Any(d) == d # None => Live(d)
Activatable(d) == d # None => Live(d) /\ ~definitions[d].is_draft

ActivateBegin(c, d) ==
    /\ Idle(c) /\ TemplateLives
    /\ Activatable(d)
    /\ Open(c, [op |-> "activate", id |-> d, user |-> None, base |-> None, mine |-> None,
                   was |-> template, becomes |-> [active_version_id |-> d], touched |-> {}])

-----------------------------------------------------------------------------
(* Commits.                                                                *)

Written(c) ==
    LET r == request[c] IN
    [definitions EXCEPT ![r.id] = Flush(@, r.base, r.mine)]

CommitUpdate(c) ==
    /\ ~Idle(c) /\ request[c].op = "update"
    /\ Live(request[c].id)
    /\ definitions' = Written(c)
    /\ Close(c)
    /\ UNCHANGED <<template, questions, reviews, rule_sets>>

\* The columns and the entry of the history, in one transaction; the first form
\* makes no entry.
CommitReview_NoEntry(c) ==
    /\ ~Idle(c) /\ request[c].op = "review"
    /\ Live(request[c].id) /\ RoomForReview
    /\ definitions' = Written(c)
    /\ Close(c)
    /\ UNCHANGED <<template, questions, reviews, rule_sets>>
CommitReview(c) ==
    LET r == request[c] IN
    /\ ~Idle(c) /\ r.op = "review"
    /\ Live(r.id) /\ RoomForReview
    /\ definitions' = Written(c)
    /\ reviews' = [reviews EXCEPT ![r.id] =
         Append(@, [action |-> r.mine.review_status, by |-> r.user])]
    /\ Close(c)
    /\ UNCHANGED <<template, questions, rule_sets>>

\* With a version that was active before, rules to migrate from it come next.
CommitPublish(c) ==
    LET r == request[c] IN
    /\ ~Idle(c) /\ r.op = "publish"
    /\ Live(r.id)
    /\ definitions' = Written(c)
    /\ template' = Flush(template, r.was, r.becomes)
    /\ IF r.was.active_version_id = None
         THEN Close(c)
         ELSE request' = [request EXCEPT ![c].op = "generate"]
    /\ UNCHANGED <<questions, reviews, rule_sets>>

\* A pair of definitions has one rule set at most, and both are there.
Insertable(p) ==
    /\ Live(p.source) /\ Live(p.target)
    /\ \A q \in rule_sets : q.source # p.source \/ q.target # p.target

\* generate_rule_set.  An error, such as one of the definitions being gone or the
\* pair having a rule set, is swallowed: see GiveUp.  The first form leads back.
Generated_Back(r) ==
    [source |-> r.id, target |-> r.was.active_version_id, by |-> "publication"]
Generated(r) ==
    [source |-> r.was.active_version_id, target |-> r.id, by |-> "publication"]

Generate(c) ==
    LET r == request[c] IN
    /\ ~Idle(c) /\ r.op = "generate"
    /\ Insertable(Generated(r))
    /\ rule_sets' = rule_sets \cup {Generated(r)}
    /\ Close(c)
    /\ UNCHANGED <<template, definitions, questions, reviews>>

\* The routes that generate or create a rule set, between definitions that may be
\* drafts, and the one that deletes a set (only while that is a draft: its status
\* is TransformMigration's).
AskForRuleSet(source, target) ==
    LET p == [source |-> source, target |-> target, by |-> "request"] IN
    /\ <<source, target>> \in Askable
    /\ Insertable(p)
    /\ rule_sets' = rule_sets \cup {p}
    /\ UNCHANGED <<template, definitions, questions, reviews, request>>

DeleteRuleSet(p) ==
    /\ rule_sets' = rule_sets \ {p}
    /\ UNCHANGED <<template, definitions, questions, reviews, request>>

CommitQuestions(c) ==
    LET r == request[c] IN
    /\ ~Idle(c)
    /\ \/ r.op = "add" /\ Live(r.id)
       \/ r.op = "remove"
    /\ questions' = [questions EXCEPT ![r.id] =
         IF r.op = "add" THEN @ \cup r.touched ELSE @ \ r.touched]
    /\ Close(c)
    /\ UNCHANGED <<template, definitions, reviews, rule_sets>>

\* What refers to the definition goes with it; a template whose active version it
\* has become is left without one (ON DELETE SET NULL).
CommitDelete(c) ==
    LET d == request[c].id IN
    /\ ~Idle(c) /\ request[c].op = "delete"
    /\ definitions' = [definitions EXCEPT ![d] = Deleted]
    /\ questions' = [questions EXCEPT ![d] = {}]
    /\ reviews' = [reviews EXCEPT ![d] = <<>>]
    /\ rule_sets' = {p \in rule_sets : d \notin {p.source, p.target}}
    /\ template' = IF TemplateLives /\ template.active_version_id = d
                     THEN [template EXCEPT !.active_version_id = None] ELSE template
    /\ Close(c)

CommitActivate(c) ==
    LET r == request[c] IN
    /\ ~Idle(c) /\ r.op = "activate"
    /\ TemplateLives
    /\ (r.id # None /\ r.becomes # r.was) => Live(r.id)
    /\ template' = Flush(template, r.was, r.becomes)
    /\ Close(c)
    /\ UNCHANGED <<definitions, questions, reviews, rule_sets>>

\* The request fails or its process dies; what it has committed stays.
GiveUp(c) ==
    /\ ~Idle(c)
    /\ Close(c)
    /\ UNCHANGED tables

Next ==
    \/ \E config \in Configs, own \in SUBSET (Questions \ Locked) :
         \/ CreateTemplate(config, own)
         \/ \E d \in Definitions : CreateDefinition(d, config, own)
    \/ DeleteTemplate
    \/ \E source, target \in Definitions : AskForRuleSet(source, target)
    \/ \E p \in rule_sets : DeleteRuleSet(p)
    \/ \E c \in Sessions, d \in Definitions :
         \/ \E config \in Configs : UpdateBegin(c, d, config)
         \/ DeleteBegin(c, d)
         \/ \E u \in Users : SubmitBegin(c, u, d)
         \/ \E u \in SuperAdmins, verdict \in {"approved", "changes_requested"} :
              ReviewBegin(c, u, d, verdict)
         \/ \E set_as_active \in BOOLEAN : PublishBegin(c, d, set_as_active)
         \/ \E q \in Questions : AddBegin(c, d, q)
         \/ \E touched \in SUBSET Questions : RemoveBegin(c, d, touched)
    \/ \E c \in Sessions, d \in Definitions \cup {None} : ActivateBegin(c, d)
    \/ \E c \in Sessions :
         \/ CommitUpdate(c) \/ CommitReview(c) \/ CommitPublish(c) \/ Generate(c)
         \/ CommitQuestions(c) \/ CommitDelete(c) \/ CommitActivate(c) \/ GiveUp(c)

Spec == Init /\ [][Next]_vars

-----------------------------------------------------------------------------
(* Properties.                                                             *)

\* The requests that commit on definition d in this step, and whether one of them
\* had read a row that is another by now.
Committing(d) == {c \in Sessions : /\ ~Idle(c)
                                   /\ request'[c] # request[c]
                                   /\ request[c].id = d}
Raced(d) == \E c \in Committing(d) : request[c].base # definitions[d]

\* Whatever overlaps, a definition's review status is the last entry of its
\* history, or draft.  Relies on a review always writing the status column.
ReviewStatusIsLogged ==
    \A d \in Definitions : Live(d) =>
        LET status == definitions[d].review_status
            log == reviews[d]
        IN  status # "draft" => log # <<>> /\ log[Len(log)].action = status

\* "Submitter cannot approve their own definition.": every approval follows a
\* submission by someone else.  A resubmission that overlaps an edit breaks this.
ApprovalsTakeTwo ==
    \A d \in Definitions : \A i \in 1..Len(reviews[d]) :
        reviews[d][i].action = "approved" =>
            \E j \in 1..(i - 1) : /\ reviews[d][j].action = "pending_review"
                                  /\ reviews[d][j].by # reviews[d][i].by

\* A definition gets under review without a submitter to show for it only by a
\* submission that had read another state of it.
SubmitterIsKept(d) ==
    (/\ Live(d)' /\ definitions'[d].review_status = "pending_review"
     /\ definitions'[d].submitted_by = None /\ ~Raced(d))
        => definitions'[d] = definitions[d]

\* Whoever approves a definition that shows its submitter, races with reviews and
\* resubmissions included, is not the only one who ever submitted it.
ApproverIsAnother(d) ==
    \A c \in Committing(d) :
        (/\ request[c].op = "review" /\ request[c].mine.review_status = "approved"
         /\ reviews'[d] # reviews[d] /\ request[c].base.submitted_by # None)
            => \E j \in 1..Len(reviews[d]) :
                   /\ reviews[d][j].action = "pending_review"
                   /\ reviews[d][j].by # request[c].user

FourEyesUnlessRaced ==
    [][\A d \in Definitions : SubmitterIsKept(d) /\ ApproverIsAnother(d)]_vars

\* The active version of a template is there and published, however deletes,
\* publications and activations overlap; but the one the template was created
\* with is active from the start.
ActiveIsPublished ==
    TemplateLives /\ template.active_version_id # None =>
        LET d == template.active_version_id IN
        Live(d) /\ (d = First \/ ~definitions[d].is_draft)

\* A rule set has both its ends, and one that a publication generated leads to a
\* definition that is published from one that was active before, so published as
\* well but for the first; whatever is deleted, edited or activated between reading
\* the active version, the commit of the publication, and the generation.
RulesLinkPublished ==
    \A p \in rule_sets :
        /\ Live(p.source) /\ Live(p.target)
        /\ p.by = "publication" =>
             /\ ~definitions[p.target].is_draft
             /\ p.source = First \/ ~definitions[p.source].is_draft

\* A published definition stays as it is, questions included, until its template
\* is deleted, but for requests that had read another state of it.
PublishedIsFrozen(d) ==
    (Live(d) /\ ~definitions[d].is_draft /\ template' # Deleted /\ ~Raced(d)) =>
        definitions'[d] = definitions[d] /\ questions'[d] = questions[d]

PublishedFrozenUnlessRaced == [][\A d \in Definitions : PublishedIsFrozen(d)]_vars

\* While a review is pending the rules stay as they are, and a change of the rules
\* after it takes the approval away, but for races.
ConfigReviewed(d) ==
    (Live(d) /\ Live(d)' /\ definitions'[d].rules_config # definitions[d].rules_config
       /\ ~Raced(d)) =>
        /\ definitions[d].review_status # "pending_review"
        /\ definitions'[d].review_status = "draft"

ConfigReviewedUnlessRaced == [][\A d \in Definitions : ConfigReviewed(d)]_vars
=============================================================================
