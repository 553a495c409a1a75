# Onboarding and verification services: TLA+ models and proofs

These modules model the Python service under `src/app` (FastAPI, SQLModel on
PostgreSQL, Temporal, Keycloak).  TLC checks them on small instances, TLAPS
proves the theorems of the modules whose names end in `Proofs` for every value of
the constants.  `PROJECT.json` lists the runs, the theorems, the hazards, and for
every definition the lines of code it stands for.

Contents: [the system](#1-the-system), [what is hard about
it](#2-what-is-hard-about-it), [the modules](#3-the-modules), [the runs](#4-the-runs),
[fairness](#5-fairness), [the proofs](#6-the-proofs), [findings](#7-findings),
[abstractions](#8-abstractions-and-what-is-not-modelled), [the plan](#9-the-plan).

## 1. The system

Tenants collect data from people through forms.  A *template definition* says
what a form asks, a *submission* holds the answers, and a *verification run*
checks who gave them.  Every tenant has a PostgreSQL schema and a Keycloak
realm of its own.

| Component | State | Operations | Correct if |
|---|---|---|---|
| Submission workflow, `services/submissions/service.py` | `submissions`, `submission_status_history` | create, update, delete, transition, submit, comment, search | the row and its audit trail agree; every move is one of the table; nobody reviews their own submission; what is under review stays as it was handed in |
| Verification runtime, `services/verifications/service.py` | `verification_runs`, `verification_step_runs`, `computed_data` of the submission | start, deferred start, submit step action, advance | runs are decided by the rules on steps that have ended; results and decisions are final; codes are counted; one run is active |
| Verification workflow, `app/temporal` | workflow executions, their signal queues | resume, submit_action; activities advance and apply | no answer is lost or counted twice; a workflow comes to rest; it closes only over a run that is over |
| Tenant templates, `services/tenant_templates/service.py` | templates, versions, groups, questions, rules | create, edit, submit for review, approve, request changes, publish, activate | what is published is what was approved, by someone else than its author; the active version is published |
| Baseline templates, `services/baseline_templates/service.py` | the platform's templates, which tenants copy | create, edit, lock, publish, delete | the rules of what tenants published do not change under them |
| Transform rules, `services/transforms` | rule sets, rules, answers, migration logs | generate, edit, publish, archive, preview, apply, bulk apply | what is applied was tried; an eligible submission moves with its answers or not at all; generated rules carry answers over |
| Products, `services/products/service.py` | products, their template and KYC settings | create, update, activate, deactivate, delete | an active product has a template that is in use |
| Tenants and users, `services/tenants/tenant.py`, `integrations/keycloak` | registry, schemas, realms, identity links | the create-tenant saga, update, delete, create user | a tenant has all of its parts, or nothing is left of it |
| Authorization, `core/authz.py`, `services/authz/policy.py` | stored policies and their caches | permission and column checks, policy update | a permission withdrawn stops to open routes; makers and checkers stay apart |
| Database sessions, `db/session.py` | engine pool, `search_path` of connections | session per request, commit, rollback | a session writes what its handler changed, in its own tenant's schema |
| Answer validation and search, `submissions/answer_validator.py` and the search of `submissions/service.py` | none of their own | validate answers, validate a form, catalogue of filters, search | a definition and a form have one verdict; pages join to the whole |
| Authentication and request context, `core/auth.py`, `core/context.py`, `routes/auth/routes.py` | caches of signing keys and of known realms | verify tokens, resolve the tenant, log in through Keycloak | keys that were withdrawn stop to be taken; a realm that is there is found |
| Onboarding placeholder, `temporal/workflows/onboarding.py` | none | none | a placeholder |
| Errors, configuration, schemas, migrations | none at run time | none | wording and DDL |

How they interact.  A request opens one `AsyncSession` in its tenant's schema,
calls one service and answers; services share state through tables only.  The
transform executor writes `submissions` next to the submission service.  A
submission is verified by runs that read its `form_data` and write their
decision into its `computed_data`.  With Temporal enabled, the verification
service hands the advancing of a run over to a workflow by two signals, and the
workflow calls back into the same service through activities, in sessions of
their own.  Definitions pin what submissions ask, products pin templates.

## 2. What is hard about it

* **Read, check, commit.**  Handlers read a row, await, check it, change their
  copy and commit.  The database runs at READ COMMITTED, nothing takes a row lock,
  no table has a version column.  A commit writes the columns that the handler
  changed, over whatever the row has become meanwhile.
* **Several commits on one way.**  A start of a verification commits the run,
  then its steps, then every pass, then the outcome.  Other requests see what
  lies in between, and a crash leaves it behind.
* **Sessions do not refresh.**  Sessions are built with
  `expire_on_commit=False`, and selecting a loaded row again does not reload it: a
  request goes by its first view to its end.
* **Signals and repetition.**  A workflow may use up a resume before the
  answer that follows it arrives.  An activity whose result is lost is repeated on
  tables that have its effect already.
* **Review.**  Who may move what depends on roles that one user can combine, on
  authorship, and on statuses that move in the meantime.
* **Sagas.**  Creating a tenant writes a row, a schema and a realm that no
  transaction spans; each step, and each step of the compensation, can fail.
* **Caches.**  A worker process remembers policies, signing keys and realms for a
  while.  Several requests look and load at once, and what arrives last is not
  what was read last.
* **Pooled connections.**  A commit gives the connection back to the pool, and the
  next statement of the same request runs on another one.

`PROJECT.json`, "hazards", lists these at their lines.

## 3. The modules

    UnitOfWork            SubmissionStatus        VerificationEngine
        |  \                /          \                  |
        |   SubmissionWorkflow ~~~> SubmissionLifecycle   |
        |          |                                      |
        |   SubmissionWorkflowProofs                      |
        +------------------------------------ VerificationRuntime
                                                          |
                                              VerificationWorkflow
    UnitOfWork --- TemplateReview

    Collections --- AnswerValidation --- TransformRules     Requests (on UnitOfWork)
        |                                  |       |         /        |        \
    SubmissionSearch                       |       |     Tenants  Baselines  Products
        |                                  |       |         \        |        /
        +--- RulesAndSearch ---------------+   TransformMigration     Platform
                   |
         RulesAndSearchProofs

    AccessRules --- Worker --- TokenKeys, PolicyCache, RealmLogin --- Access
    SessionPool

    (the MC modules extend the modules of their names, and so do SubmissionWorkflow-,
     TemplateReview-, VerificationRuntime-, VerificationWorkflow-, TransformMigration-,
     Access-, RulesAndSearch- and PlatformProofs; ~~~> is a refinement)

**UnitOfWork.**  `Flush(row, base, mine)` is a commit: the columns in which
`mine` differs from `base`, written over `row`.

**SubmissionStatus, SubmissionLifecycle.**  The transition table as data, and
the abstract specification: a submission has a status and a trail, an entry of the
trail leads from a status the submission has had to one the table lists for
it, and none but a super admin reviews what they created.  That the entry does
not have to start at the *current* status is what the code promises, not an
omission (section 7).

**SubmissionWorkflow.**  The rows and trails, and the requests in flight.
Each handler is an action `XBegin`, the read and all checks on what was read,
and a commit (`CommitContent`, `CommitTransition`, `CommitDelete`); `Rollback` is
the request that never commits.

| Action | Code |
|---|---|
| `CreateSubmission` | `create_submission`; one commit, nothing read that it could race for |
| `UpdateBegin`, `CommitContent` | `update_submission` |
| `DeleteBegin`, `CommitDelete` | `delete_submission`; the trail goes by the cascade |
| `TransitionBegin`, `CommitTransition` | `transition_status`: ownership, four-eyes, table, reviewer, history entry |
| `SubmitBegin`, `CommitTransition` | `submit_submission`, which ends in `transition_status` |
| `MigrateBegin`, `CommitContent` | `apply_rule_set` of the transform executor |

Permissions are the ones the routes of these handlers require, with
`DEFAULT_ROLE_PERMISSIONS` for roles.

**VerificationEngine.**  The rules of a run as pure operators: `Ready`,
`Executed`, `Answered`, `Pass` (one turn of the loop in `_advance_run`),
`Decision`, `Finalized`.  A flow is a constant; its data is abstracted to whether
a challenge finds its address and how a comparison comes out, both as functions
of the steps that passed.

**VerificationRuntime.**  The direct way: what happens with Temporal disabled
or unreachable.  A request goes through the places `insert`, `refresh`, `init`,
`defer`, `action`, `list`, `advance`, with a commit between any two, and `Crash` may
end it at each.  A new run is committed and then read back in a transaction of its
own (`InsertRun`, `RefreshRun`), so what its start knows of it may be what another
request has made of it.  Two variables are auxiliary.  `disturbed` turns true once a
request acts on a view that is not, or not completely, what the tables say:
properties qualified by it hold as long as nobody does.  `overtaken` has the runs that
were over by the time the start that inserted them read them back; the start goes on,
and reopens them.

**VerificationWorkflow.**  The Temporal way, on top of the same actions: a
request becomes signals (`Launch`, `Resume`, `SubmitAction`), the workflow waits,
applies answers and orders passes (`Wake`, `Applied`, `Advanced`), and a worker's
attempt at an activity takes the steps of the direct way.  An attempt may
crash, overlap its successor, or lose its result (`ResultLost`).  A start learns with
the refresh of its run whether that has a workflow by now (`ReadBack`).  `due`, an
auxiliary variable, counts for each step the answers the workflow is through with,
and those whose result was lost once more: the tables' `attempt_count` is compared
with it.

**TemplateReview.**  One template and its definitions.  Review status, reviewer
and rules are columns of the definition; its questions are rows of their own, and
the handlers that write those check something else (`QuestionsOpen`) than those that
write the definition (`Editable`).  `CommitPublish` is followed by `Generate`, the
rule set that leads from the version that was active to the one that was published,
or by `GiveUp`, as the code swallows its failure.  Administrators ask for rule sets
themselves, too, between any two definitions of the template, drafts included
(`AskForRuleSet`); a set names who is behind it.

| Action | Code |
|---|---|
| `CreateTemplate`, `CreateDefinition`, `DeleteTemplate` | `create_tenant_template`, `create_tenant_template_definition`, `delete_tenant_template` |
| `UpdateBegin`, `CommitUpdate` | `update_tenant_template_definition` with `_reset_review_state` |
| `SubmitBegin`, `ReviewBegin`, `CommitReview` | submit for review, approve, request changes |
| `PublishBegin`, `CommitPublish`, `Generate` | `publish_tenant_template_definition`, `generate_rule_set` |
| `AskForRuleSet`, `DeleteRuleSet` | the routes that generate, create and delete rule sets: both definitions are there, and the pair has no set yet (`Insertable`) |
| `AddBegin`, `RemoveBegin`, `CommitQuestions` | the handlers that add and delete questions and groups |
| `DeleteBegin`, `CommitDelete` | `delete_tenant_template_definition`, with what the foreign keys do |
| `ActivateBegin`, `CommitActivate` | `update_tenant_template` with an active version |

**AnswerValidation, TransformRules, SubmissionSearch.**  The pure parts, as operators:
the two validators (`AnswerErrors` of answers, `FormErrors` of a form); `ApplyOperation`
with one branch per operation of a rule, `RunRules`, `SandboxValid` and
`GeneratedRules`, what `generate_rule_set` suggests for two versions, or `None` where it
fails on options that were never loaded (`OptionsLookedAt`); the catalogue
`SearchConfig` and `Search` with its filters, its order and its pages.  A text is a
sequence of pieces, the parts between commas, so that lists of options and their joining
and splitting are there and letters are not.  `Collections` has the dictionary and list
operators they are written with, in a form that the provers can look into.
`RulesAndSearch` has one variable, an input of one of five kinds, and its properties
compare the operators with reference definitions.

**TransformMigration.**  Rule sets with their rules, submissions with their
answers and `validation_results`, and the requests that change them.

| Action | Code |
|---|---|
| `CreateRuleSet`, `GenerateRuleSet` | `create_rule_set`, `generate_rule_set` with the insertion of its rules |
| `AddRuleBegin`, `UpdateRuleBegin`, `DeleteRuleBegin`, `CommitRule` | `add_rule`, `update_rule`, `delete_rule`: the status of the set is read, the rule is written |
| `SetStatusBegin`, `DeleteSetBegin`, `CommitSet` | `publish_rule_set` with the sandbox, `archive_rule_set`, `delete_rule_set` |
| `ApplyBegin`, `ApplyCommit` | the apply route: `apply_rule_set` and its commit |
| `BulkBegin`, `ApplyStep` | `bulk_migrate`: the list once, then `apply_rule_set` and a commit for each; after a commit that failed the session refuses everything |
| `EditBegin`, `SubmitBegin`, `FinalizeBegin`, `CommitWrite` | the other writers of `form_data` and `validation_results`: `update_submission`, `submit_submission` with validation, `_finalize_run` |

**Requests, Tenants, Baselines, Products, Platform.**  What is set up before
anyone is onboarded.  `Requests` has the requests in flight, `Platform` composes the
three parts.

| Action | Code |
|---|---|
| `Register`, `MakeSchema`, `Migrate`, `EnsureRealm`, `EnsureRoles`, `EnsureClient`, `SaveClient`, `EnsureUser`, `AssignRoles` | `create_tenant`, step by step |
| `Fails`, `Unmake`, `Deactivate`, `Drop`, `Erase` | a step that raises, and the handler that takes back what there is, in its order and with what it swallows |
| `HardDelete`, `UpdateTenant` | `delete_tenant`, `update_tenant` |
| `CreateUser`, `Link` | `create_tenant_user`, `_upsert_identity_link` |
| `Deploy`, `DeployOne`, `Crash` | `upgrade_all_tenants`; the process ends |
| `CreateBaseline`, `HeaderBegin/Commit`, `DropBegin/Commit` | a baseline, its header and lock, its deletion |
| `DefineBegin/Commit`, `RewriteBegin/Commit`, `EraseBegin/Commit`, `IssueBegin/Commit`, `AskBegin/Commit` | its definitions: created as a copy, rewritten, deleted, published; groups and questions |
| `CopyBegin/Commit`, `AdaptBegin/Commit`, `PublishCopy` | `create_tenant_template` with the copy of the active baseline definition, `update_tenant_template_definition` of its rules, its publication |
| `CreateBegin/Commit`, `UpdateBegin`, `ActivateBegin`, `DeactivateBegin`, `WriteCommit`, `DeleteBegin/Commit` | the handlers of products |
| `NewTemplate`, `SetActive`, `DeleteTemplate` | what tenant templates do as far as products look at it |

`blamed` is an auxiliary variable of `Tenants`: a tenant is in it once more has
happened to it than one failure (a crash, a failing compensation, an activation by
hand, an earlier tenant of the same key that is still being made or removed).

**AccessRules, Worker, TokenKeys, PolicyCache, RealmLogin, Access.**
`AccessRules` has what is computed: roles and tenant of a token, the closure of
permissions, what a policy may grant, how three policies are merged, what a route
requires.  `Worker` is one process with a clock and its requests.  The other three are
its caches: a look at the cache, a lock where there is one, a load that takes as long
as it takes, and the store are actions of their own, and Keycloak or an
administrator changes the original in between.  `Access` composes them.

**SessionPool.**  Connections with the `search_path` they were left with, and
sessions that take the head of the queue for each transaction.

Some operators have a second form next to them (`Flush` and `FlushWholeRow`,
`Ready` and `Ready_Again`, ...).  The second form is a plausible mistake that
some property would catch; it is used by no specification.  `PROJECT.json`,
"mutants", says which property catches which.

## 4. The runs

| Run | Question | Distinct states |
|---|---|---|
| `submission_concurrent` | What do overlapping requests keep intact on a submission? | 257 thousand |
| `verification_direct` | What do overlapping and crashing requests keep intact on runs? | 1.5 million |
| `verification_temporal` | What does the workflow keep intact, with repeated activities? | 973 thousand |
| `verification_settles` | Does every workflow come to rest, but for refused answers? | 26 thousand |
| `template_review` | What do overlapping requests keep intact on a template and its definitions? | 1.6 million |
| `transform_migration` | What do rules, migrations, edits and verifications keep intact between them? | 407 thousand |
| `rules_and_search` | Do the rules, the validators and the search compute what they are for? | 73 thousand inputs |
| `platform` | What do failures, crashes and overlapping requests leave of tenants, baselines and products? | 1.3 million |
| `access` | How old may be what a worker decides by? | 376 thousand |
| `verification_stuck`, `template_four_eyes`, `session_pool` | One finding each, section 7 | |

*Bounds.*  `submission_concurrent` has one submission (requests on different ones share
no state), two requests in flight (each race is between a reader and a writer that
overtakes it), trails of up to `MaxHistory` = 4 entries (draft, submitted, a verdict and
one more), three users: a maker, one who is maker and checker, and a super admin.
`verification_direct` has the demo flow of the repository's seed data (an OTP, then a
comparison that needs its output), one attempt at the OTP, two runs (`MaxRuns`) so that
a second one can be started after or next to the first, and two requests in flight.
`verification_temporal` has two attempts at the OTP, so that there is a wrong code that
is not the last, one run, two clients, one worker and at most `MaxSignals` = 2 queued
answers, enough for an answer that its predecessor made obsolete.  Its view of a state
(`Relevant`) leaves out the run as read by a client that only has its workflow left to
call on, and `overtaken`: no action or property of the run looks at either.
`template_review` has two definitions (the one a template is created with, and one
more), an admin and a super admin, who may both submit and of whom one may review, two
contents of rules, one question, a rule set that can be asked for from the first to the
other (`Askable`; with such a set states are followed while there is room for a review,
`AskedForInTime`), two requests in flight and at most `MaxReviews` = 3 entries in the
histories together: a submission and two verdicts, or one verdict and a resubmission;
what comes after is up to the proofs.  `template_four_eyes` has one definition with a
locked question, and a fourth entry: the approval of a resubmission.

`rules_and_search` has every version of up to two questions out of a pool of eight (and
one of three), the answers these can have, forms with keys left out and with a key that
is no question's, up to three rules, up to three filters, and every page of up to three
of four rows: each operation, type change and kind of filter occurs, and a rule, a
filter or a page has one before and one after it. `transform_migration` has three
versions, of which two ask a required question, so that answers can be missing or wrong;
two rule sets, one published already, so that it can be applied while the other is
written; one submission with two forms; two requests. A bulk run over several
submissions goes on after one of them as it does for one, so one submission and two
requests show what interferes.  `access` has one tenant with its realm, two signing keys
(the one withdrawn and its successor), one PUT, two moves of the realm (away and back),
times to live of one or two ticks and a clock of `MaxTime` = 2, and two requests: one
that is slow and one that overtakes it. `platform` has one key that two tenants can have
one after the other, one bootstrap user, one crash, a baseline with two definitions and
a tenant definition copied from it with one of two contents of its own rules, two
products over one template, and two requests; a `PATCH` of a baseline's header writes
one column.  A baseline that is neither active nor unlocked is not followed
(`BaselineInUse`): nothing can be done with it but to unlock it again; nor are the
questions of a baseline once a tenant has a definition, as rules do not look at them
(`QuestionsAside`).  In these two runs one part moves at a time, the others being as
they began: the parts share nothing but the request slots and the clock, and a step of
one is no step of another.

Sessions and clients are symmetric: the code does not tell them apart, nor tenants,
products and templates.  Temporal's liveness runs use no symmetry.

*What they show.*  On submissions, `StatusIsLastLogged`, `AuditTrailSound` and
`FourEyes` hold in every interleaving.
`OnlyRacesLeaveTheTable`, `ContentFrozenUnlessRaced` and `TrailKeptUnlessRaced` say
precisely when the rest fails: only if the commit is by a request whose status had
been overtaken.  `ImplementsLifecycle` is the refinement.

On runs worked on directly, `SummaryAgrees` and `OverIsOver` hold in every
interleaving, of all runs but those their own start read back as over (`overtaken`):
the second thanks to column-wise commits, as `FlushWholeRow` in their place would revive
a run.  `DecisionsFollow`,
`DependenciesEnded`, `OneActiveRun` and `ResultsFinal` hold while nobody goes by an
outdated view.  They do need that: two wrong codes at once count as one, two
starts at once make two active runs, and a run committed without its steps yet
is decided by the fallback.

With Temporal more of it holds unconditionally: only workers change steps, and
one attempt is under way at a time, so `AnswersAreCounted` (no answer that was applied
is forgotten, and none counts twice but for a lost result), the first part of
`ResultsStay`, and `DecidedOnTheTables` hold whatever the requests do.
`ClosedIsOver` relates the workflow to the tables.  The second part of
`ResultsStay` is qualified, as a repeated advance activity does not ask whether the
run is over: on one decided before its steps were there it would decide again.

On templates, `ReviewStatusIsLogged`, `ActiveIsPublished` (but for the version a
template is created with, which the code makes active as a draft) and
`RulesLinkPublished` hold in every interleaving: every rule set has both its ends, and one
that a publication generated joins published versions, drafts being joined on request only;
`PublishedFrozenUnlessRaced` and `ConfigReviewedUnlessRaced` hold of requests whose
view is up to date.  `ApprovalsTakeTwo` does not hold (section 7), and
`FourEyesUnlessRaced` says what is left of it: whoever approves a definition that shows
its submitter is not the only one who submitted it, in every interleaving, and only a
submission that raced leaves a definition under review without its submitter.

On rules and answers, `AnswersCarriedOver` says what the suggested rules are for, where
they are suggested at all: every answer comes through under its new name, and as the day
it means where a question has come to ask for a date, as long as the hints of the target
name each question once.  `RequiredFailureBlocksUnlessEnded` says when a migration is
refused: if a required rule fails, but for those after a required one that does not fail
and ends the loop, as something before it did (section 7).  `FormsLikeAnswers` relates
the two validators and says where they part. `CatalogueIsOrderFree` and `PagesJoin` hold
of all catalogues and requests; the second includes that a maker sees only their own.

On migrations, each property names the race that breaks it.  A published set has only
rules that were tried (`PublishedRulesTriedUnlessRaced`), unless a rule was edited by a
request that had read the set as a draft.  A submission moves with its answers or not at
all, bulk runs that break off included (`MigrationsWholeUnlessRaced`), unless two
migrations work on it.  A form handed in with validation fits its version
(`HandedInFormsFitUnlessRaced`), and the verdict on it and the decision of a
verification, which share a column, keep each other (`VerdictsLostUnlessRaced`: a
validated submission replaces what there was).

In a worker, `ReplacedWithinTTL` bounds by one time to live how long a replaced policy
decides requests: the time counts from the beginning of the look-up, so a slow load
does not stretch it.  `RolesStayApart` combines three policies cached at different
times with what validation accepted one by one.  `KeysOutlivedByTTL` and
`RealmsFoundSoon` are the same question for signing keys, where waiting requests share
a fetch, and for realms that were missing.

On the platform, `NoTenantHalfway` says what it takes to leave an active tenant without
its schema or realm: the process ends meanwhile, or a step fails and the compensation
fails too, or somebody activates it by hand, or an earlier tenant of its key is still
being undone.  `PublishedRulesStay` shows what
changes the rules of a published tenant definition: an edit of it or of the baseline
definition it was copied from, begun while that was a draft, or the deletion of the latter.
`ActiveHasTemplateUnlessRaced` shows that the checks of products suffice but for
deleted templates and outdated views.

Deadlock is not checked: a tenant nobody sends requests to is at rest, the bounds stop
the rest, and in `rules_and_search` an input is chosen once.

## 5. Fairness

Only `FairSpec` of `VerificationWorkflow` assumes any.  The Temporal server
delivers what it has (`WF` on `Wake`), retries an activity without limit (no
activity of this code has a retry policy of its own, and the default has no
maximum), and some worker is up: an attempt that can be made is (`WF` on
`Attempt`).  An attempt may crash and a result may get lost, but not every time:
`SF` on the steps of an attempt, `Applied` and `Advanced`.  Nothing is assumed of
clients.  The submission service has no liveness of its own: it acts on requests
only.

## 6. The proofs

Every invariant and action property of the passing runs is a theorem, for every value of
the constants, and so is the refinement; the one property left to TLC is the liveness of
`verification_settles`.  The bounds of the guards (`MaxHistory`, `MaxRuns`,
`MaxReviews`, `MaxSignals`, `MaxTime`, ...) are constants like the others.  The runs
`platform` and `access` let one part move at a time; their theorems are of the whole
specifications.

*The shape.*  In the modules with requests no property is inductive alone, as a commit
writes what was read and checked long before.  The inductive invariant of each module
(`IInv`; `WInv` of the workflow) therefore also says of every request in flight what it
has read, what still holds of that, and what it means to write; `Invariance`
(`WorkflowInvariance`) proves it, one lemma per action.  The invariants follow from it,
the action properties step by step.

| Module | Theorems |
|---|---|
| `SubmissionWorkflowProofs` | `TypeCorrect`, `TrailAgrees`, `TrailSound`, `FourEyesHolds`, `ReviewerHolds`, `RacesOnly`, `ContentIsFrozen`, `TrailIsKept`, `WorkflowImplementsLifecycle` |
| `TemplateReviewProofs` | `TypeCorrect`, `StatusIsLogged`, `ActiveVersionIsPublished`, `RulesLinkThePublished`, `PublishedIsKept`, `ConfigIsReviewed`, `FourEyesHold` |
| `VerificationRuntimeProofs` | `TypeCorrect`, `SummaryIsRight`, `RunsDecidedByRules`, `StepsInOrder`, `NewestIsActive`, `NeverActiveAgain`, `ResultsAreFinal`, `PassFacts` |
| `VerificationWorkflowProofs` | `OneWorkerSuffices`, `ClosedMeansOver`, `NoAnswerLost`, `DecidedAsTheyAre`, `ResultsDoStay` |
| `TransformMigrationProofs` | `TypeCorrect`, `PublishedRulesAreTried`, `MigrationsAreWhole`, `HandedInFormsFit`, `VerdictsAreKept` |
| `AccessProofs` | `TypeCorrect`, `PoliciesAreReplaced`, `RolesAreApart`, `MergeFacts`, `RealmsAreFound`, `KeysAreOutlived` |
| `PlatformProofs` | `TypeCorrect`, `NobodyHalfway`, `RulesStay`, `ActiveProductsHaveTemplates` |
| `RulesAndSearchProofs` | `InputAlways`, `Refusal`, `Forms`, `Catalogued`, `Paged`, `Carried` |

**Submissions.**  A request's `base` has a status its submission has had, if it still
exists (`Current`); `created_by` of the row is the one it read, so that what the four-eyes
check saw holds at the commit; and `mine` differs from `base` as the handler and its checks
allow (`Faithful`).  `ReviewerHolds` is an invariant that no run repeats: a verdict has a
reviewer, and a named reviewer gave one.

**Templates.**  Definitions move `Onwards` only: from nothing to a row to `Deleted`, from
draft to published, from one entry of the history to the next.  What a handler checked and
cannot be undone still holds at its commit (`Current`); what can be undone is decided by
the columns in which its copy differs from what it read (`Faithful`).  `Rooted` and
`SubmittersAreLogged` strengthen the invariants: a definition is part of a template, and
the submitter it shows is in its history.

**Runs, directly.**  A request past the refresh of its run goes by a row of an active run
without a decision, unless it read the run back as over (`RequestSound`), so a commit to a
run that was not `overtaken` leaves status, `is_active` and decision as they are or ends the
run, summary included (`RunMoves`): that carries the two properties that hold whatever
happens.  A run is overtaken only by a request that acted on a run without steps
(`disturbed`).  The others hold of requests that go by what the tables say
(`RunCalm`).  `Pass` is a recursive function; what it does for any number of steps
(`PassFacts`) is shown by looking at the least number of turns for which it would not
hold, which needs no induction theorem with an operator as parameter.  Flows are
arbitrary, those with cycles and unknown dependencies included.

**Runs, with Temporal.**  An attempt holds the steps of its run as the tables have them,
or came before there were any (`WorkerSound`), since clients only insert, initialize and
defer, and the one workflow of a run waits for its one attempt (`FlowsSound`).  These
theorems have a hypothesis, `[]OneAttempt`: attempts at one run do not overlap.  What an
attempt at an answer adds to `attempt_count` is therefore one, and `due` follows when
the workflow hears of it or its result is lost.  Temporal only gives an attempt up after
its timeout, but does not stop it; if it goes on next to its successor, attempts need
not agree with answers any more.  One worker, as in the runs, is enough for the
hypothesis (`OneWorkerSuffices`), and so are any number whose attempts end in time.

**Migrations.**  A handler that writes a submission edits, hands in or adds a decision to a
row that it read (`WriteSound`); a migration has read drafts (`ApplySound`), and a
publication has tried the rules it read (`AdminSound`).  Two facts about the tables
strengthen this: no draft has a verdict (`NoVerdictYet`), and what was read as submitted
stays submitted (`StaysIn`), since whoever could take it back writes the status only where
it differs from the one read.

**A worker's caches.**  What is remembered, or held by a request on its way, was so when it
was asked for or later: `PublishedSince` of keys, `Known` of policies, `MissingSince` of
realms.  Each relates what is held, a time and the world, and no rotation, PUT or move
undoes it; how old it can be when used then follows from the times.  `RolesAreApart`
rests on `MergeFacts`, again by a least counterexample, here over a fold.

**The platform.**  Three invariants, one per part, and `Only`: a step of one part begins,
continues and ends requests of that part and leaves the others as they are.  Of tenants,
whatever an active one lacks somebody is about to make, or to take the tenant away
(`Mended`), unless it is blamed; for that a creation must know its tenant under its key
(`Known`), have left it inactive or blamed if it gave up (`Undone`), and have made a realm
with its client before it saves that there is one (`SetUp`).  Of baselines, the foreign keys
lead to rows that live, and an id is taken by one request.  Of products, the foreign key to
templates.

**Rules, validators and search.**  A step only picks an input, so the inductive invariant
says no more than what an input can be (`InputSound`); the theorems are about what the
operators compute from it, for versions, answers, rules, filters and rows of any number.
Each loop of the code is a fold, and of each there is a fact about its first `n` rounds,
shown by looking at the least `n` for which it would not hold; that there is a function
of that recursion at all is shown in the same way (`RunningExists`, `FlatteningExists`,
`CataloguingExists`, `RenamingExists`).

* `Refusal`: after `m` rules the errors are those of the rules that fail by themselves, up
  to the first one that ends the loop (`RunSoFar`).
* `Forms`: where no key is used twice every question stands for its key (`NoKeyTwice`), and
  a question is as visible by all the texts as by those of questions (`SameVisibility`).
* `Catalogued`: after `m` filters a key has the operators of all filters with that key up
  to there, or is ambiguous as two of them differ (`CatalogueSoFar`).
* `Paged`: `Arranged` takes every place once, in the order given (`ArrangedFacts`, by
  counting what comes before a place), so neither sorting nor picking repeats a row; one page
  more takes what is read so far to its end (`OnePageMore`), so all pages join to the whole
  (`PagesFlatten`).
* `Carried`: where rules are suggested no key that keeps its name and type is shared, so
  what is shared becomes another type (`SharedRule`); sane hints make `RenamedFrom` one to one (`HintsRename`); so the rules
  suggested (`GeneratedFacts`) write to different targets (`TargetsApart`), each leaves its
  value under its own (`RunAfter`), and every key of the target has one (`KeyCarried`),
  whose value is the converted answer (`SharedValue`, `RenameValue`, `DefaultValue`).

*Assumptions.*  Each module names those on its constants.  They give constants their
types, say that the markers (`None`, `Deleted`) are no rows, runs, realms or requests,
and otherwise what the code sees to itself: times to live and fetch timeouts are
numbers, and keys, policies and missing realms are kept for some time, if short
(`KeysOK`, `PoliciesOK`, `RealmsOK`); there is an address of Keycloak and the client a
login starts with is among those of its realm (`RealmsOK`); keys of issuers, and names
of tenants, are told apart (`KeysOK`, `PoliciesOK`); the rules published at first are
rules (`ConstantsOK` of `TransformMigration`); bootstrap users have the roles
`_load_bootstrap_users` allows, and provisioning counts as required only when it is
enabled (`TenantsOK`).  For the rules and the search (`InputsOK`) a question has a key
and a known type, a row a creation time, no row is there twice, and a request asks for
at least one row.  TLC evaluates all of them.

*Only model-checked.*  Liveness (`WorkflowSettlesUnlessRefused`), which TLAPS does not
reach.  The properties that TLC refutes (section 7) have no proof.

*What the search theorem rests on.*  In the model the database returns the rows of one
moment in one order.  PostgreSQL does not promise this for rows created at the same time,
as `search_submissions` orders by the creation time alone: for such rows, and if rows are
added between two pages, the pages need not join.

## 7. Findings

Each is the one property of a run that TLC refutes; `PROJECT.json` quotes the line of
the repository it contradicts.

* `verification_stuck`: an answer without a code, or to a step that has been answered,
  fails in its activity for ever, and the workflow behind it neither waits nor decides.
* `template_four_eyes`: a resubmission that overlaps an edit leaves `submitted_by` empty,
  as the edit resets it and the resubmission, which read the name it writes, does not
  write it.  Its user approves it, though a "submitter cannot approve their own
  definition": the check needs a name to compare with.
* `session_pool`: after a commit, the next statement of a request runs on the
  connection at the head of the pool's queue, with the `search_path` that one was left
  with: public, or the schema of another tenant.  Every service refreshes its row after
  its commit, and a verification pass, a bulk migration and a start commit several
  times.  All other modules assume that requests stay in the schema of their tenant.

### Seen while modelling

Disagreements that the qualified properties already show, or that need no model:

* Two transitions that read the same status both commit, and the second takes a
  submission out of a status the table marks "Terminal state"
  (`submissions/service.py:804`); `OnlyRacesLeaveTheTable` names the race.
* A migration commits to a submission that was handed in after the migration's check
  (`transforms/executor.py:301`), although `docs/stories/answer-transform-rules.md:42`
  has only drafts and returned ones eligible; `ContentFrozenUnlessRaced` names it.
* A submission "Returned to user for corrections" can be neither updated nor submitted
  by its maker: both ask for DRAFT (`submissions/service.py:745`), and the transition is
  behind a permission makers lack.
* Questions are added and deleted while a review is pending, and after the approval
  without voiding it (`tenant_templates/service.py:866`), although such a definition
  "cannot be modified" (`:298`).  A question added by a request that read a draft lands
  in a definition published meanwhile.
* A start commits its run and then reads it back (`verifications/service.py:128-129`).  If
  another request has taken the run on meanwhile, without steps, and decided it, the start
  reads a run that is over, goes on, and its `_finalize_run` makes it active again
  (`:629-632`); `OverIsOver` and `SummaryAgrees` name the case.
* An answer whose result does not get back to Temporal is applied again and counted again;
  `AnswersAreCounted` says how often.
* In direct mode a start that crashes between run and steps, or that another start
  overtakes there, leads to a run decided without steps; a deferred start of a run that
  is over puts its `status` back to pending while it stays inactive; two wrong codes at
  once count as one.
* Deleting a group copied from the baseline deletes the locked questions in it
  (`tenant_templates/service.py:891`), which "cannot be edited or deleted by tenants"
  (`src/README.md:67`): the group itself is editable.
* Publishing the version a template was created with asks for a rule set from it to
  itself, as it is the active one already.
* `generate_rule_set` compares the options of questions it loaded without them
  (`transforms/diff_service.py:48-56`, `:168-169`), which an `AsyncSession` refuses.  It
  fails for any two versions that share a key of the same type that is not renamed: on the
  route with a 500, after a publication silently.  `docs/stories/answer-transform-rules.md:317-328`
  has the publication suggest identity rules for just these.  `OptionsLookedAt` says when.
* A rule set that was asked for before makes the generation after the publication fail,
  silently; the set that was there may have been made from the draft.
* An edit of a tenant definition that read a draft changes the rules it is run by after its
  publication (`tenant_templates/service.py:622`); `PublishedRulesStay` names it.
* No code but the executor writes `submission_answers`, and `form_data` is not migrated:
  the answers before a first migration are empty, and the rules copy nothing over.
* A required rule ends the run of the rules if any rule up to it failed, even if it
  did not fail itself (`executor.py:326`).  The rules after it, required ones that would
  fail included, are then not run, and the submission migrates without their answers;
  `docs/stories/answer-transform-rules.md:52-54` has optional failures collected as
  warnings and required ones block, and so has AC8 (`:374-378`).
  `RequiredFailureBlocksUnlessEnded` says what the code does.
* `bulk_migrate` counts a submission that was migrated with a failing optional rule as
  failed.  `apply_rule_set` never compares the version of a submission with the source of
  the rules when it is called for one.
* Two hints of a target version that name the same question, or a key that is still
  there, leave a question without a rule (`HintsSane` is what the rest needs).
* `validate_form_data` and `validate_answers` differ where a key is used twice or a
  question depends on a key that is no question.
* `authz_policies` has no unique constraint: two first PUTs at once insert two rows, and
  which of them counts is up to the database.  A policy that grants "*" passes the
  validation of maker and checker.
* `/me` resolves the tenant of a token by id, routes by key or realm.
* A token signed with a newly rotated-in key is refused until the cached keys of its
  issuer expire, 24 hours by default: a missing key is no reason to fetch
  (`core/auth.py:238`).  A registry that answers slower than half a second makes login
  use the default client.
* The initial definition of a baseline is active while a draft and tenants copy it,
  although the docstring says "active published"; the merged rules of a published tenant
  definition follow its edits, and go with the baseline.  `baseline_templates.publish`
  is in no default role.
* `README.md:318` has a product activated with a *published* template; the code asks
  for one with an active version, which may be a draft.
* A hard-deleted tenant leaves its realm: its users are in the realm of the next tenant
  of that key.  A tenant deleted while it is still being created, and created again,
  loses schema and realm to the compensation of the first creation.
* The refresh after the registry row's commit (`tenants/tenant.py:85`) is outside the
  `try`: a failure there leaves an active tenant without a schema.  When making the
  schema fails, the row is deleted but never made inactive before, so one more failure
  leaves it active.
* Maker and checker exclude each other in one request for a user, not in two, and not
  for bootstrap users.
* Schema names are cut to 63 characters (`db/migrations.py:55`): keys that agree in
  their first 56 share a schema.  A deployment stops at the first tenant that fails, and
  makes the schemas that are missing.
* A request holds the connection its permissions were read on while it asks the pool for
  another.

## 8. Abstractions, and what is not modelled

In the modules that exist:

| Left out | Why it does not matter to the properties |
|---|---|
| Timestamps, `updated_*`, `review_notes`, comments | no check reads them |
| `validation_results`, in `SubmissionWorkflow` | not a guard: submitting with `validate=False`, or by a transition, passes it by.  `TransformMigration` has it |
| Stored policies, in `SubmissionWorkflow` | the default role permissions stand for them; `PolicyCache` has them |
| The answers, in `SubmissionWorkflow` | contents are two values, as only change matters; `TransformMigration` transforms them |
| `flow_key`, journeys, snapshots of a flow | a run belongs to one flow from the start |
| Several reads at the start of a request | one `Begin` reads them all; the rows it checks are single rows, and what is loaded later (`ListSteps`) is an action of its own |
| What challenges send and comparisons compare | `Challengeable`, `Compared`: any function of the steps that passed |
| Two attempts at an activity by different workers at once | the Temporal runs have one worker; the module allows any number, and the theorems hold while attempts at one run do not overlap |
| Falling back to the direct way while a workflow of the run is open | not composed with it |
| That unique keys of a definition are unique, in `TemplateReview` | a publication that finds two alike is refused and changes nothing; `AnswerValidation` has repeated keys |
| Permissions on templates | the routes ask for them, the handlers check nothing more about the user, but for reviews |
| Rows that refer to definitions from outside (submissions, logs) | they can make a deletion fail, which `GiveUp` covers |
| The order of history rows | commit order; the code sorts by a timestamp set a moment earlier |
| The letters of texts, dates and patterns | a text is a sequence of pieces; `Dates`, `DateFormats`, `Matches` say which texts are dates and match |
| The evaluator of compute expressions | `Computed`: which expressions give what for which texts, and fail for the others |
| Dry runs, previews and the logs of a migration | they write nothing but rows that nothing reads |
| What a rule set and a rule are called, their order numbers | rules are applied in their order |
| How a realm's clients, mappers and roles are set up | there or not there: each `ensure_` operation is repeated as a whole |
| Signatures, audiences and expiry of tokens | a token is taken if its key is among the keys looked at |
| How long a fetch of keys takes | `FetchTimeout` bounds it as a whole; the timeout of `urlopen` is one per socket operation (`core/auth.py:151`), so a server that trickles takes longer |
| The deletion of tenant definitions, in `Baselines` | what is deleted has no rules to keep; `TemplateReview` deletes them |
| Mutual waiting for connections | the pool's size and timeout are settings; `SessionPool` never refuses a connection |

Components, or parts of them, not modelled:

| Component | Reason |
|---|---|
| `services/user_management/client.py` | passes requests on to another service and keeps nothing |
| Comments, lists and other reads of submissions, templates, products | change nothing, or rows that nothing reads |
| Onboarding placeholder | its activities do nothing |
| Errors, configuration, schemas, migrations (but for schema creation) | wording, settings, shapes and DDL |

## 9. The plan

Built, in this order: the submission workflow with its abstract lifecycle and its
proofs, the verification engine, the direct runtime, the Temporal workflow, the
review of templates; answer validation, transform rules and search; the migration of
submissions; the caches of a worker; tenants, baselines and products; the pool.

Then the proofs: of the submission workflow with the first modules, of the others
afterwards, in the order of section 6, the rules, validators and search last.

Left, in the order of what can go wrong:

1. Compositions: `TransformMigration` with the audit trail of `SubmissionWorkflow`, and
   the fallback to the direct way while a workflow is open.
2. Flows with a cycle or an unknown dependency as instances of `VerificationRuntime`: the
   theorems hold of them, but no run shows how such a run goes on for ever.
3. What overlapping attempts at one activity do to the Temporal way (`OneAttempt`).

Abstract specifications worth stating next: a review as a dialogue of two people
(for `TemplateReview`), a cache that lags by at most one time to live (for
`PolicyCache` and `TokenKeys`), a tenant that exists entirely or not at all.
