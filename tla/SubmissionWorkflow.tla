------------------------- MODULE SubmissionWorkflow -------------------------
(***************************************************************************)
(* Submissions of one tenant schema and the requests that work on them     *)
(* (app/services/submissions/service.py), with the writer from outside the *)
(* workflow: the transform executor, which moves a submission to another   *)
(* template version (app/services/transforms/executor.py).                 *)
(*                                                                         *)
(* A handler reads the submission, checks it, changes its own copy and     *)
(* commits; other requests run at every await in between.  A handler is    *)
(* therefore two actions: XBegin, the read together with every check made  *)
(* on what was read (a failing check answers 4xx and changes nothing), and *)
(* a commit, which writes the changed columns.  Rollback is the request    *)
(* that never commits: the process or its connection died, or the row it   *)
(* would write is gone (StaleDataError, foreign key violation).            *)
(***************************************************************************)
EXTENDS Naturals, Sequences, SubmissionStatus, UnitOfWork

CONSTANTS
    Users,
    Roles,          \* [Users -> SUBSET RoleNames], the realm roles of a token
    SuperAdmins,    \* users holding a platform-realm super_admin token
    SubmissionIds,
    Versions,       \* template definitions a submission can be pinned to
    ActiveVersions, \* the ones new submissions get: active in some template
    Forms,          \* contents of form_data
    RuleSets,       \* published rule sets, [source, target] pairs of versions
    Sessions,       \* requests that may be in flight at once
    MaxHistory,     \* bound: no transition once a history is this long
    None,           \* no row yet, or no request in flight
    Deleted         \* the row has been deleted

VARIABLES
    submissions,    \* SubmissionIds -> row of table submissions, None or Deleted
    history,        \* SubmissionIds -> submission_status_history, in commit order
    request         \* Sessions -> the request in flight, or None

vars == <<submissions, history, request>>

-----------------------------------------------------------------------------
(* Roles and rows.                                                         *)

RoleNames == {"maker", "checker", "platform_admin", "tenant_admin"}
ElevatedRoles == {"checker", "platform_admin", "tenant_admin"}

\* DEFAULT_ROLE_PERMISSIONS, restricted to the permissions the routes of this
\* module ask for.
RolePermissions ==
    [maker          |-> {"submissions.create", "submissions.update",
                         "submissions.delete", "submissions.submit"},
     checker        |-> {"submissions.transition"},
     platform_admin |-> {"templates.publish"},
     tenant_admin   |-> {"templates.publish"}]

Row == [status : Statuses, created_by : Users, template_version_id : Versions,
        form_data : Forms, reviewed_by : Users \cup {None}]

Entry == [from : Statuses \cup {None}, to : Statuses, by : Users]

\* base is the submission as read, mine as the handler changed it.
Operations == {"update", "migrate", "transition", "delete"}
Request == [op : Operations, sid : SubmissionIds, user : Users,
            base : Row, mine : Row]

ASSUME ConstantsOK ==
    /\ Roles \in [Users -> SUBSET RoleNames]
    /\ SuperAdmins \subseteq Users
    /\ ActiveVersions \subseteq Versions
    /\ RuleSets \subseteq [source : Versions, target : Versions]
    /\ MaxHistory \in Nat
    /\ None \notin Statuses \cup Users /\ Deleted \notin Statuses
    /\ None \notin Row /\ Deleted \notin Row /\ None # Deleted
    /\ None \notin Request

Live(s) == submissions[s] \notin {None, Deleted}

TypeOK ==
    /\ submissions \in [SubmissionIds -> Row \cup {None, Deleted}]
    /\ history \in [SubmissionIds -> Seq(Entry)]
    /\ request \in [Sessions -> Request \cup {None}]

Init ==
    /\ submissions = [s \in SubmissionIds |-> None]
    /\ history = [s \in SubmissionIds |-> <<>>]
    /\ request = [c \in Sessions |-> None]

-----------------------------------------------------------------------------
(* Who may do what.                                                        *)

HasPermission(u, permission) ==
    \/ u \in SuperAdmins
    \/ \E r \in Roles[u] : permission \in RolePermissions[r]

\* _is_maker_only and _enforce_maker_ownership.
IsMakerOnly(u) == "maker" \in Roles[u] /\ Roles[u] \cap ElevatedRoles = {}
MayAccess(u, row) ==
    u \in SuperAdmins \/ ~IsMakerOnly(u) \/ row.created_by = u

\* The four-eyes check of transition_status; the first form forgets that a
\* checker may be the submission's maker as well.
PassesFourEyes_RoleOnly(u, row, to) ==
    u \in SuperAdmins \/ to \notin ReviewStatuses \/ "checker" \in Roles[u]
PassesFourEyes(u, row, to) ==
    u \in SuperAdmins \/ row.created_by # u \/ to \notin ReviewStatuses

-----------------------------------------------------------------------------
(* Requests.                                                               *)

Idle(c) == request[c] = None

\* A session loads submission s for user u and holds the changed copy mine.
Open(c, op, u, s, mine) ==
    /\ request' = [request EXCEPT ![c] =
                     [op |-> op, sid |-> s, user |-> u,
                      base |-> submissions[s], mine |-> mine]]
    /\ UNCHANGED <<submissions, history>>

Close(c) == request' = [request EXCEPT ![c] = None]

\* create_submission: v is the template's active version.  Nothing it writes
\* existed before, so its one commit is the whole operation.
CreateSubmission(u, s, v, f) ==
    /\ submissions[s] = None
    /\ HasPermission(u, "submissions.create")
    /\ submissions' = [submissions EXCEPT ![s] =
         [status |-> "draft", created_by |-> u, template_version_id |-> v,
          form_data |-> f, reviewed_by |-> None]]
    /\ history' = [history EXCEPT ![s] =
         <<[from |-> None, to |-> "draft", by |-> u]>>]
    /\ UNCHANGED request

\* May update_submission write a row in this status?
Updatable_Open(status) == status \notin Terminal
Updatable(status) == status = "draft"

UpdateBegin(c, u, s, f) ==
    /\ Idle(c) /\ Live(s)
    /\ HasPermission(u, "submissions.update")
    /\ MayAccess(u, submissions[s])
    /\ Updatable(submissions[s].status)
    /\ Open(c, "update", u, s, [submissions[s] EXCEPT !.form_data = f])

\* May delete_submission remove a row in this status?
Deletable_AnyFinal(status) == status = "draft" \/ status \in Terminal
Deletable(status) == status \in {"draft", "cancelled"}

DeleteBegin(c, u, s) ==
    /\ Idle(c) /\ Live(s)
    /\ HasPermission(u, "submissions.delete")
    /\ MayAccess(u, submissions[s])
    /\ Deletable(submissions[s].status)
    /\ Open(c, "delete", u, s, submissions[s])

\* The columns transition_status sets.
Transitioned(row, u, to) ==
    [row EXCEPT !.status = to,
                !.reviewed_by = IF to \in Verdicts THEN u ELSE @]

\* The table lookup of transition_status, and one that lets every status be
\* cancelled.
NextStatuses_CancelAnytime(status) == ValidTransitions[status] \cup {"cancelled"}
NextStatuses(status) == ValidTransitions[status]

TransitionBegin(c, u, s, to) ==
    /\ Idle(c) /\ Live(s)
    /\ Len(history[s]) < MaxHistory
    /\ HasPermission(u, "submissions.transition")
    /\ MayAccess(u, submissions[s])
    /\ PassesFourEyes(u, submissions[s], to)
    /\ to \in NextStatuses(submissions[s].status)
    /\ Open(c, "transition", u, s, Transitioned(submissions[s], u, to))

\* submit_submission, which ends in transition_status on the same object.  The
\* verdict of validate_form_data is no guard: the caller may skip it with
\* validate=False, and validation_results is not a column of this model.
SubmitBegin(c, u, s) ==
    /\ Idle(c) /\ Live(s)
    /\ Len(history[s]) < MaxHistory
    /\ HasPermission(u, "submissions.submit")
    /\ MayAccess(u, submissions[s])
    /\ submissions[s].status = "draft"
    /\ Open(c, "transition", u, s, Transitioned(submissions[s], u, "submitted"))

\* Statuses apply_rule_set accepts outside a preview.
Migratable(status) == status \in {"draft", "returned"}

\* apply_rule_set on a submission whose answers transform and validate.  The
\* submission's own version is not compared with the rule set's source.
MigrateBegin(c, u, s, ruleSet) ==
    /\ Idle(c) /\ Live(s)
    /\ HasPermission(u, "templates.publish")
    /\ Migratable(submissions[s].status)
    /\ Open(c, "migrate", u, s,
            [submissions[s] EXCEPT !.template_version_id = ruleSet.target])

-----------------------------------------------------------------------------
(* Commits.                                                                *)

Written(c) ==
    LET r == request[c] IN
    [submissions EXCEPT ![r.sid] = Flush(@, r.base, r.mine)]

\* update_submission and apply_rule_set: columns only.
CommitContent(c) ==
    /\ ~Idle(c)
    /\ request[c].op \in {"update", "migrate"}
    /\ Live(request[c].sid)
    /\ submissions' = Written(c)
    /\ Close(c)
    /\ UNCHANGED history

\* transition_status: the columns and the history entry, in one transaction.
\* The first form notes from_status after the assignment.
CommitTransition_LateFrom(c) ==
    LET r == request[c] IN
    /\ ~Idle(c)
    /\ r.op = "transition"
    /\ Live(r.sid)
    /\ Len(history[r.sid]) < MaxHistory
    /\ submissions' = Written(c)
    /\ history' = [history EXCEPT ![r.sid] =
         Append(@, [from |-> r.mine.status, to |-> r.mine.status, by |-> r.user])]
    /\ Close(c)
CommitTransition(c) ==
    LET r == request[c] IN
    /\ ~Idle(c)
    /\ r.op = "transition"
    /\ Live(r.sid)
    /\ Len(history[r.sid]) < MaxHistory
    /\ submissions' = Written(c)
    /\ history' = [history EXCEPT ![r.sid] =
         Append(@, [from |-> r.base.status, to |-> r.mine.status, by |-> r.user])]
    /\ Close(c)

\* delete_submission: the history goes with the row (the first form forgets
\* the cascade).  A row that is already gone is no error.
CommitDelete_LeavesTrail(c) ==
    /\ ~Idle(c)
    /\ request[c].op = "delete"
    /\ submissions' = [submissions EXCEPT ![request[c].sid] = Deleted]
    /\ Close(c)
    /\ UNCHANGED history
CommitDelete(c) ==
    LET r == request[c] IN
    /\ ~Idle(c)
    /\ r.op = "delete"
    /\ submissions' = [submissions EXCEPT ![r.sid] = Deleted]
    /\ history' = [history EXCEPT ![r.sid] = <<>>]
    /\ Close(c)

Rollback(c) ==
    /\ ~Idle(c)
    /\ Close(c)
    /\ UNCHANGED <<submissions, history>>

Next ==
    \/ \E u \in Users, s \in SubmissionIds, v \in ActiveVersions, f \in Forms :
         CreateSubmission(u, s, v, f)
    \/ \E c \in Sessions, u \in Users, s \in SubmissionIds :
         \/ \E f \in Forms : UpdateBegin(c, u, s, f)
         \/ DeleteBegin(c, u, s)
         \/ \E to \in Statuses \ {"draft"} : TransitionBegin(c, u, s, to)
         \/ SubmitBegin(c, u, s)
         \/ \E ruleSet \in RuleSets : MigrateBegin(c, u, s, ruleSet)
    \/ \E c \in Sessions :
         CommitContent(c) \/ CommitTransition(c) \/ CommitDelete(c) \/ Rollback(c)

Spec == Init /\ [][Next]_vars
-----------------------------------------------------------------------------
(* Properties.                                                             *)

Logged(s) == {history[s][i].to : i \in 1..Len(history[s])}

\* The requests that commit on submission s in this step.
Committing(s) == {c \in Sessions : /\ ~Idle(c)
                                   /\ request'[c] = None
                                   /\ request[c].sid = s}

\* A step on s made by a request that had read a status since overwritten.
Raced(s) == \E c \in Committing(s) :
                request[c].base.status # submissions[s].status

\* The status column and the audit trail never disagree: whatever requests
\* overlap, the row holds the status that was logged last, and the trail goes
\* with its row.  Relies on the ORM writing only the columns a handler changed.
StatusIsLastLogged ==
    \A s \in SubmissionIds :
        IF Live(s) THEN /\ history[s] # <<>>
                        /\ history[s][Len(history[s])].to = submissions[s].status
                   ELSE history[s] = <<>>

\* The trail starts with its maker's draft, and every later entry is a move of
\* the table out of a status the submission had had before.
AuditTrailSound ==
    \A s \in SubmissionIds : \A i \in 1..Len(history[s]) :
        LET entry == history[s][i] IN
        IF i = 1 THEN /\ entry.from = None
                      /\ entry.to = "draft"
                      /\ entry.by = submissions[s].created_by
                 ELSE /\ \E j \in 1..(i - 1) : history[s][j].to = entry.from
                      /\ entry.to \in ValidTransitions[entry.from]

\* Nobody but a super admin ever reviews a submission of their own, not even a
\* user who is maker and checker at once and races with other reviewers; the
\* reviewer the row names is no exception.
FourEyes ==
    \A s \in SubmissionIds : Live(s) =>
        LET maker == submissions[s].created_by IN
        maker \notin SuperAdmins =>
            /\ submissions[s].reviewed_by # maker
            /\ \A i \in 1..Len(history[s]) :
                 history[s][i].to \in ReviewStatuses => history[s][i].by # maker

\* A submission that has a verdict names a reviewer, and the reviewer a row
\* names did log a verdict on it.  (Not necessarily the last one: a column set
\* to the value it was read with is not written.)
ReviewerGaveAVerdict ==
    \A s \in SubmissionIds : Live(s) =>
        LET row == submissions[s]
            reviewers == {history[s][i].by : i \in
                            {j \in 1..Len(history[s]) : history[s][j].to \in Verdicts}}
        IN  /\ row.status \in Verdicts => row.reviewed_by # None
            /\ row.reviewed_by # None => row.reviewed_by \in reviewers

\* The status moves outside the table only when the request that moves it had
\* read a status another one has replaced since.
MovesInTable(s) ==
    (Live(s) /\ Live(s)' /\ submissions[s]'.status # submissions[s].status) =>
        \/ submissions[s]'.status \in ValidTransitions[submissions[s].status]
        \/ Raced(s)

OnlyRacesLeaveTheTable == [][\A s \in SubmissionIds : MovesInTable(s)]_vars

\* The form changes in draft only, the template version in draft and returned
\* only, unless the request lost a race with a transition.
ContentFrozen(s) ==
    (Live(s) /\ Live(s)' /\ ~Raced(s)) =>
        LET old == submissions[s] new == submissions[s]' IN
        /\ new.form_data # old.form_data => old.status = "draft"
        /\ new.template_version_id # old.template_version_id
              => old.status \in {"draft", "returned"}

ContentFrozenUnlessRaced == [][\A s \in SubmissionIds : ContentFrozen(s)]_vars

\* A submission, and its audit trail with it, disappears only as a draft or once
\* cancelled, unless the delete lost a race with a transition; and no other
\* request brings a deleted one back.
TrailKept(s) ==
    /\ (Live(s) /\ ~Live(s)' /\ ~Raced(s))
          => submissions[s].status \in {"draft", "cancelled"}
    /\ submissions[s] = Deleted => submissions[s]' = Deleted

TrailKeptUnlessRaced == [][\A s \in SubmissionIds : TrailKept(s)]_vars

\* The promise of SubmissionLifecycle, with the status column as the status and
\* the history table as the trail.
Lifecycle ==
    INSTANCE SubmissionLifecycle WITH
        status <- [s \in SubmissionIds |->
                     IF Live(s) THEN submissions[s].status ELSE submissions[s]],
        trail <- history

ImplementsLifecycle == Lifecycle!Spec
=============================================================================
