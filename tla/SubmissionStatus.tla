--------------------------- MODULE SubmissionStatus ---------------------------
(***************************************************************************)
(* The life of a submission as data: its statuses and the transition table *)
(* (VALID_TRANSITIONS, app/services/submissions/service.py), the statuses  *)
(* the four-eyes rule guards and the ones that carry a verdict.            *)
(***************************************************************************)
Statuses == {"draft", "submitted", "under_review", "approved", "rejected",
             "returned", "completed", "cancelled"}

ValidTransitions ==
    [draft        |-> {"submitted", "cancelled"},
     submitted    |-> {"under_review", "approved", "rejected", "returned",
                       "cancelled"},
     under_review |-> {"approved", "rejected", "returned"},
     returned     |-> {"submitted", "cancelled"},
     approved     |-> {"completed"},
     rejected     |-> {"completed"},
     completed    |-> {},
     cancelled    |-> {}]

Terminal == {s \in Statuses : ValidTransitions[s] = {}}

\* Statuses only a second pair of eyes may set, and those that carry a verdict.
ReviewStatuses == {"under_review", "approved", "rejected", "returned"}
Verdicts == {"approved", "rejected", "returned"}
=============================================================================
