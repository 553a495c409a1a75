-------------------------- MODULE SubmissionLifecycle --------------------------
(***************************************************************************)
(* What the submission service promises its callers, concurrency included: *)
(* a submission has a status and an audit trail of who moved it where.     *)
(*                                                                         *)
(* A transition starts from a status the submission has had, not           *)
(* necessarily from the one it has: handlers check the row they read, and  *)
(* it may have moved on.  What does survive every interleaving is stated   *)
(* here: the status is the one logged last, every logged move is in the    *)
(* table, and nobody but a super admin reviews what they created.          *)
(***************************************************************************)
EXTENDS Naturals, Sequences, SubmissionStatus

CONSTANTS Users, SuperAdmins, SubmissionIds, None, Deleted

VARIABLES
    status,     \* SubmissionIds -> status, None (not created) or Deleted
    trail       \* SubmissionIds -> audit trail, oldest entry first

lifecycleVars == <<status, trail>>

Init ==
    /\ status = [s \in SubmissionIds |-> None]
    /\ trail = [s \in SubmissionIds |-> <<>>]

Maker(s) == trail[s][1].by
Logged(s) == {trail[s][i].to : i \in 1..Len(trail[s])}

Create(s, u) ==
    /\ status[s] = None
    /\ status' = [status EXCEPT ![s] = "draft"]
    /\ trail' = [trail EXCEPT ![s] = <<[from |-> None, to |-> "draft", by |-> u]>>]

\* from is any status logged so far, to one that ValidTransitions lists for it.
Transition(s, u, from, to) ==
    /\ status[s] \notin {None, Deleted}
    /\ to \in ReviewStatuses => u \in SuperAdmins \/ u # Maker(s)
    /\ status' = [status EXCEPT ![s] = to]
    /\ trail' = [trail EXCEPT ![s] =
                   Append(@, [from |-> from, to |-> to, by |-> u])]

Remove(s) ==
    /\ status[s] \notin {None, Deleted}
    /\ status' = [status EXCEPT ![s] = Deleted]
    /\ trail' = [trail EXCEPT ![s] = <<>>]

Next ==
    \E s \in SubmissionIds :
        \/ \E u \in Users : Create(s, u)
        \/ \E u \in Users, from \in Logged(s) :
             \E to \in ValidTransitions[from] : Transition(s, u, from, to)
        \/ Remove(s)

Spec == Init /\ [][Next]_lifecycleVars
=============================================================================
