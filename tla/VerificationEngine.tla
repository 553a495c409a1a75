-------------------------- MODULE VerificationEngine --------------------------
(***************************************************************************)
(* The rules of a verification run, as functions of its rows: which step   *)
(* may start, what executing it yields, what a user's code does to it,     *)
(* what a pass over the steps changes and what the run is once no step can *)
(* move (app/services/verifications/service.py).                           *)
(*                                                                         *)
(* The data a flow works on is abstracted to the two questions the rules   *)
(* ask of it: does a challenge find the number to send its code to, and    *)
(* how do the values of a comparison compare.  Both may read what earlier  *)
(* steps put out, which they do only if they passed.                       *)
(***************************************************************************)
EXTENDS Naturals, Sequences

CONSTANTS
    Order,          \* keys of verification_flow.steps in the order they run
    Kind,           \* step key -> "challenge_response", "comparison" or other
    DependsOn,      \* step key -> keys it waits for, known or not
    Challengeable,  \* step key -> [passed keys -> BOOLEAN], address found
    Compared,       \* step key -> [passed keys -> outcome of the comparison]
    MaxAttempts,    \* step key -> codes a user may try
    Rules,          \* decision.rules, in order
    Fallback,       \* decision when no rule matches
    AnswerFacts,    \* facts of the submission that rules may ask for
    None

Keys == {Order[i] : i \in 1..Len(Order)}

Outcomes == {"pass", "review", "fail"}
StepStatuses == {"pending", "waiting_user_action", "completed", "failed"}
Step == [status : StepStatuses, outcome : Outcomes \cup {"pending", None},
         attempts : Nat]

Decisions == {"approved", "rejected", "manual_review"}
RunStatuses == {"pending", "in_progress", "waiting_user_action",
                "completed", "failed", "manual_review"}
Run == [status : RunStatuses, is_active : BOOLEAN, current : Keys \cup {None},
        decision : Decisions \cup {None}]

\* "skipped" and "expired" are terminal too, and nothing sets them.
StepTerminal == {"completed", "failed"}

ASSUME EngineConstantsOK ==
    /\ Order \in Seq(Keys)
    /\ Len(Rules) \in Nat
    /\ Kind \in [Keys -> {"challenge_response", "comparison", "unsupported"}]
    /\ DOMAIN DependsOn = Keys
    /\ Challengeable \in [Keys -> [SUBSET Keys -> BOOLEAN]]
    /\ Compared \in [Keys -> [SUBSET Keys -> Outcomes]]
    /\ MaxAttempts \in [Keys -> Nat \ {0}]
    /\ \A i \in 1..Len(Rules) : Rules[i].decision \in Decisions
    /\ Fallback \in Decisions
    /\ None \notin Keys \cup Outcomes \cup Decisions \cup {"pending"}

NewRun == [status |-> "pending", is_active |-> TRUE, current |-> None,
           decision |-> None]

\* _initialize_steps.
NewSteps == [k \in Keys |-> [status |-> "pending", outcome |-> None, attempts |-> 0]]

-----------------------------------------------------------------------------
(* One step.  steps is a function on the keys a session found rows for.    *)

Finished(k, steps) == k \in DOMAIN steps /\ steps[k].status \in StepTerminal
Waiting(steps) == {k \in DOMAIN steps : steps[k].status = "waiting_user_action"}
Passed(steps) == {k \in DOMAIN steps : steps[k].outcome = "pass"}

\* _deps_satisfied: a failed dependency is a finished one, an unknown one never
\* is.  That it is known is not enough.
DepsSatisfied_Known(k, steps) == DependsOn[k] \subseteq DOMAIN steps
DepsSatisfied(k, steps) == \A d \in DependsOn[k] : Finished(d, steps)

\* A step that waits or has ended is passed over; the first form forgets the
\* latter.
Ready_Again(k, steps) ==
    /\ k \in DOMAIN steps
    /\ steps[k].status # "waiting_user_action"
    /\ DepsSatisfied(k, steps)
Ready(k, steps) ==
    /\ k \in DOMAIN steps
    /\ steps[k].status = "pending"
    /\ DepsSatisfied(k, steps)

Ended(step, status, outcome) == [step EXCEPT !.status = status, !.outcome = outcome]

\* _start_challenge_step, _run_comparison_step and the unsupported types.
Executed(k, steps) ==
    LET passed == Passed(steps) IN
    CASE Kind[k] = "challenge_response" ->
           IF Challengeable[k][passed]
             THEN [steps[k] EXCEPT !.status = "waiting_user_action"]
             ELSE Ended(steps[k], "failed", "fail")
      [] Kind[k] = "comparison" -> Ended(steps[k], "completed", Compared[k][passed])
      [] OTHER -> Ended(steps[k], "failed", "fail")

\* _apply_user_action and _mark_retry_or_fail on a code that is there; the first
\* form counts the wrong ones only.
Answered_WrongOnly(k, step, right) ==
    LET tried == [step EXCEPT !.attempts = @ + 1] IN
    IF right THEN Ended(step, "completed", "pass")
    ELSE IF tried.attempts >= MaxAttempts[k] THEN Ended(tried, "failed", "fail")
    ELSE [tried EXCEPT !.outcome = "pending"]
Answered(k, step, right) ==
    LET tried == [step EXCEPT !.attempts = @ + 1] IN
    IF right THEN Ended(tried, "completed", "pass")
    ELSE IF tried.attempts >= MaxAttempts[k] THEN Ended(tried, "failed", "fail")
    ELSE [tried EXCEPT !.outcome = "pending"]

-----------------------------------------------------------------------------
(* The whole run.                                                          *)

\* One turn of the for loop of _advance_run: a step that is ready is executed,
\* and nothing is done after one that has come to wait for the user.
Turn(before, k) ==
    IF before.stopped \/ ~Ready(k, before.steps) THEN before
    ELSE LET step == Executed(k, before.steps)
         IN  [steps |-> [before.steps EXCEPT ![k] = step],
              stopped |-> step.status = "waiting_user_action"]

\* One turn of its while loop: the steps in order, each seeing what the ones
\* before it did.
Pass(steps) ==
    LET after[i \in 0..Len(Order)] ==
          IF i = 0 THEN [steps |-> steps, stopped |-> FALSE]
          ELSE Turn(after[i - 1], Order[i])
    IN  after[Len(Order)].steps

\* _build_facts and _evaluate_demo_decision: the first rule all of whose
\* conditions hold; a rule without conditions never matches.
Facts(steps) == AnswerFacts \cup {<<k, steps[k].outcome>> : k \in DOMAIN steps}

Matching(steps) ==
    {i \in 1..Len(Rules) : Rules[i].all # {} /\ Rules[i].all \subseteq Facts(steps)}

Decision(steps) ==
    LET matching == Matching(steps) IN
    IF matching = {} THEN Fallback
    ELSE Rules[CHOOSE i \in matching : \A j \in matching : i <= j].decision

\* _finalize_run: the status of a run that is over.
StatusFor == [approved |-> "completed", rejected |-> "failed",
              manual_review |-> "manual_review"]

FirstWaiting(steps) ==
    Order[CHOOSE i \in 1..Len(Order) :
            /\ Order[i] \in Waiting(steps)
            /\ \A j \in 1..(i - 1) : Order[j] \notin Waiting(steps)]

\* May _finalize_run decide?
Decidable(steps) == \A k \in DOMAIN steps : Finished(k, steps)

\* _finalize_run, as far as the run is concerned; the first form takes any
\* decision for an approval.
Finalized_Completed(run, steps) ==
    IF Waiting(steps) # {}
      THEN [run EXCEPT !.status = "waiting_user_action", !.is_active = TRUE,
                       !.current = FirstWaiting(steps)]
    ELSE IF ~Decidable(steps)
      THEN [run EXCEPT !.status = "in_progress", !.is_active = TRUE, !.current = None]
    ELSE [status |-> "completed", is_active |-> FALSE,
          current |-> None, decision |-> Decision(steps)]
Finalized(run, steps) ==
    IF Waiting(steps) # {}
      THEN [run EXCEPT !.status = "waiting_user_action", !.is_active = TRUE,
                       !.current = FirstWaiting(steps)]
    ELSE IF ~Decidable(steps)
      THEN [run EXCEPT !.status = "in_progress", !.is_active = TRUE, !.current = None]
    ELSE [status |-> StatusFor[Decision(steps)], is_active |-> FALSE,
          current |-> None, decision |-> Decision(steps)]
=============================================================================
