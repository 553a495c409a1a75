------------------------- MODULE VerificationWorkflow -------------------------
(***************************************************************************)
(* Verification runs with Temporal: requests signal a workflow, the        *)
(* workflow orders activities, and workers run them on the tables          *)
(* (app/temporal/workflows/verification.py, app/temporal/activities/       *)
(* verification.py and the second half of app/services/verifications/      *)
(* service.py).                                                            *)
(*                                                                         *)
(* A request goes the way of VerificationRuntime up to where that would    *)
(* advance the run or answer the step; there it calls on the workflow of   *)
(* the run and is done.  An attempt at an activity is a request of a       *)
(* worker: it starts where the code it shares with the direct way starts   *)
(* and then takes the same steps.                                          *)
(*                                                                         *)
(* Temporal orders an activity again until an attempt at it succeeds and   *)
(* its result gets back (the default retry policy), so one may take effect *)
(* more than once.  Signals reach a workflow that is open, in order.       *)
(***************************************************************************)
EXTENDS VerificationRuntime

CONSTANTS
    Clients,        \* the sessions of API requests
    Workers,        \* the sessions of attempts at activities
    MaxSignals      \* bound: answers that may await a workflow

VARIABLES
    workflow,       \* run id -> execution of its workflow, or None
    workflow_id,    \* run id -> is the column of that name set?
    knows,          \* Clients -> did the request read or set that column?
    due             \* auxiliary: run id -> step key -> the answers the workflow
                    \* is through with, and once more for each result lost

workflowVars == <<workflow, workflow_id, knows, due>>
allVars == <<vars, workflowVars>>

\* What a submit_action signal brings: a step and a code for it, or none.
Answer == [step : Keys, code : {"right", "wrong", "missing"}]

\* at: the activity under way ("advance", "apply"), the same with its effect
\* committed ("advanced", "applied"), waiting for a signal, or closed.
\* by: the worker whose attempt counts.
WorkflowPlaces == {"advance", "advanced", "wait", "apply", "applied", "closed"}
Execution == [at : WorkflowPlaces, by : Workers \cup {None}, resume : BOOLEAN,
              actions : Seq(Answer)]
IsWorkflow(w) == w \in Execution /\ Len(w.actions) <= MaxSignals

\* What an attempt begins with.
StepTables == UNION {[K -> Step] : K \in SUBSET Keys}
Begun == [at : {"list", "action"}, run : RunIds, deferred : {FALSE}, base : Run,
          held : StepTables, steps : StepTables]

ASSUME WorkflowConstantsOK ==
    /\ Sessions = Clients \cup Workers
    /\ Clients \cap Workers = {}
    /\ None \notin Workers \cup Execution \cup Begun
    /\ MaxSignals \in Nat

WorkflowTypeOK ==
    /\ DOMAIN workflow = RunIds
    /\ \A r \in RunIds : workflow[r] # None => IsWorkflow(workflow[r])
    /\ workflow_id \in [RunIds -> BOOLEAN]
    /\ knows \in [Clients -> BOOLEAN]
    /\ due \in [RunIds -> [Keys -> Nat]]

NewWorkflow == [at |-> "advance", by |-> None, resume |-> FALSE, actions |-> <<>>]
Open(r) == workflow[r] # None /\ workflow[r].at # "closed"

WorkflowInit ==
    /\ Init
    /\ workflow = [r \in RunIds |-> None]
    /\ workflow_id = [r \in RunIds |-> FALSE]
    /\ knows = [c \in Clients |-> FALSE]
    /\ due = [r \in RunIds |-> [k \in Keys |-> 0]]

-----------------------------------------------------------------------------
(* Requests.                                                               *)

\* An answer that the worker will refuse for want of a code is not refused here.
Begin(c) ==
    /\ \/ \E deferred \in BOOLEAN : StartBegin(c, deferred)
       \/ \E k \in Keys, right \in BOOLEAN : ActionBegin(c, k, right)
       \/ \E k \in Keys : Answering(c, k, steps[Latest][k])
    /\ knows' = [knows EXCEPT ![c] = workflow_id[request'[c].run]]
    /\ UNCHANGED <<workflow, workflow_id, due>>

\* A new run is read back, with the column that another request may have set.
ReadBack(c) ==
    /\ RefreshRun(c)
    /\ knows' = [knows EXCEPT ![c] = workflow_id[request[c].run]]
    /\ UNCHANGED <<workflow, workflow_id, due>>

Prepare(c) ==
    /\ InsertRun(c) \/ InitializeSteps(c) \/ Defer(c) \/ Crash(c)
    /\ UNCHANGED workflowVars

Dispatching(c) == request[c] # None /\ request[c].at \in {"list", "action"}

\* start_workflow under the id of the run: an execution that is open is left to
\* go on (WorkflowAlreadyStartedError), one that is closed does not stand in the
\* way.  The request records the id, if it gets that far.
Launch(c) ==
    LET r == request[c].run IN
    /\ Dispatching(c) /\ ~knows[c]
    /\ workflow' = IF Open(r) THEN workflow ELSE [workflow EXCEPT ![r] = NewWorkflow]
    /\ \/ /\ knows' = [knows EXCEPT ![c] = TRUE]
          /\ workflow_id' = [workflow_id EXCEPT ![r] = TRUE]
          /\ request' = [request EXCEPT ![c].base = runs[r]]
       \/ Close(c) /\ UNCHANGED <<workflow_id, knows>>
    /\ UNCHANGED <<runs, steps, summary, disturbed, overtaken, due>>

\* The resume signal.  A start is done with it; a closed workflow refuses it.
Resume(c) ==
    LET r == request[c].run IN
    /\ Dispatching(c) /\ knows[c]
    /\ IF Open(r)
         THEN /\ workflow' = [workflow EXCEPT ![r].resume = TRUE]
              /\ IF request[c].at = "action" THEN Goto(c, "signal") ELSE Close(c)
         ELSE Close(c) /\ UNCHANGED workflow
    /\ UNCHANGED <<runs, steps, summary, disturbed, overtaken, workflow_id, knows, due>>

\* The code of the answer in request q, from what it would make of the step.
CodeIn(q, k) ==
    IF q.steps[k] = q.held[k] THEN "missing"
    ELSE IF q.steps[k].outcome = "pass" THEN "right" ELSE "wrong"

\* The answer follows; what it does to the step is for the activity to see.
SubmitAction(c) ==
    LET q == request[c]
        k == CHOOSE j \in DOMAIN q.steps : TRUE
        answer == [step |-> k, code |-> CodeIn(q, k)]
    IN  /\ q # None /\ q.at = "signal"
        /\ IF Open(q.run)
             THEN /\ Len(workflow[q.run].actions) < MaxSignals
                  /\ workflow' = [workflow EXCEPT ![q.run].actions = Append(@, answer)]
             ELSE UNCHANGED workflow
        /\ Close(c)
        /\ UNCHANGED <<runs, steps, summary, disturbed, overtaken, workflow_id, knows, due>>

-----------------------------------------------------------------------------
(* The workflow.                                                           *)

\* The condition it waits on, and what it does first: every answer, then a pass.
\* The first form waits for a resume only, which every answer sends ahead.
Wake_Resumed(r) ==
    LET w == workflow[r] IN
    /\ w # None /\ w.at = "wait"
    /\ w.resume
    /\ workflow' = [workflow EXCEPT ![r] =
         IF w.actions # <<>> THEN [w EXCEPT !.at = "apply"]
                             ELSE [w EXCEPT !.at = "advance", !.resume = FALSE]]
    /\ UNCHANGED <<vars, workflow_id, knows, due>>
Wake(r) ==
    LET w == workflow[r] IN
    /\ w # None /\ w.at = "wait"
    /\ w.resume \/ w.actions # <<>>
    /\ workflow' = [workflow EXCEPT ![r] =
         IF w.actions # <<>> THEN [w EXCEPT !.at = "apply"]
                             ELSE [w EXCEPT !.at = "advance", !.resume = FALSE]]
    /\ UNCHANGED <<vars, workflow_id, knows, due>>

Count(r) == due' = [due EXCEPT ![r][Head(workflow[r].actions).step] = @ + 1]

\* An answer was applied: the next one, or on to the pass.
Applied(r) ==
    LET w == workflow[r]
        left == Tail(w.actions)
    IN  /\ w # None /\ w.at = "applied"
        /\ workflow' = [workflow EXCEPT ![r] =
             IF left # <<>>
               THEN [w EXCEPT !.at = "apply", !.by = None, !.actions = left]
               ELSE [w EXCEPT !.at = "advance", !.by = None, !.actions = left,
                              !.resume = FALSE]]
        /\ Count(r)
        /\ UNCHANGED <<vars, workflow_id, knows>>

\* The pass is done: the loop goes on while the run, read back, is active; in the
\* first form while it waits for the user.
Advanced_Waiting(r) ==
    LET w == workflow[r] IN
    /\ w # None /\ w.at = "advanced"
    /\ workflow' = [workflow EXCEPT ![r].by = None,
         ![r].at = IF runs[r].status = "waiting_user_action" THEN "wait" ELSE "closed"]
    /\ UNCHANGED <<vars, workflow_id, knows, due>>
Advanced(r) ==
    LET w == workflow[r] IN
    /\ w # None /\ w.at = "advanced"
    /\ workflow' = [workflow EXCEPT ![r].by = None,
                      ![r].at = IF runs[r].is_active THEN "wait" ELSE "closed"]
    /\ UNCHANGED <<vars, workflow_id, knows, due>>

\* The result of an activity does not get back: it is ordered again.
ResultLost(r) ==
    LET w == workflow[r] IN
    /\ w # None /\ w.at \in {"advanced", "applied"}
    /\ workflow' = [workflow EXCEPT ![r].by = None,
                      ![r].at = IF w.at = "applied" THEN "apply" ELSE "advance"]
    /\ IF w.at = "applied" THEN Count(r) ELSE UNCHANGED due
    /\ UNCHANGED <<vars, workflow_id, knows>>

-----------------------------------------------------------------------------
(* The activities.                                                         *)

\* An attempt to apply an answer fails, and is made again, if this does not hold;
\* the first form does not ask whether the step still waits.
Applicable_Unchecked(r) ==
    LET answer == Head(workflow[r].actions) IN
    answer.step \in DOMAIN steps[r] /\ answer.code # "missing"
Applicable(r) ==
    LET answer == Head(workflow[r].actions) IN
    answer.step \in Waiting(steps[r]) /\ answer.code # "missing"

\* An attempt reads the run, and the step if it is to apply an answer.  A new one
\* takes over from one that has timed out or died.
Attempt(w, r) ==
    LET flow == workflow[r]
        answer == Head(flow.actions)
    IN  /\ request[w] = None
        /\ flow # None /\ flow.at \in {"advance", "apply"}
        /\ flow.at = "apply" => Applicable(r)
        /\ LET held == IF flow.at = "advance" THEN NoSteps
                       ELSE [k \in {answer.step} |-> steps[r][k]]
           IN request' = [request EXCEPT ![w] =
                [at |-> IF flow.at = "advance" THEN "list" ELSE "action",
                 run |-> r, deferred |-> FALSE, base |-> runs[r], held |-> held,
                 steps |-> [k \in DOMAIN held |-> Answered(k, held[k], answer.code = "right")]]]
        /\ workflow' = [workflow EXCEPT ![r].by = w]
        /\ UNCHANGED <<runs, steps, summary, disturbed, overtaken, workflow_id, knows, due>>

\* The attempt by w has committed: the workflow hears of it if it is the one
\* that counts.
Completed(w, r, place) ==
    workflow' = IF workflow[r].by = w THEN [workflow EXCEPT ![r].at = place]
                                      ELSE workflow

ApplyAttempt(w) ==
    /\ request[w] # None /\ request[w].at = "action"
    /\ steps' = Written(w, request[w].steps)
    /\ Close(w)
    /\ Observe(w)
    /\ Completed(w, request[w].run, "applied")
    /\ UNCHANGED <<runs, summary, overtaken, workflow_id, knows, due>>

FinalizeAttempt(w) ==
    /\ FinalizeRun(w)
    /\ Completed(w, request[w].run, "advanced")
    /\ UNCHANGED <<workflow_id, knows, due>>

AdvanceAttempt(w) ==
    \/ (ListSteps(w) \/ AdvancePass(w) \/ Crash(w)) /\ UNCHANGED workflowVars
    \/ FinalizeAttempt(w)

-----------------------------------------------------------------------------

WorkflowNext ==
    \/ \E c \in Clients : Begin(c) \/ ReadBack(c) \/ Prepare(c) \/ Launch(c) \/ Resume(c) \/ SubmitAction(c)
    \/ \E r \in RunIds : Wake(r) \/ Applied(r) \/ Advanced(r) \/ ResultLost(r)
    \/ \E w \in Workers :
         \/ \E r \in RunIds : Attempt(w, r)
         \/ ApplyAttempt(w)
         \/ AdvanceAttempt(w)

WorkflowSpec == WorkflowInit /\ [][WorkflowNext]_allVars

\* The Temporal server is up, some worker is, and an attempt that can succeed
\* is made until one does and its result is back.
Fairness ==
    /\ \A r \in RunIds : /\ WF_allVars(Wake(r))
                         /\ SF_allVars(Applied(r))
                         /\ SF_allVars(Advanced(r))
    /\ \A w \in Workers : /\ \A r \in RunIds : WF_allVars(Attempt(w, r))
                          /\ SF_allVars(ApplyAttempt(w))
                          /\ SF_allVars(ListSteps(w) /\ UNCHANGED workflowVars)
                          /\ SF_allVars(AdvancePass(w) /\ UNCHANGED workflowVars)
                          /\ SF_allVars(FinalizeAttempt(w))

FairSpec == WorkflowSpec /\ Fairness

-----------------------------------------------------------------------------
(* Properties.                                                             *)

\* A workflow closes only when its run is over.
ClosedIsOver ==
    \A r \in RunIds : workflow[r] # None /\ workflow[r].at = "closed" =>
        ~runs[r].is_active

\* Has an answer to step k taken effect that the workflow has not heard of yet?
Unheard(r, k) ==
    workflow[r] # None /\ workflow[r].at = "applied" /\ Head(workflow[r].actions).step = k

\* Whatever the requests do, the attempts of a step (attempt_count) are the answers
\* to it that the workflow is through with, none of them forgotten; but one whose
\* result was lost is counted again for every time it was.  A step that waits has
\* an attempt left.
AnswersAreCounted ==
    \A r \in RunIds : \A k \in DOMAIN steps[r] :
        LET step == steps[r][k] IN
        /\ step.attempts = due[r][k] + (IF Unheard(r, k) THEN 1 ELSE 0)
        /\ step.status = "waiting_user_action" => step.attempts < MaxAttempts[k]

\* Whoever decides a run has seen its steps as they are, all of them ended, or
\* none at all.
DecidedOnTheTables ==
    [][\A r \in Existing : runs'[r].decision # runs[r].decision =>
        \E w \in Workers : /\ request[w] # None /\ request[w].run = r
                           /\ \/ DOMAIN request[w].steps = {}
                              \/ /\ \A k \in Keys : Finished(k, steps[r])
                                 /\ runs'[r].decision = Decision(steps[r])]_allVars

\* The result of a step is final, and a run that is over stays over with the
\* decision it has, unless some request went by an outdated or incomplete view:
\* nothing keeps an activity that is repeated from a run that is over.
ResultsStay ==
    [][\A r \in Existing :
        /\ \A k \in DOMAIN steps[r] :
             Finished(k, steps[r]) => steps'[r][k] = steps[r][k]
        /\ ~disturbed' /\ ~runs[r].is_active => runs'[r] = runs[r]]_allVars

\* Is the workflow where it stays until the next signal, or for good?
Settled(r) ==
    \/ workflow[r] = None
    \/ workflow[r].at = "closed"
    \/ (workflow[r].at = "wait" /\ workflow[r].actions = <<>>)

\* "The workflow advances again until it waits for the next input or reaches a
\* terminal decision."
WorkflowSettles == \A r \in RunIds : []<>Settled(r)

\* It does, or it is at an answer that can never be applied.
WorkflowSettlesUnlessRefused ==
    \A r \in RunIds :
        []<>(Settled(r) \/ (workflow[r].at = "apply" /\ ~Applicable(r)))
=============================================================================
