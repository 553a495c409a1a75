------------------------- MODULE VerificationRuntime --------------------------
(***************************************************************************)
(* The verification runs of one submission, worked on directly by API      *)
(* requests: what happens with Temporal disabled or unreachable            *)
(* (app/services/verifications/service.py).                                *)
(*                                                                         *)
(* start_verification and submit_step_action commit several times on their *)
(* way.  A request is a small program: after Begin it goes through the     *)
(* places below, one action per commit, and may stop for good between any  *)
(* two of them (Crash).                                                    *)
(*                                                                         *)
(*   insert   the new run, still without steps                             *)
(*   refresh  no commit: the new run is read back                          *)
(*   init     its steps                                                    *)
(*   defer    the run of a deferred start                                  *)
(*   action   the step the user answered                                   *)
(*   list     no commit: the steps are read for _advance_run               *)
(*   advance  a pass over the steps, or the final state of the run         *)
(*                                                                         *)
(* What a request has read stays as it was read (see UnitOfWork): its own  *)
(* changes apart, its rows never catch up with the tables.                 *)
(***************************************************************************)
EXTENDS VerificationEngine, UnitOfWork

CONSTANTS
    MaxRuns,        \* bound: runs a submission can have
    Sessions        \* requests that may be in flight at once

VARIABLES
    runs,           \* run id -> row of verification_runs, or None
    steps,          \* run id -> [step key -> row of verification_step_runs]
    summary,        \* computed_data.verification of the submission, or None
    request,        \* Sessions -> the request in flight, or None
    disturbed,      \* auxiliary: some request has acted on an outdated or an
                    \* incomplete view of the run (see Outdated)
    overtaken       \* auxiliary: the runs that were over by the time the start
                    \* that inserted them read them back

vars == <<runs, steps, summary, request, disturbed, overtaken>>

\* In the order of created_at.
RunIds == 1..MaxRuns

NoSteps == [k \in {} |-> None]
\* The steps a session holds, or the table has, for one run.
IsStepTable(table) == DOMAIN table \subseteq Keys /\ table \in [DOMAIN table -> Step]

Places == {"insert", "refresh", "init", "defer", "action", "list", "advance"}

\* base is the run as read (by a request that inserts one: the latest run it
\* found), held and steps are the steps as read and as changed.
IsRequest(r) ==
    /\ DOMAIN r = {"at", "run", "deferred", "base", "held", "steps"}
    /\ r.at \in Places /\ r.run \in RunIds /\ r.deferred \in BOOLEAN
    /\ r.base \in Run \cup {None}
    /\ IsStepTable(r.held) /\ IsStepTable(r.steps) /\ DOMAIN r.held = DOMAIN r.steps

ASSUME RuntimeConstantsOK == MaxRuns \in Nat /\ None \notin Run

TypeOK ==
    /\ runs \in [RunIds -> Run \cup {None}]
    /\ DOMAIN steps = RunIds
    /\ \A r \in RunIds : IsStepTable(steps[r]) /\ DOMAIN steps[r] \in {{}, Keys}
    /\ summary \in [run : RunIds, decision : Decisions] \cup {None}
    /\ DOMAIN request = Sessions
    /\ \A c \in Sessions : request[c] # None => IsRequest(request[c])
    /\ disturbed \in BOOLEAN
    /\ overtaken \in SUBSET RunIds

Init ==
    /\ runs = [r \in RunIds |-> None]
    /\ steps = [r \in RunIds |-> NoSteps]
    /\ summary = None
    /\ request = [c \in Sessions |-> None]
    /\ disturbed = FALSE
    /\ overtaken = {}

-----------------------------------------------------------------------------
(* Reading.                                                                *)

Existing == {r \in RunIds : runs[r] # None}
Largest(S) == CHOOSE r \in S : \A q \in S : q <= r

\* _get_latest_run, when there is a run at all.
Latest == Largest(Existing)
LatestRow == IF Existing = {} THEN None ELSE runs[Latest]
HasActiveRun == Existing # {} /\ LatestRow.is_active

\* created_at is set when a run is constructed, not when it is inserted.
Constructed == Existing \cup {request[c].run : c \in {d \in Sessions : request[d] # None}}
NextRun == IF Constructed = {} THEN 1 ELSE Largest(Constructed) + 1

Goto(c, place) == request' = [request EXCEPT ![c].at = place]
Close(c) == request' = [request EXCEPT ![c] = None]

\* What request c holds is not what the tables say, or it inserts a run after
\* another has, or it is about to advance a run whose steps are not there (yet).
Outdated(c) ==
    LET r == request[c] IN
    \/ r.at = "insert" /\ (LatestRow # r.base \/ \E q \in Existing : q > r.run)
    \/ r.at # "insert" /\ runs[r.run] # r.base
    \/ \E k \in DOMAIN r.held : k \notin DOMAIN steps[r.run] \/ steps[r.run][k] # r.held[k]
    \/ r.at = "list" /\ steps[r.run] = NoSteps

Observe(c) == disturbed' = (disturbed \/ Outdated(c))

-----------------------------------------------------------------------------
(* start_verification.                                                     *)

\* The submission and its latest run are read; a run that is active is taken on,
\* otherwise a new one is constructed.  The first form never takes a run on.
StartBegin_AlwaysNew(c, deferred) ==
    /\ request[c] = None
    /\ NextRun \in RunIds
    /\ request' = [request EXCEPT ![c] =
         [at |-> "insert", run |-> NextRun, deferred |-> deferred,
          base |-> LatestRow, held |-> NoSteps, steps |-> NoSteps]]
    /\ UNCHANGED <<runs, steps, summary, disturbed, overtaken>>
StartBegin(c, deferred) ==
    /\ request[c] = None
    /\ IF HasActiveRun
         THEN request' = [request EXCEPT ![c] =
                [at |-> IF deferred THEN "defer" ELSE "list", run |-> Latest,
                 deferred |-> deferred, base |-> runs[Latest],
                 held |-> NoSteps, steps |-> NoSteps]]
         ELSE /\ NextRun \in RunIds
              /\ request' = [request EXCEPT ![c] =
                   [at |-> "insert", run |-> NextRun, deferred |-> deferred,
                    base |-> LatestRow, held |-> NoSteps, steps |-> NoSteps]]
    /\ UNCHANGED <<runs, steps, summary, disturbed, overtaken>>

InsertRun(c) ==
    /\ request[c] # None /\ request[c].at = "insert"
    /\ runs' = [runs EXCEPT ![request[c].run] = NewRun]
    /\ request' = [request EXCEPT ![c].at = "refresh", ![c].base = NewRun]
    /\ Observe(c)
    /\ UNCHANGED <<steps, summary, overtaken>>

\* The run is read back in a transaction of its own, whatever has become of it
\* since its commit: another request may have taken it on.
RefreshRun(c) ==
    LET r == request[c] IN
    /\ r # None /\ r.at = "refresh"
    /\ request' = [request EXCEPT ![c].at = "init", ![c].base = runs[r.run]]
    /\ overtaken' = overtaken \cup {q \in {r.run} : ~runs[q].is_active}
    /\ UNCHANGED <<runs, steps, summary, disturbed>>

InitializeSteps(c) ==
    LET r == request[c] IN
    /\ r # None /\ r.at = "init"
    /\ steps' = [steps EXCEPT ![r.run] = NewSteps]
    /\ Goto(c, IF r.deferred THEN "defer" ELSE "list")
    /\ Observe(c)
    /\ UNCHANGED <<runs, summary, overtaken>>

\* A deferred start leaves the run pending, whatever it was doing.
Defer(c) ==
    LET r == request[c] IN
    /\ r # None /\ r.at = "defer"
    /\ runs' = [runs EXCEPT ![r.run] =
         Flush(@, r.base, [r.base EXCEPT !.status = "pending", !.current = None])]
    /\ Close(c)
    /\ Observe(c)
    /\ UNCHANGED <<steps, summary, overtaken>>

-----------------------------------------------------------------------------
(* submit_step_action.                                                     *)

\* The latest run and the step are read, and the step must be waiting.
Answering(c, k, answered) ==
    /\ request[c] = None
    /\ HasActiveRun
    /\ k \in Waiting(steps[Latest])
    /\ request' = [request EXCEPT ![c] =
         [at |-> "action", run |-> Latest, deferred |-> FALSE, base |-> runs[Latest],
          held |-> [j \in {k} |-> steps[Latest][k]],
          steps |-> [j \in {k} |-> answered]]]
    /\ UNCHANGED <<runs, steps, summary, disturbed, overtaken>>

\* The code is compared in memory.  (Without one the request fails.)
ActionBegin(c, k, right) == Answering(c, k, Answered(k, steps[Latest][k], right))

\* The step rows once request c has committed its changed copies.
Written(c, changed) ==
    LET r == request[c] IN
    [steps EXCEPT ![r.run] =
        [k \in DOMAIN @ |-> IF k \in DOMAIN r.held THEN Flush(@[k], r.held[k], changed[k])
                                                   ELSE @[k]]]

CommitAction(c) ==
    LET r == request[c] IN
    /\ r # None /\ r.at = "action"
    /\ steps' = Written(c, r.steps)
    /\ request' = [request EXCEPT ![c].at = "list", ![c].held = r.steps]
    /\ Observe(c)
    /\ UNCHANGED <<runs, summary, overtaken>>

-----------------------------------------------------------------------------
(* _advance_run.                                                           *)

\* Rows that are new to the session are loaded, the others stay as they are.
ListSteps(c) ==
    LET r == request[c]
        listed == [k \in DOMAIN steps[r.run] |->
                     IF k \in DOMAIN r.held THEN r.steps[k] ELSE steps[r.run][k]]
    IN  /\ r # None /\ r.at = "list"
        /\ request' = [request EXCEPT ![c].at = "advance", ![c].held = listed,
                                      ![c].steps = listed]
        /\ Observe(c)
        /\ UNCHANGED <<runs, steps, summary, overtaken>>

\* A pass that moved something is committed, and the loop goes round again; the
\* first form commits only when a step has come to wait.
AdvancePass_WaitsOnly(c) ==
    LET r == request[c]
        moved == Pass(r.steps)
    IN  /\ r # None /\ r.at = "advance"
        /\ moved # r.steps
        /\ steps' = IF Waiting(moved) # {} THEN Written(c, moved) ELSE steps
        /\ request' = [request EXCEPT ![c].held = moved, ![c].steps = moved]
        /\ Observe(c)
        /\ UNCHANGED <<runs, summary, overtaken>>
AdvancePass(c) ==
    LET r == request[c]
        moved == Pass(r.steps)
    IN  /\ r # None /\ r.at = "advance"
        /\ moved # r.steps
        /\ steps' = Written(c, moved)
        /\ request' = [request EXCEPT ![c].held = moved, ![c].steps = moved]
        /\ Observe(c)
        /\ UNCHANGED <<runs, summary, overtaken>>

\* When nothing moves any more the run is finalized, and with a decision the
\* submission's verification summary along with it.  The first form writes the
\* summary of a run that goes on, too.
FinalizeRun_AlwaysSummary(c) ==
    LET r == request[c]
        final == Finalized(r.base, r.steps)
    IN  /\ r # None /\ r.at = "advance"
        /\ Pass(r.steps) = r.steps
        /\ runs' = [runs EXCEPT ![r.run] = Flush(@, r.base, final)]
        /\ summary' = [run |-> r.run, decision |-> final.decision]
        /\ Close(c)
        /\ Observe(c)
        /\ UNCHANGED <<steps, overtaken>>
FinalizeRun(c) ==
    LET r == request[c]
        final == Finalized(r.base, r.steps)
    IN  /\ r # None /\ r.at = "advance"
        /\ Pass(r.steps) = r.steps
        /\ runs' = [runs EXCEPT ![r.run] = Flush(@, r.base, final)]
        /\ summary' = IF final.is_active THEN summary
                      ELSE [run |-> r.run, decision |-> final.decision]
        /\ Close(c)
        /\ Observe(c)
        /\ UNCHANGED <<steps, overtaken>>

\* The process, or the connection to the client or the database, is gone.
Crash(c) ==
    /\ request[c] # None
    /\ Close(c)
    /\ UNCHANGED <<runs, steps, summary, disturbed, overtaken>>

Work(c) ==
    \/ InsertRun(c) \/ RefreshRun(c) \/ InitializeSteps(c) \/ Defer(c)
    \/ CommitAction(c) \/ ListSteps(c) \/ AdvancePass(c) \/ FinalizeRun(c)

Next ==
    \E c \in Sessions :
        \/ \E deferred \in BOOLEAN : StartBegin(c, deferred)
        \/ \E k \in Keys, right \in BOOLEAN : ActionBegin(c, k, right)
        \/ Work(c)
        \/ Crash(c)

Spec == Init /\ [][Next]_vars

-----------------------------------------------------------------------------
(* Properties.                                                             *)

\* A decided run was decided by the rules on the outcomes of steps that had all
\* ended, and its status says the same, unless some request went by an outdated
\* or incomplete view.
DecisionsFollow ==
    ~disturbed => \A r \in Existing :
        LET run == runs[r] IN
        ~run.is_active =>
            /\ \A k \in Keys : Finished(k, steps[r])
            /\ run.decision = Decision(steps[r])
            /\ run.status = StatusFor[run.decision]

\* Whatever overlaps, the verification summary in the submission names a run that
\* has a decision.  It gives that decision, and the run is over, unless the start
\* that inserted the run read it back as over: that one goes on, and reopens it.
SummaryAgrees ==
    summary # None =>
        /\ runs[summary.run] # None /\ runs[summary.run].decision # None
        /\ summary.run \notin overtaken =>
             /\ ~runs[summary.run].is_active
             /\ summary.decision = runs[summary.run].decision

\* A step that has started found the steps it depends on ended, unless requests
\* overlapped.
DependenciesEnded ==
    ~disturbed => \A r \in RunIds : \A k \in DOMAIN steps[r] :
        steps[r][k].status # "pending" =>
            \A d \in DependsOn[k] : Finished(d, steps[r])

\* Only the newest run is ever active, unless two requests started one each.
OneActiveRun ==
    ~disturbed => \A r, q \in Existing : runs[r].is_active => q <= r

\* A run that is over is never active again, not even when a request that read
\* it as active commits after its end, unless the start that inserted it read it
\* back as over.
OverIsOver ==
    [][\A r \in Existing \ overtaken : ~runs[r].is_active => ~runs'[r].is_active]_vars

\* The result of a step is final, and so is the decision of a run, unless some
\* request goes by an outdated or incomplete view.
ResultsFinal ==
    [][~disturbed' => \A r \in Existing :
        /\ \A k \in DOMAIN steps[r] :
             Finished(k, steps[r]) => steps'[r][k] = steps[r][k]
        /\ runs[r].decision # None => runs'[r].decision = runs[r].decision]_vars
=============================================================================
