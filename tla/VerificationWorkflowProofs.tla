---------------------- MODULE VerificationWorkflowProofs ----------------------
(***************************************************************************)
(* What VerificationWorkflow guarantees for every flow of steps and rules, *)
(* any number of runs, and any number of clients that overlap and die,     *)
(* while the attempts that Temporal makes at one activity do not overlap   *)
(* (OneAttempt); one worker is enough for that (OneWorkerSuffices).  With  *)
(* two attempts at one activity under way an answer may be counted twice.  *)
(*                                                                         *)
(* The argument.  An attempt holds the steps of its run as the tables have *)
(* them, or came before there were any (WorkerSound), for a client only    *)
(* inserts a run, initializes it or defers it (ClientSound, ClientsApart), *)
(* and the one workflow of a run waits for its one attempt (FlowsSound).   *)
(* So what an attempt writes follows from what is there: an answer is      *)
(* counted once, and once more for every time its result was lost, and a   *)
(* run that is decided is decided on its steps.  That a run that is over   *)
(* goes by its steps (OverIsDecided) holds as long as no request went by   *)
(* an outdated view or one from before the steps.                          *)
(***************************************************************************)
EXTENDS VerificationWorkflow, VerificationRuntimeProofs

\* Attempts at the activities of one workflow do not overlap: each ends, or dies,
\* before Temporal gives it up.
OneAttempt ==
    \A v, w \in Workers :
        (request[v] # None /\ request[w] # None /\ request[v].run = request[w].run) => v = w

RequestFields == {"at", "run", "deferred", "base", "held", "steps"}

\* What a request of the API knows.  From before its run is there it is the only
\* one to have it; while it may write the row it goes by that of an active run,
\* unless some request was disturbed.
ClientSound(q) ==
    /\ DOMAIN q = RequestFields /\ q.run \in RunIds
    /\ q.at \in {"insert", "refresh", "init", "defer", "list", "action", "signal"}
    /\ q.at = "insert" <=> runs[q.run] = None
    /\ q.at \in Fresh => DOMAIN steps[q.run] = {}
    /\ q.at \in {"action", "signal"} => DOMAIN q.steps \subseteq Keys /\ DOMAIN q.steps # {}
    /\ q.at \in {"refresh", "init", "defer"} =>
         /\ q.base \in Run
         /\ ~disturbed => q.base.is_active

\* What an attempt at an activity knows: the steps it holds are as it holds them,
\* all of them or, if it came before them, none.
WorkerSound(q) ==
    /\ DOMAIN q = RequestFields /\ q.run \in RunIds
    /\ runs[q.run] # None /\ q.base \in Run
    /\ IsStepTable(q.held) /\ IsStepTable(q.steps) /\ DOMAIN q.steps = DOMAIN q.held
    /\ \A k \in DOMAIN q.held : k \in DOMAIN steps[q.run] /\ steps[q.run][k] = q.held[k]
    /\ q.at \in {"list", "action", "advance"}
    /\ q.at = "list" => DOMAIN q.held = {}
    /\ q.at = "action" => \A k \in DOMAIN q.held :
         /\ q.held[k].status = "waiting_user_action"
         /\ \E right \in BOOLEAN : q.steps[k] = Answered(k, q.held[k], right)
    /\ q.at = "advance" => /\ q.steps = q.held /\ DOMAIN q.held \in {{}, Keys}
                           /\ ~disturbed => DOMAIN q.held = Keys /\ Keys # {}
    /\ workflow[q.run] # None
    /\ workflow[q.run].at = IF q.at = "action" THEN "apply" ELSE "advance"

RequestsKnow ==
    /\ \A c \in Clients : request[c] # None => ClientSound(request[c])
    /\ \A w \in Workers : request[w] # None => WorkerSound(request[w])

\* Nobody else has the run a client is about to insert, nor initializes it.
ClientsApart ==
    \A c, d \in Clients :
        (c # d /\ request[c] # None /\ request[d] # None
           /\ request[c].run = request[d].run) =>
               ~(request[c].at \in Fresh /\ request[d].at \in Fresh)
               /\ request[c].at # "insert"

\* A workflow that is at an answer has one.
IsFlow(w) == /\ IsWorkflow(w)
             /\ w.at \in {"apply", "applied"} => w.actions # <<>>

\* There is a workflow only for a run that is there.
FlowsSound ==
    /\ DOMAIN workflow = RunIds
    /\ \A r \in RunIds : workflow[r] # None =>
         runs[r] # None /\ IsFlow(workflow[r])

Tables ==
    /\ runs \in [RunIds -> Run \cup {None}]
    /\ DOMAIN steps = RunIds
    /\ \A r \in RunIds : /\ IsStepTable(steps[r]) /\ DOMAIN steps[r] \in {{}, Keys}
                         /\ runs[r] = None => DOMAIN steps[r] = {}
    /\ DOMAIN request = Sessions

\* AnswersAreCounted, and nothing is counted before a step has begun.
Counted(k, step) ==
    /\ step.attempts <= MaxAttempts[k]
    /\ step.status = "waiting_user_action" => step.attempts < MaxAttempts[k]
    /\ step.status = "pending" => step.attempts = 0

AllCounted == \A r \in RunIds : \A k \in DOMAIN steps[r] : Counted(k, steps[r][k])

\* What a run is that was decided on all its steps.
DecidedRun(s) == [status |-> StatusFor[Decision(s)], is_active |-> FALSE,
                  current |-> None, decision |-> Decision(s)]

OverIsDecided ==
    ~disturbed => \A r \in Existing : ~runs[r].is_active =>
        /\ DOMAIN steps[r] # {}
        /\ \A k \in Keys : Finished(k, steps[r])
        /\ runs[r] = DecidedRun(steps[r])

WInv == /\ Tables /\ RequestsKnow /\ ClientsApart /\ FlowsSound
        /\ ClosedIsOver /\ AllCounted /\ OverIsDecided

-----------------------------------------------------------------------------
(* What a step leaves of the requests it is not about.                     *)

\* What the sessions and the workflows are.
LEMMA TypesFacts ==
    /\ Sessions = Clients \cup Workers /\ Clients \cap Workers = {} /\ None \notin Run
    /\ \A w : IsFlow(w) => w # None
  BY WorkflowConstantsOK, RuntimeConstantsOK DEF IsFlow, IsWorkflow

\* A client that is not about it, while runs come and steps come.
LEMMA ClientStays ==
    ASSUME NEW d \in Clients, request[d] # None, ClientSound(request[d]),
           request'[d] = request[d],
           runs'[request[d].run] = None <=> runs[request[d].run] = None,
           request[d].at \in Fresh => DOMAIN steps'[request[d].run] = {},
           disturbed => disturbed'
    PROVE  ClientSound(request[d])'
  BY DEF ClientSound

\* An attempt while others are at other runs.
LEMMA WorkerStays ==
    ASSUME NEW v \in Workers, request[v] # None, WorkerSound(request[v]),
           request'[v] = request[v], disturbed => disturbed',
           runs'[request[v].run] # None,
           \A k \in DOMAIN steps[request[v].run] :
                /\ k \in DOMAIN steps'[request[v].run]
                /\ steps'[request[v].run][k] = steps[request[v].run][k],
           workflow'[request[v].run] # None,
           workflow'[request[v].run].at = workflow[request[v].run].at
    PROVE  WorkerSound(request[v])'
  BY DEF WorkerSound

\* A client that may write the row goes by one of an active run.
LEMMA ClientWrites ==
    ASSUME NEW c \in Clients, WInv, request[c] # None,
           request[c].at \in {"refresh", "init", "defer"}
    PROVE  request[c].base \in Run /\ (~disturbed => request[c].base.is_active)
<1>1. ClientSound(request[c])
  BY DEF WInv, RequestsKnow
<1> QED BY <1>1 DEF ClientSound

\* A step that changes no table: what is left to show of it.
LEMMA TablesStay ==
    ASSUME WInv, runs' = runs, steps' = steps, disturbed => disturbed',
           DOMAIN request' = Sessions, RequestsKnow', ClientsApart', FlowsSound',
           ClosedIsOver'
    PROVE  WInv'
<1>1. Tables' /\ AllCounted' /\ OverIsDecided'
  BY DEF WInv, Tables, AllCounted, Counted, OverIsDecided, Existing
<1> QED BY <1>1 DEF WInv

\* One that changes no row, and no request but the client's.
LEMMA ClientReads ==
    ASSUME WInv, NEW c \in Clients, runs' = runs, steps' = steps,
           disturbed' = disturbed, DOMAIN request' = Sessions,
           \A d \in Sessions \ {c} : request'[d] = request[d],
           request'[c] # None => ClientSound(request[c])',
           request'[c] # None => \A d \in Clients \ {c} :
               (request[d] # None /\ request[d].run = request'[c].run) =>
                   /\ request'[c].at # "insert" /\ request[d].at # "insert"
                   /\ ~(request'[c].at \in Fresh /\ request[d].at \in Fresh),
           DOMAIN workflow' = RunIds,
           \A r \in RunIds :
               \/ workflow'[r] = workflow[r]
               \/ /\ runs[r] # None /\ IsFlow(workflow'[r])
                  /\ IF Open(r) THEN workflow'[r].at = workflow[r].at
                                ELSE workflow'[r].at = "advance"
    PROVE  WInv'
<1>1. c \notin Workers /\ Clients \subseteq Sessions /\ Workers \subseteq Sessions
  BY TypesFacts
<1>2. ASSUME NEW d \in Clients, request'[d] # None PROVE ClientSound(request[d])'
  <2>1. CASE d = c
    BY <1>2, <2>1
  <2>2. CASE d # c
    <3>1. request'[d] = request[d] /\ request[d] # None /\ ClientSound(request[d])
      BY <1>1, <1>2, <2>2 DEF WInv, RequestsKnow
    <3>2. request[d].at \in Fresh => DOMAIN steps[request[d].run] = {}
      BY <3>1 DEF ClientSound
    <3> QED BY <3>1, <3>2, ClientStays
  <2> QED BY <2>1, <2>2
<1>3. ASSUME NEW v \in Workers, request'[v] # None PROVE WorkerSound(request[v])'
  <2>1. request'[v] = request[v] /\ request[v] # None /\ WorkerSound(request[v])
    BY <1>1, <1>3 DEF WInv, RequestsKnow
  <2> DEFINE q == request[v].run
  <2>2. /\ q \in RunIds /\ runs[q] # None /\ workflow[q] # None
        /\ workflow[q].at \in {"advance", "apply"}
    BY <2>1 DEF WorkerSound
  <2>3. workflow'[q] # None /\ workflow'[q].at = workflow[q].at
    BY <2>2, TypesFacts DEF Open
  <2> HIDE DEF q
  <2> QED BY <2>1, <2>2, <2>3, WorkerStays DEF q
<1>4. RequestsKnow'
  BY <1>2, <1>3 DEF RequestsKnow
<1>5. ClientsApart'
  <2> SUFFICES ASSUME NEW d \in Clients, NEW e \in Clients, d # e,
                      request'[d] # None, request'[e] # None,
                      request'[d].run = request'[e].run
               PROVE  /\ ~(request'[d].at \in Fresh /\ request'[e].at \in Fresh)
                      /\ request'[d].at # "insert"
    BY DEF ClientsApart
  <2>1. CASE d # c /\ e # c
    BY <1>1, <2>1 DEF WInv, ClientsApart
  <2>2. CASE d = c \/ e = c
    BY <1>1, <2>2
  <2> QED BY <2>1, <2>2
<1>6. FlowsSound'
  BY TypesFacts DEF WInv, FlowsSound
<1>7. ClosedIsOver'
  BY DEF WInv, ClosedIsOver, Open
<1> QED BY <1>4, <1>5, <1>6, <1>7, TablesStay

-----------------------------------------------------------------------------
(* Requests.                                                               *)

\* A request is replaced, and no other is.
LEMMA ClientRequestMoves ==
    ASSUME WInv, NEW c \in Sessions, NEW r, request' = [request EXCEPT ![c] = r]
    PROVE  /\ DOMAIN request' = Sessions /\ request'[c] = r
           /\ \A d \in Sessions \ {c} : request'[d] = request[d]
  BY DEF WInv, Tables

\* A client that takes on a run that is there.
LEMMA TakeOn ==
    ASSUME WInv, NEW c \in Clients, HasActiveRun, NEW r, DOMAIN r = RequestFields,
           r.at \in {"defer", "list", "action"}, r.run = Latest, r.base = runs[Latest],
           r.at = "action" => DOMAIN r.steps \subseteq Keys /\ DOMAIN r.steps # {},
           request' = [request EXCEPT ![c] = r],
           UNCHANGED <<runs, steps, summary, disturbed, overtaken, workflow>>
    PROVE  WInv'
<1>1. /\ Latest \in RunIds /\ runs[Latest] # None /\ runs[Latest] \in Run
      /\ runs[Latest].is_active
  BY LatestFacts DEF HasActiveRun, LatestRow, Existing, WInv, Tables
<1>2. /\ DOMAIN request' = Sessions /\ request'[c] = r
      /\ \A d \in Sessions \ {c} : request'[d] = request[d]
  BY ClientRequestMoves, TypesFacts
<1>3. ClientSound(request[c])'
  BY <1>1, <1>2 DEF ClientSound, Fresh
<1>4. \A d \in Clients : request[d] # None /\ request[d].run = Latest =>
                           request[d].at # "insert"
  BY <1>1 DEF WInv, RequestsKnow, ClientSound
<1> QED BY <1>1, <1>2, <1>3, <1>4, ClientReads DEF WInv, FlowsSound, Fresh

\* A start that is asked for, of the run there is or of one to insert.
LEMMA StartKeeps ==
    ASSUME WInv, NEW c \in Clients, NEW deferred \in BOOLEAN, StartBegin(c, deferred),
           UNCHANGED workflow
    PROVE  WInv'
<1>1. CASE HasActiveRun
  <2> DEFINE r == [at |-> IF deferred THEN "defer" ELSE "list", run |-> Latest,
                   deferred |-> deferred, base |-> runs[Latest],
                   held |-> NoSteps, steps |-> NoSteps]
  <2>1. request' = [request EXCEPT ![c] = r]
        /\ UNCHANGED <<runs, steps, summary, disturbed, overtaken>>
    BY <1>1 DEF StartBegin
  <2>2. /\ DOMAIN r = RequestFields /\ r.at \in {"defer", "list"}
        /\ r.run = Latest /\ r.base = runs[Latest]
    BY DEF RequestFields
  <2> HIDE DEF r
  <2> QED BY <1>1, <2>1, <2>2, TakeOn
<1>2. CASE ~HasActiveRun
  <2> DEFINE r == [at |-> "insert", run |-> NextRun, deferred |-> deferred,
                   base |-> LatestRow, held |-> NoSteps, steps |-> NoSteps]
  <2>1. NextRun \in RunIds /\ request' = [request EXCEPT ![c] = r]
        /\ UNCHANGED <<runs, steps, summary, disturbed, overtaken>>
    BY <1>2 DEF StartBegin
  <2>2. /\ DOMAIN r = RequestFields /\ r.at = "insert" /\ r.run = NextRun
    BY DEF RequestFields
  <2> HIDE DEF r
  <2>3. /\ DOMAIN request' = Sessions /\ request'[c] = r
        /\ \A d \in Sessions \ {c} : request'[d] = request[d]
    BY <2>1, ClientRequestMoves, TypesFacts
  <2>4. \A d \in Sessions : request[d] # None => request[d].run \in RunIds
    BY TypesFacts DEF WInv, RequestsKnow, ClientSound, WorkerSound
  <2>5. \A q \in Constructed : q # NextRun
    BY <2>1, <2>4, NextRunFacts
  <2>6. /\ runs[NextRun] = None
        /\ \A d \in Sessions : request[d] # None => request[d].run # NextRun
    BY <2>1, <2>5 DEF Constructed, Existing
  <2>7. ClientSound(request[c])'
    BY <2>1, <2>2, <2>3, <2>6 DEF ClientSound, Fresh
  <2>8. \A d \in Clients : d \in Sessions
    BY TypesFacts
  <2> QED BY <2>1, <2>2, <2>3, <2>6, <2>7, <2>8, ClientReads DEF WInv, FlowsSound, Fresh
<1> QED BY <1>1, <1>2

\* An answer that is sent.
LEMMA AnsweringKeeps ==
    ASSUME WInv, NEW c \in Clients, NEW k \in Keys, NEW answered, Answering(c, k, answered),
           UNCHANGED workflow
    PROVE  WInv'
<1> DEFINE r == [at |-> "action", run |-> Latest, deferred |-> FALSE,
                 base |-> runs[Latest], held |-> [j \in {k} |-> steps[Latest][k]],
                 steps |-> [j \in {k} |-> answered]]
<1>1. /\ HasActiveRun /\ request' = [request EXCEPT ![c] = r]
      /\ UNCHANGED <<runs, steps, summary, disturbed, overtaken>>
  BY DEF Answering
<1>2. /\ DOMAIN r = RequestFields /\ r.at = "action"
      /\ r.run = Latest /\ r.base = runs[Latest] /\ DOMAIN r.steps = {k}
  BY DEF RequestFields
<1> HIDE DEF r
<1> QED BY <1>1, <1>2, TakeOn

\* Whatever a client begins.
LEMMA BeginKeeps ==
    ASSUME WInv, NEW c \in Clients, Begin(c)
    PROVE  WInv'
<1>1. UNCHANGED workflow
  BY DEF Begin
<1>2. CASE \E deferred \in BOOLEAN : StartBegin(c, deferred)
  BY <1>1, <1>2, StartKeeps
<1>3. CASE \E k \in Keys, right \in BOOLEAN : ActionBegin(c, k, right)
  BY <1>1, <1>3, AnsweringKeeps DEF ActionBegin
<1>4. CASE \E k \in Keys : Answering(c, k, steps[Latest][k])
  BY <1>1, <1>4, AnsweringKeeps
<1> QED BY <1>2, <1>3, <1>4 DEF Begin

\* A client that goes on without changing a row, or is done.
LEMMA ClientGoesOn ==
    ASSUME WInv, NEW c \in Clients, request[c] # None, NEW r,
           request' = [request EXCEPT ![c] = r],
           UNCHANGED <<runs, steps, summary, disturbed, overtaken>>,
           r # None => /\ DOMAIN r = RequestFields /\ r.run = request[c].run
                       /\ request[c].at \in {"list", "action"}
                       /\ r.at \in {"list", "action", "signal"}
                       /\ r.at \in {"action", "signal"} => DOMAIN r.steps \subseteq Keys
                                                            /\ DOMAIN r.steps # {},
           DOMAIN workflow' = RunIds,
           \A q \in RunIds :
               \/ workflow'[q] = workflow[q]
               \/ /\ runs[q] # None /\ IsFlow(workflow'[q])
                  /\ IF Open(q) THEN workflow'[q].at = workflow[q].at
                                ELSE workflow'[q].at = "advance"
    PROVE  WInv'
<1>1. /\ DOMAIN request' = Sessions /\ request'[c] = r
      /\ \A d \in Sessions \ {c} : request'[d] = request[d]
  BY ClientRequestMoves, TypesFacts
<1>2. request'[c] # None => ClientSound(request[c])'
  <2>1. ClientSound(request[c])
    BY DEF WInv, RequestsKnow
  <2> QED BY <1>1, <2>1 DEF ClientSound, Fresh
<1>3. \A d \in Clients \ {c} :
        (r # None /\ request[d] # None /\ request[d].run = r.run) =>
            request[d].at # "insert"
  BY DEF WInv, RequestsKnow, ClientSound
<1> QED BY <1>1, <1>2, <1>3, ClientReads DEF Fresh

\* A request of a client dies.
LEMMA CrashKeeps ==
    ASSUME WInv, NEW c \in Clients, Crash(c), UNCHANGED workflow
    PROVE  WInv'
  BY ClientGoesOn DEF Crash, Close, WInv, FlowsSound

\* A workflow is started, or found.
LEMMA LaunchKeeps ==
    ASSUME WInv, NEW c \in Clients, Launch(c)
    PROVE  WInv'
<1> DEFINE q == request[c].run
           on == [request[c] EXCEPT !.base = runs[q]]
<1>1. /\ request[c] # None /\ request[c].at \in {"list", "action"}
      /\ UNCHANGED <<runs, steps, summary, disturbed, overtaken>>
      /\ workflow' = IF Open(q) THEN workflow ELSE [workflow EXCEPT ![q] = NewWorkflow]
      /\ \/ request' = [request EXCEPT ![c] = on]
         \/ request' = [request EXCEPT ![c] = None]
  BY DEF Launch, Dispatching, Close
<1>2. /\ DOMAIN request[c] = RequestFields /\ q \in RunIds /\ runs[q] # None
      /\ request[c].at = "action" =>
           DOMAIN request[c].steps \subseteq Keys /\ DOMAIN request[c].steps # {}
  BY <1>1 DEF WInv, RequestsKnow, ClientSound
<1>3. NewWorkflow.at = "advance" /\ IsFlow(NewWorkflow)
  BY WorkflowConstantsOK DEF NewWorkflow, IsFlow, IsWorkflow, Execution, WorkflowPlaces
<1>4. DOMAIN workflow' = RunIds
  BY <1>1 DEF WInv, FlowsSound
<1>5. \A p \in RunIds :
        \/ workflow'[p] = workflow[p]
        \/ runs[p] # None /\ ~Open(p) /\ workflow'[p] = NewWorkflow
  BY <1>1, <1>2 DEF WInv, FlowsSound
<1>6. \A p \in RunIds :
        \/ workflow'[p] = workflow[p]
        \/ /\ runs[p] # None /\ IsFlow(workflow'[p])
           /\ IF Open(p) THEN workflow'[p].at = workflow[p].at
                         ELSE workflow'[p].at = "advance"
  BY <1>3, <1>5
<1>7. /\ DOMAIN on = RequestFields /\ on.run = q /\ on.at = request[c].at
      /\ on.at = "action" => DOMAIN on.steps \subseteq Keys /\ DOMAIN on.steps # {}
  BY <1>1, <1>2 DEF RequestFields
<1> HIDE DEF on
<1> QED BY <1>1, <1>2, <1>4, <1>6, <1>7, ClientGoesOn

\* A workflow that is open is told to go on.
LEMMA ResumeKeeps ==
    ASSUME WInv, NEW c \in Clients, Resume(c)
    PROVE  WInv'
<1> DEFINE q == request[c].run
           on == [request[c] EXCEPT !.at = "signal"]
<1>1. /\ request[c] # None /\ request[c].at \in {"list", "action"}
      /\ UNCHANGED <<runs, steps, summary, disturbed, overtaken>>
      /\ \/ Open(q) /\ workflow' = [workflow EXCEPT ![q].resume = TRUE]
         \/ workflow' = workflow
      /\ \/ request[c].at = "action" /\ request' = [request EXCEPT ![c] = on]
         \/ request' = [request EXCEPT ![c] = None]
  BY DEF Resume, Dispatching, Close, Goto
<1>2. /\ DOMAIN request[c] = RequestFields /\ q \in RunIds
      /\ request[c].at = "action" =>
           DOMAIN request[c].steps \subseteq Keys /\ DOMAIN request[c].steps # {}
  BY <1>1 DEF WInv, RequestsKnow, ClientSound
<1>3. DOMAIN workflow' = RunIds
  BY <1>1 DEF WInv, FlowsSound
<1>4. \A p \in RunIds : \/ workflow'[p] = workflow[p]
                        \/ Open(p) /\ workflow'[p] = [workflow[p] EXCEPT !.resume = TRUE]
  BY <1>1, <1>2 DEF WInv, FlowsSound
<1>5. ASSUME NEW p \in RunIds, Open(p)
      PROVE  LET new == [workflow[p] EXCEPT !.resume = TRUE] IN
             /\ runs[p] # None /\ IsFlow(new) /\ new.at = workflow[p].at
  BY <1>5 DEF WInv, FlowsSound, Open, IsFlow, IsWorkflow, Execution
<1>6. /\ DOMAIN on = RequestFields /\ on.run = q /\ on.at = "signal"
      /\ on.steps = request[c].steps
  BY <1>2 DEF RequestFields
<1> HIDE DEF on
<1>7. \A p \in RunIds :
        \/ workflow'[p] = workflow[p]
        \/ /\ runs[p] # None /\ IsFlow(workflow'[p])
           /\ IF Open(p) THEN workflow'[p].at = workflow[p].at
                         ELSE workflow'[p].at = "advance"
  BY <1>4, <1>5
<1>8. CASE request[c].at = "action" /\ request' = [request EXCEPT ![c] = on]
  BY <1>1, <1>2, <1>3, <1>6, <1>7, <1>8, ClientGoesOn
<1>9. CASE request' = [request EXCEPT ![c] = None]
  BY <1>1, <1>3, <1>7, <1>9, ClientGoesOn
<1> QED BY <1>1, <1>8, <1>9

\* The signal: a workflow that is open has one more answer, behind those it has.
LEMMA AnswerAdded ==
    ASSUME WInv, NEW c \in Clients, SubmitAction(c), NEW p \in RunIds
    PROVE  \/ workflow'[p] = workflow[p]
           \/ /\ Open(p) /\ workflow[p] # None /\ runs[p] # None
              /\ IsFlow(workflow'[p]) /\ workflow'[p] # None
              /\ workflow'[p].at = workflow[p].at /\ workflow'[p].by = workflow[p].by
              /\ workflow[p].at \in {"apply", "applied"} =>
                   Head(workflow'[p].actions) = Head(workflow[p].actions)
<1> DEFINE q == request[c].run
           k == CHOOSE j \in DOMAIN request[c].steps : TRUE
           answer == [step |-> k, code |-> CodeIn(request[c], k)]
           new == [workflow[p] EXCEPT !.actions = Append(@, answer)]
<1>1. /\ request[c] # None /\ request[c].at = "signal"
      /\ \/ /\ Open(q) /\ Len(workflow[q].actions) < MaxSignals
            /\ workflow' = [workflow EXCEPT ![q].actions = Append(@, answer)]
         \/ workflow' = workflow
  BY DEF SubmitAction
<1>2. /\ q \in RunIds /\ DOMAIN request[c].steps \subseteq Keys
      /\ DOMAIN request[c].steps # {}
  BY <1>1 DEF WInv, RequestsKnow, ClientSound
<1>3. answer \in Answer
  <2>1. k \in Keys
    BY <1>2
  <2> HIDE DEF k
  <2> QED BY <2>1 DEF Answer, CodeIn
<1> HIDE DEF answer
<1>4. \/ workflow'[p] = workflow[p]
      \/ Open(p) /\ Len(workflow[p].actions) < MaxSignals /\ workflow'[p] = new
  BY <1>1, <1>2 DEF WInv, FlowsSound
<1>5. ASSUME Open(p), Len(workflow[p].actions) < MaxSignals
      PROVE  /\ runs[p] # None /\ workflow[p] # None /\ IsFlow(new)
             /\ new.at = workflow[p].at /\ new.by = workflow[p].by
             /\ workflow[p].at \in {"apply", "applied"} =>
                  Head(new.actions) = Head(workflow[p].actions)
  <2>1. /\ runs[p] # None /\ workflow[p] # None /\ workflow[p] \in Execution
        /\ workflow[p].at \in {"apply", "applied"} => workflow[p].actions # <<>>
    BY <1>5 DEF WInv, FlowsSound, Open, IsFlow, IsWorkflow
  <2> DEFINE s == workflow[p].actions
             more == Append(s, answer)
  <2>2. s \in Seq(Answer) /\ Len(s) < MaxSignals
    BY <1>5, <2>1 DEF Execution
  <2> HIDE DEF s
  <2>3. /\ more \in Seq(Answer) /\ Len(more) = Len(s) + 1 /\ more # <<>>
        /\ s # <<>> => Head(more) = Head(s)
    BY <1>3, <2>2
  <2>4. Len(more) <= MaxSignals
    BY <2>2, <2>3, WorkflowConstantsOK
  <2>5. new = [workflow[p] EXCEPT !.actions = more]
    BY DEF s
  <2> HIDE DEF more
  <2>6. /\ new \in Execution /\ new.actions = more /\ new.at = workflow[p].at
        /\ new.by = workflow[p].by
    BY <2>1, <2>3, <2>5 DEF Execution
  <2> HIDE DEF new
  <2> QED BY <2>1, <2>3, <2>4, <2>6 DEF IsFlow, IsWorkflow, s
<1> HIDE DEF new
<1> QED BY <1>4, <1>5, TypesFacts

\* So the invariant stays.
LEMMA SubmitActionKeeps ==
    ASSUME WInv, NEW c \in Clients, SubmitAction(c)
    PROVE  WInv'
<1>1. /\ request[c] # None
      /\ UNCHANGED <<runs, steps, summary, disturbed, overtaken>>
      /\ request' = [request EXCEPT ![c] = None]
  BY DEF SubmitAction, Close
<1>2. DOMAIN workflow' = RunIds
  BY DEF SubmitAction, WInv, FlowsSound
<1>3. \A p \in RunIds :
        \/ workflow'[p] = workflow[p]
        \/ /\ runs[p] # None /\ IsFlow(workflow'[p])
           /\ IF Open(p) THEN workflow'[p].at = workflow[p].at
                         ELSE workflow'[p].at = "advance"
  BY AnswerAdded
<1> QED BY <1>1, <1>2, <1>3, ClientGoesOn

-----------------------------------------------------------------------------
(* The workflow.                                                           *)

\* A step of the workflow of run r, which waits for no attempt.
LEMMA FlowMoves ==
    ASSUME WInv, NEW r \in RunIds, workflow[r] # None,
           workflow[r].at \in {"wait", "applied", "advanced"},
           UNCHANGED <<vars, knows>>, NEW w,
           workflow' = [workflow EXCEPT ![r] = w], IsFlow(w),
           w.at = "closed" => ~runs[r].is_active
    PROVE  WInv'
<1>1. /\ runs' = runs /\ steps' = steps /\ disturbed' = disturbed /\ request' = request
  BY DEF vars
<1>2. /\ DOMAIN workflow' = RunIds /\ workflow'[r] = w
      /\ \A p \in RunIds \ {r} : workflow'[p] = workflow[p]
      /\ runs[r] # None
  BY DEF WInv, FlowsSound
<1>3. ASSUME NEW v \in Workers, request[v] # None PROVE WorkerSound(request[v])'
  <2>1. WorkerSound(request[v])
    BY <1>3 DEF WInv, RequestsKnow
  <2>2. request[v].run # r /\ request[v].run \in RunIds
    BY <2>1 DEF WorkerSound
  <2> QED BY <1>1, <1>2, <2>1, <2>2 DEF WorkerSound
<1>4. \A c \in Clients : request[c] # None => ClientSound(request[c])'
  BY <1>1 DEF WInv, RequestsKnow, ClientSound
<1>5. RequestsKnow'
  BY <1>1, <1>3, <1>4 DEF RequestsKnow
<1>6. ClientsApart'
  BY <1>1 DEF WInv, ClientsApart
<1>7. FlowsSound'
  BY <1>1, <1>2 DEF WInv, FlowsSound
<1>8. ClosedIsOver'
  BY <1>1, <1>2 DEF WInv, ClosedIsOver
<1>9. DOMAIN request' = Sessions
  BY <1>1 DEF WInv, Tables
<1> QED BY <1>1, <1>5, <1>6, <1>7, <1>8, <1>9, TablesStay

\* What the workflow does by itself.
LEMMA FlowKeeps ==
    ASSUME WInv, NEW r \in RunIds, Wake(r) \/ Applied(r) \/ Advanced(r) \/ ResultLost(r)
    PROVE  WInv'
<1> DEFINE w == workflow[r]
<1>1. w # None
  BY DEF Wake, Applied, Advanced, ResultLost
<1>2. /\ w \in Execution /\ Len(w.actions) <= MaxSignals /\ w.actions \in Seq(Answer)
      /\ w.at \in {"apply", "applied"} => w.actions # <<>>
  BY <1>1 DEF WInv, FlowsSound, IsFlow, IsWorkflow, Execution
<1>3. CASE Wake(r)
  <2> DEFINE new == IF w.actions # <<>> THEN [w EXCEPT !.at = "apply"]
                    ELSE [w EXCEPT !.at = "advance", !.resume = FALSE]
  <2>1. /\ w.at = "wait" /\ workflow' = [workflow EXCEPT ![r] = new]
        /\ UNCHANGED <<vars, knows>>
    BY <1>3 DEF Wake
  <2>2. IsFlow(new) /\ new.at # "closed"
    BY <1>2 DEF IsFlow, IsWorkflow, Execution, WorkflowPlaces
  <2> HIDE DEF new
  <2> QED BY <1>1, <2>1, <2>2, FlowMoves
<1>4. CASE Applied(r)
  <2> DEFINE left == Tail(w.actions)
             new == IF left # <<>>
                      THEN [w EXCEPT !.at = "apply", !.by = None, !.actions = left]
                      ELSE [w EXCEPT !.at = "advance", !.by = None, !.actions = left,
                                     !.resume = FALSE]
  <2>1. /\ w.at = "applied" /\ workflow' = [workflow EXCEPT ![r] = new]
        /\ UNCHANGED <<vars, knows>>
    BY <1>4 DEF Applied
  <2>2. left \in Seq(Answer) /\ Len(left) <= MaxSignals
    BY <1>2, <2>1, WorkflowConstantsOK
  <2> HIDE DEF left
  <2>3. IsFlow(new) /\ new.at # "closed"
    BY <1>2, <2>2 DEF IsFlow, IsWorkflow, Execution, WorkflowPlaces
  <2> HIDE DEF new
  <2> QED BY <1>1, <2>1, <2>3, FlowMoves
<1>5. CASE Advanced(r)
  <2> DEFINE new == [w EXCEPT !.by = None,
                      !.at = IF runs[r].is_active THEN "wait" ELSE "closed"]
  <2>1. /\ w.at = "advanced" /\ workflow' = [workflow EXCEPT ![r] = new]
        /\ UNCHANGED <<vars, knows>>
    BY <1>5 DEF Advanced
  <2>2. IsFlow(new) /\ (new.at = "closed" => ~runs[r].is_active)
    BY <1>2 DEF IsFlow, IsWorkflow, Execution, WorkflowPlaces
  <2> HIDE DEF new
  <2> QED BY <1>1, <2>1, <2>2, FlowMoves
<1>6. CASE ResultLost(r)
  <2> DEFINE new == [w EXCEPT !.by = None,
                      !.at = IF w.at = "applied" THEN "apply" ELSE "advance"]
  <2>1. /\ w.at \in {"advanced", "applied"} /\ workflow' = [workflow EXCEPT ![r] = new]
        /\ UNCHANGED <<vars, knows>>
    BY <1>6 DEF ResultLost
  <2>2. IsFlow(new) /\ new.at # "closed"
    BY <1>2 DEF IsFlow, IsWorkflow, Execution, WorkflowPlaces
  <2> HIDE DEF new
  <2> QED BY <1>1, <2>1, <2>2, FlowMoves
<1> QED BY <1>3, <1>4, <1>5, <1>6

-----------------------------------------------------------------------------
(* The commits of requests.                                                *)

\* A request that went by what the tables say, if none was disturbed so far.
LEMMA CalmKnows ==
    ASSUME NEW c \in Sessions, Observe(c)
    PROVE  /\ disturbed => disturbed'
           /\ (~disturbed' /\ request[c].at # "insert") =>
                runs[request[c].run] = request[c].base
           /\ (~disturbed' /\ request[c].at = "list") =>
                steps[request[c].run] # NoSteps
  BY DEF Observe, Outdated

\* What is left to show of a commit of a client to the run q.
LEMMA ClientCommits ==
    ASSUME WInv, NEW c \in Clients, request[c] # None, NEW q, q = request[c].run,
           UNCHANGED workflow, Observe(c), DOMAIN request' = Sessions,
           \A d \in Sessions \ {c} : request'[d] = request[d],
           request'[c] # None => /\ ClientSound(request[c])' /\ request'[c].run = q
                                 /\ request'[c].at # "insert"
                                 /\ request'[c].at \in Fresh => request[c].at = "insert",
           runs' \in [RunIds -> Run \cup {None}], runs'[q] # None,
           \A p \in RunIds \ {q} : runs'[p] = runs[p] /\ steps'[p] = steps[p],
           DOMAIN steps' = RunIds,
           \/ steps'[q] = steps[q]
           \/ /\ DOMAIN steps[q] = {} /\ steps'[q] = NewSteps
              /\ request[c].at \in Fresh,
           \/ request[c].at = "insert"
           \/ runs[q] # None /\ runs'[q].is_active = runs[q].is_active,
           ~disturbed' => runs'[q].is_active
    PROVE  WInv'
<1>1. /\ c \notin Workers /\ Clients \subseteq Sessions /\ Workers \subseteq Sessions
      /\ c \in Sessions
  BY TypesFacts
<1>2. /\ q \in RunIds /\ ClientSound(request[c])
      /\ request[c].at = "insert" <=> runs[q] = None
  BY DEF WInv, RequestsKnow, ClientSound
<1>3. disturbed => disturbed'
  BY <1>1, CalmKnows
<1>4. ASSUME NEW d \in Clients, request'[d] # None PROVE ClientSound(request[d])'
  <2>1. CASE d = c
    BY <1>4, <2>1
  <2>2. CASE d # c
    <3>1. request'[d] = request[d] /\ request[d] # None /\ ClientSound(request[d])
          /\ request[d].run \in RunIds
      BY <1>1, <1>4, <2>2 DEF WInv, RequestsKnow, ClientSound
    <3>2. CASE request[d].run # q
      <4>1. /\ runs'[request[d].run] = runs[request[d].run]
            /\ steps'[request[d].run] = steps[request[d].run]
        BY <3>1, <3>2
      <4> QED BY <1>3, <3>1, <4>1, ClientStays DEF ClientSound
    <3>3. CASE request[d].run = q
      <4>1. request[c].at # "insert" /\ request[d].at # "insert"
            /\ ~(request[c].at \in Fresh /\ request[d].at \in Fresh)
        BY <2>2, <3>1, <3>3 DEF WInv, ClientsApart
      <4>2. runs[q] # None /\ (request[d].at \in Fresh => DOMAIN steps'[q] = {})
        BY <1>2, <3>1, <3>3, <4>1 DEF ClientSound
      <4> QED BY <1>3, <3>1, <3>3, <4>2, ClientStays
    <3> QED BY <3>2, <3>3
  <2> QED BY <2>1, <2>2
<1>5. ASSUME NEW v \in Workers, request'[v] # None PROVE WorkerSound(request[v])'
  <2>1. request'[v] = request[v] /\ request[v] # None /\ WorkerSound(request[v])
    BY <1>1, <1>5 DEF WInv, RequestsKnow
  <2> DEFINE p == request[v].run
  <2>2. p \in RunIds /\ runs[p] # None /\ workflow[p] # None
    BY <2>1 DEF WorkerSound
  <2>3. runs'[p] # None
    BY <2>2
  <2>4. \A k \in DOMAIN steps[p] : k \in DOMAIN steps'[p] /\ steps'[p][k] = steps[p][k]
    BY <2>2
  <2> HIDE DEF p
  <2> QED BY <1>3, <2>1, <2>2, <2>3, <2>4, WorkerStays DEF p
<1>6. ClientsApart'
  <2> SUFFICES ASSUME NEW d \in Clients, NEW e \in Clients, d # e,
                      request'[d] # None, request'[e] # None,
                      request'[d].run = request'[e].run
               PROVE  /\ ~(request'[d].at \in Fresh /\ request'[e].at \in Fresh)
                      /\ request'[d].at # "insert"
    BY DEF ClientsApart
  <2>1. CASE d # c /\ e # c
    BY <1>1, <2>1 DEF WInv, ClientsApart
  <2>2. CASE d = c
    <3>1. request'[e] = request[e] /\ request[e] # None /\ request[e].run = request[c].run
      BY <1>1, <2>2
    <3>2. request[c].at # "insert"
      BY <2>2, <3>1 DEF WInv, ClientsApart
    <3> QED BY <2>2, <3>2
  <2>3. CASE e = c
    <3>1. request'[d] = request[d] /\ request[d] # None /\ request[d].run = request[c].run
      BY <1>1, <2>3
    <3>2. request[c].at # "insert" /\ request[d].at # "insert"
      BY <2>3, <3>1 DEF WInv, ClientsApart
    <3> QED BY <2>3, <3>1, <3>2
  <2> QED BY <2>1, <2>2, <2>3
<1>7. FlowsSound'
  BY <1>2 DEF WInv, FlowsSound
<1>8. ClosedIsOver'
  <2> SUFFICES ASSUME NEW p \in RunIds, workflow[p] # None, workflow[p].at = "closed"
               PROVE  ~runs'[p].is_active
    BY DEF ClosedIsOver
  <2>1. ~runs[p].is_active /\ runs[p] # None
    BY DEF WInv, ClosedIsOver, FlowsSound
  <2> QED BY <1>2, <2>1
<1>9. Tables'
  BY <1>2, NewStepsFacts DEF WInv, Tables
<1>10. AllCounted'
  <2> SUFFICES ASSUME NEW p \in RunIds, NEW k \in DOMAIN steps'[p]
               PROVE  Counted(k, steps'[p][k])
    BY DEF AllCounted, Counted
  <2>1. CASE steps'[p] = steps[p]
    BY <2>1 DEF WInv, AllCounted
  <2>2. CASE steps'[p] = NewSteps
    <3>1. k \in Keys /\ steps'[p][k] = [status |-> "pending", outcome |-> None, attempts |-> 0]
      BY <2>2 DEF NewSteps
    <3>2. MaxAttempts[k] \in Nat
      BY <3>1, EngineConstantsOK
    <3> QED BY <3>1, <3>2 DEF Counted
  <2> QED BY <2>1, <2>2
<1>11. OverIsDecided'
  <2> SUFFICES ASSUME ~disturbed', NEW p \in RunIds, runs'[p] # None, ~runs'[p].is_active
               PROVE  /\ DOMAIN steps'[p] # {} /\ \A k \in Keys : Finished(k, steps'[p])
                      /\ runs'[p] = DecidedRun(steps'[p])
    BY DEF OverIsDecided, Existing
  <2>1. p # q /\ ~disturbed
    BY <1>3
  <2>2. runs'[p] = runs[p] /\ steps'[p] = steps[p]
    BY <2>1
  <2> QED BY <2>1, <2>2 DEF WInv, OverIsDecided, Existing
<1> QED BY <1>4, <1>5, <1>6, <1>7, <1>8, <1>9, <1>10, <1>11 DEF WInv, RequestsKnow

\* The run is inserted: it has no steps, no workflow and no other client.
LEMMA InsertKeeps ==
    ASSUME WInv, NEW c \in Clients, InsertRun(c), UNCHANGED workflow
    PROVE  WInv'
<1> DEFINE q == request[c].run
           on == [request[c] EXCEPT !.at = "refresh", !.base = NewRun]
<1>1. /\ request[c] # None /\ request[c].at = "insert"
      /\ runs' = [runs EXCEPT ![q] = NewRun] /\ request' = [request EXCEPT ![c] = on]
      /\ Observe(c) /\ UNCHANGED <<steps, summary, overtaken>>
  BY DEF InsertRun
<1>2. /\ DOMAIN request[c] = RequestFields /\ q \in RunIds /\ runs[q] = None
      /\ DOMAIN steps[q] = {}
  BY <1>1 DEF WInv, RequestsKnow, ClientSound, Tables
<1>3. DOMAIN on = RequestFields /\ on.run = q /\ on.at = "refresh" /\ on.base = NewRun
  BY <1>2 DEF RequestFields
<1> HIDE DEF on
<1>4. /\ DOMAIN request' = Sessions /\ request'[c] = on
      /\ \A d \in Sessions \ {c} : request'[d] = request[d]
  BY <1>1, ClientRequestMoves, TypesFacts
<1>5. /\ runs' \in [RunIds -> Run \cup {None}] /\ runs'[q] = NewRun /\ DOMAIN steps' = RunIds
      /\ \A p \in RunIds \ {q} : runs'[p] = runs[p] /\ steps'[p] = steps[p]
  BY <1>1, <1>2, NewRunFacts DEF WInv, Tables
<1>6. NewRun.is_active
  BY DEF NewRun
<1>7. ClientSound(request[c])'
  BY <1>1, <1>2, <1>3, <1>4, <1>5, <1>6, NewRunFacts DEF ClientSound, Fresh
<1> HIDE DEF q
<1> QED BY <1>1, <1>3, <1>4, <1>5, <1>6, <1>7, NewRunFacts, ClientCommits DEF q

\* The run is read back.  It is active as long as nobody was disturbed, for it has
\* no steps yet.
LEMMA ReadBackKeeps ==
    ASSUME WInv, NEW c \in Clients, ReadBack(c)
    PROVE  WInv'
<1> DEFINE q == request[c].run
           on == [request[c] EXCEPT !.at = "init", !.base = runs[q]]
<1>1. /\ request[c] # None /\ request[c].at = "refresh"
      /\ request' = [request EXCEPT ![c] = on]
      /\ UNCHANGED <<runs, steps, disturbed, workflow>>
  BY DEF ReadBack, RefreshRun
<1>2. /\ DOMAIN request[c] = RequestFields /\ q \in RunIds /\ runs[q] # None
      /\ runs[q] \in Run /\ DOMAIN steps[q] = {}
  BY <1>1 DEF WInv, RequestsKnow, ClientSound, Tables, Fresh
<1>3. DOMAIN on = RequestFields /\ on.run = q /\ on.at = "init" /\ on.base = runs[q]
  BY <1>2 DEF RequestFields
<1> HIDE DEF on
<1>4. /\ DOMAIN request' = Sessions /\ request'[c] = on
      /\ \A d \in Sessions \ {c} : request'[d] = request[d]
  BY <1>1, ClientRequestMoves, TypesFacts
<1>5. ~disturbed => runs[q].is_active
  BY <1>2 DEF WInv, OverIsDecided, Existing
<1>6. ClientSound(request[c])'
  BY <1>1, <1>2, <1>3, <1>4, <1>5 DEF ClientSound
<1>7. \A d \in Clients \ {c} :
        (request[d] # None /\ request[d].run = q) =>
            request[d].at # "insert" /\ request[d].at \notin Fresh
  BY <1>1 DEF WInv, ClientsApart, Fresh
<1> QED BY <1>1, <1>3, <1>4, <1>6, <1>7, ClientReads DEF WInv, FlowsSound

\* The steps are inserted: none has begun, and no attempt held any.
LEMMA InitializeKeeps ==
    ASSUME WInv, NEW c \in Clients, InitializeSteps(c), UNCHANGED workflow
    PROVE  WInv'
<1> DEFINE q == request[c].run
           on == [request[c] EXCEPT !.at = IF request[c].deferred THEN "defer" ELSE "list"]
<1>1. /\ request[c] # None /\ request[c].at = "init"
      /\ steps' = [steps EXCEPT ![q] = NewSteps] /\ request' = [request EXCEPT ![c] = on]
      /\ Observe(c) /\ UNCHANGED <<runs, summary, overtaken>>
  BY DEF InitializeSteps, Goto
<1>2. /\ DOMAIN request[c] = RequestFields /\ q \in RunIds /\ runs[q] # None
      /\ DOMAIN steps[q] = {} /\ request[c].base \in Run
      /\ ~disturbed => request[c].base.is_active
  <2>1. ClientSound(request[c])
    BY <1>1 DEF WInv, RequestsKnow
  <2>2. /\ DOMAIN request[c] = RequestFields /\ q \in RunIds /\ runs[q] # None
        /\ DOMAIN steps[q] = {}
    BY <1>1, <2>1 DEF ClientSound, Fresh
  <2> QED BY <1>1, <2>2, ClientWrites
<1>3. /\ DOMAIN on = RequestFields /\ on.run = q /\ on.at \in {"defer", "list"}
      /\ on.base = request[c].base
  BY <1>2 DEF RequestFields
<1> HIDE DEF on
<1>4. /\ DOMAIN request' = Sessions /\ request'[c] = on
      /\ \A d \in Sessions \ {c} : request'[d] = request[d]
  BY <1>1, ClientRequestMoves, TypesFacts
<1>5. /\ runs' \in [RunIds -> Run \cup {None}] /\ runs'[q] = runs[q]
      /\ DOMAIN steps' = RunIds /\ steps'[q] = NewSteps
      /\ \A p \in RunIds \ {q} : runs'[p] = runs[p] /\ steps'[p] = steps[p]
  BY <1>1, <1>2 DEF WInv, Tables
<1>6. ~disturbed' => runs[q].is_active
  BY <1>1, <1>2, CalmKnows, TypesFacts
<1>7. ClientSound(request[c])'
  BY <1>1, <1>2, <1>3, <1>4, <1>5, CalmKnows, TypesFacts DEF ClientSound, Fresh
<1> HIDE DEF q
<1> QED BY <1>1, <1>2, <1>3, <1>4, <1>5, <1>6, <1>7, ClientCommits DEF q, Fresh

\* The run waits for its answers to be handed in.
LEMMA DeferKeeps ==
    ASSUME WInv, NEW c \in Clients, Defer(c), UNCHANGED workflow
    PROVE  WInv'
<1> DEFINE q == request[c].run
           base == request[c].base
           mine == [base EXCEPT !.status = "pending", !.current = None]
           row == Flush(runs[q], base, mine)
<1>1. /\ request[c] # None /\ request[c].at = "defer"
      /\ runs' = [runs EXCEPT ![q] = row] /\ request' = [request EXCEPT ![c] = None]
      /\ Observe(c) /\ UNCHANGED <<steps, summary, overtaken>>
  BY DEF Defer, Close
<1>2. /\ q \in RunIds /\ runs[q] # None /\ runs[q] \in Run
      /\ base \in Run /\ (~disturbed => base.is_active)
  <2>1. ClientSound(request[c])
    BY <1>1 DEF WInv, RequestsKnow
  <2>2. q \in RunIds /\ runs[q] # None /\ runs[q] \in Run
    BY <1>1, <2>1 DEF ClientSound, WInv, Tables
  <2> QED BY <1>1, <2>2, ClientWrites
<1>3. mine \in Run /\ mine.is_active = base.is_active /\ mine.decision = base.decision
  BY <1>2 DEF Run, RunStatuses
<1> HIDE DEF mine
<1>4. row \in Run /\ row.is_active = runs[q].is_active
  <2>1. runs[q] \in Run /\ base \in Run /\ mine \in Run
    BY <1>2, <1>3
  <2>2. /\ row \in Run
        /\ row.is_active = IF mine.is_active # base.is_active THEN mine.is_active
                                                              ELSE runs[q].is_active
    BY <2>1, FlushRun
  <2> QED BY <1>3, <2>2
<1> HIDE DEF row
<1>5. /\ DOMAIN request' = Sessions /\ request'[c] = None
      /\ \A d \in Sessions \ {c} : request'[d] = request[d]
  BY <1>1, ClientRequestMoves, TypesFacts
<1>6. /\ runs' \in [RunIds -> Run \cup {None}] /\ runs'[q] = row /\ runs'[q] # None
      /\ DOMAIN steps' = RunIds /\ steps'[q] = steps[q]
      /\ \A p \in RunIds \ {q} : runs'[p] = runs[p] /\ steps'[p] = steps[p]
  BY <1>1, <1>2, <1>4, TypesFacts DEF WInv, Tables
<1>7. ~disturbed' => runs[q].is_active
  BY <1>1, <1>2, CalmKnows, TypesFacts
<1> HIDE DEF q
<1> QED BY <1>1, <1>2, <1>4, <1>5, <1>6, <1>7, ClientCommits DEF q

\* What a client does before it turns to the workflow.
LEMMA PrepareKeeps ==
    ASSUME WInv, NEW c \in Clients, Prepare(c)
    PROVE  WInv'
  BY InsertKeeps, InitializeKeeps, DeferKeeps, CrashKeeps DEF Prepare, workflowVars

-----------------------------------------------------------------------------
(* Attempts at activities.                                                 *)

\* What is left to show of a step of the attempt by w at run q that writes
\* nothing but rows of q.
LEMMA WorkerCommits ==
    ASSUME WInv, NEW w \in Workers, NEW q \in RunIds, runs[q] # None,
           \A v \in Workers \ {w} :
               (request[v] # None /\ request[v].run = q) =>
                   /\ steps'[q] = steps[q] /\ workflow'[q] # None
                   /\ workflow'[q].at = workflow[q].at,
           disturbed => disturbed', DOMAIN request' = Sessions,
           \A d \in Sessions \ {w} : request'[d] = request[d],
           request'[w] # None => WorkerSound(request[w])',
           runs' \in [RunIds -> Run \cup {None}], runs'[q] # None,
           \A p \in RunIds \ {q} : /\ runs'[p] = runs[p] /\ steps'[p] = steps[p]
                                   /\ workflow'[p] = workflow[p],
           DOMAIN steps' = RunIds, IsStepTable(steps'[q]),
           DOMAIN steps'[q] = DOMAIN steps[q],
           \A k \in DOMAIN steps'[q] : Counted(k, steps'[q][k]),
           DOMAIN workflow' = RunIds, workflow'[q] # None => IsFlow(workflow'[q]),
           workflow'[q] # None => workflow'[q].at # "closed",
           (~disturbed' /\ ~runs'[q].is_active) =>
               /\ DOMAIN steps'[q] # {}
               /\ \A k \in Keys : Finished(k, steps'[q])
               /\ runs'[q] = DecidedRun(steps'[q])
    PROVE  WInv'
<1>1. w \notin Clients /\ Clients \subseteq Sessions /\ Workers \subseteq Sessions
  BY TypesFacts
<1>2. ASSUME NEW d \in Clients, request'[d] # None PROVE ClientSound(request[d])'
  <2>1. request'[d] = request[d] /\ request[d] # None /\ ClientSound(request[d])
    BY <1>1, <1>2 DEF WInv, RequestsKnow
  <2>2. /\ request[d].run \in RunIds
        /\ runs'[request[d].run] = None <=> runs[request[d].run] = None
        /\ DOMAIN steps'[request[d].run] = DOMAIN steps[request[d].run]
    BY <2>1 DEF ClientSound
  <2>3. request[d].at \in Fresh => DOMAIN steps[request[d].run] = {}
    BY <2>1 DEF ClientSound
  <2> QED BY <2>1, <2>2, <2>3, ClientStays
<1>3. ASSUME NEW v \in Workers, request'[v] # None PROVE WorkerSound(request[v])'
  <2>1. CASE v = w
    BY <1>3, <2>1
  <2>2. CASE v # w
    <3>1. request'[v] = request[v] /\ request[v] # None /\ WorkerSound(request[v])
      BY <1>1, <1>3, <2>2 DEF WInv, RequestsKnow
    <3> DEFINE p == request[v].run
    <3>2. /\ p \in RunIds /\ runs[p] # None /\ workflow[p] # None
      BY <3>1 DEF WorkerSound
    <3>3. /\ runs'[p] # None /\ steps'[p] = steps[p]
          /\ workflow'[p] # None /\ workflow'[p].at = workflow[p].at
      BY <2>2, <3>1, <3>2
    <3> HIDE DEF p
    <3> QED BY <3>1, <3>2, <3>3, WorkerStays DEF p
  <2> QED BY <2>1, <2>2
<1>4. ClientsApart'
  BY <1>1 DEF WInv, ClientsApart
<1>5. FlowsSound'
  BY DEF WInv, FlowsSound
<1>6. ClosedIsOver'
  BY DEF WInv, ClosedIsOver
<1>7. Tables'
  BY DEF WInv, Tables
<1>8. AllCounted'
  <2> SUFFICES ASSUME NEW p \in RunIds, NEW k \in DOMAIN steps'[p]
               PROVE  Counted(k, steps'[p][k])
    BY DEF AllCounted, Counted
  <2> QED BY DEF WInv, AllCounted
<1>9. OverIsDecided'
  <2> SUFFICES ASSUME ~disturbed', NEW p \in RunIds, runs'[p] # None, ~runs'[p].is_active
               PROVE  /\ DOMAIN steps'[p] # {} /\ \A k \in Keys : Finished(k, steps'[p])
                      /\ runs'[p] = DecidedRun(steps'[p])
    BY DEF OverIsDecided, Existing
  <2>1. CASE p = q
    BY <2>1
  <2>2. CASE p # q
    BY <2>2 DEF WInv, OverIsDecided, Existing
  <2> QED BY <2>1, <2>2
<1> QED BY <1>2, <1>3, <1>4, <1>5, <1>6, <1>7, <1>8, <1>9 DEF WInv, RequestsKnow

\* An attempt that only reads, or dies.
LEMMA WorkerReads ==
    ASSUME WInv, NEW w \in Workers, NEW q \in RunIds, runs[q] # None,
           UNCHANGED <<runs, steps>>, disturbed => disturbed', DOMAIN request' = Sessions,
           \A d \in Sessions \ {w} : request'[d] = request[d],
           request'[w] # None => WorkerSound(request[w])',
           \/ workflow' = workflow
           \/ /\ workflow[q] # None
              /\ workflow' = [workflow EXCEPT ![q].by = w]
    PROVE  WInv'
<1>1. \A p \in RunIds : workflow[p] # None => IsFlow(workflow[p])
  BY DEF WInv, FlowsSound
<1> DEFINE by == [workflow[q] EXCEPT !.by = w]
<1>2. workflow[q] # None => IsFlow(by) /\ by # None /\ by.at = workflow[q].at
  BY <1>1, TypesFacts DEF IsFlow, IsWorkflow, Execution
<1>3. /\ DOMAIN workflow' = RunIds
      /\ \A p \in RunIds \ {q} : workflow'[p] = workflow[p]
      /\ workflow'[q] = workflow[q] \/ (workflow[q] # None /\ workflow'[q] = by)
  BY DEF WInv, FlowsSound
<1> HIDE DEF by
<1>4. RequestsKnow'
  <2>1. ASSUME NEW d \in Clients, request'[d] # None PROVE ClientSound(request[d])'
    <3>1. request'[d] = request[d] /\ ClientSound(request[d])
      BY <2>1, TypesFacts DEF WInv, RequestsKnow
    <3> QED BY <3>1 DEF ClientSound
  <2>2. ASSUME NEW v \in Workers, request'[v] # None PROVE WorkerSound(request[v])'
    <3>1. CASE v = w
      BY <2>2, <3>1
    <3>2. CASE v # w
      <4>1. request'[v] = request[v] /\ request[v] # None /\ WorkerSound(request[v])
        BY <2>2, <3>2, TypesFacts DEF WInv, RequestsKnow
      <4> DEFINE p == request[v].run
      <4>2. p \in RunIds /\ runs[p] # None /\ workflow[p] # None
        BY <4>1 DEF WorkerSound
      <4>3. workflow'[p] # None /\ workflow'[p].at = workflow[p].at
        BY <1>2, <1>3, <4>2
      <4> HIDE DEF p
      <4> QED BY <4>1, <4>2, <4>3, WorkerStays DEF p
    <3> QED BY <3>1, <3>2
  <2> QED BY <2>1, <2>2 DEF RequestsKnow
<1>5. ClientsApart'
  BY TypesFacts DEF WInv, ClientsApart
<1>6. FlowsSound'
  BY <1>2, <1>3 DEF WInv, FlowsSound
<1>7. ClosedIsOver'
  BY <1>2, <1>3 DEF WInv, ClosedIsOver
<1> QED BY <1>4, <1>5, <1>6, <1>7, TablesStay

\* An attempt at an activity begins.
LEMMA AttemptKeeps ==
    ASSUME WInv, NEW w \in Workers, NEW r \in RunIds, Attempt(w, r)
    PROVE  WInv'
<1> DEFINE flow == workflow[r]
           answer == Head(flow.actions)
           held == IF flow.at = "advance" THEN NoSteps
                   ELSE [k \in {answer.step} |-> steps[r][k]]
           right == answer.code = "right"
           q == [at |-> IF flow.at = "advance" THEN "list" ELSE "action",
                 run |-> r, deferred |-> FALSE, base |-> runs[r], held |-> held,
                 steps |-> [k \in DOMAIN held |-> Answered(k, held[k], right)]]
<1>1. /\ flow # None /\ flow.at \in {"advance", "apply"}
      /\ flow.at = "apply" => answer.step \in Waiting(steps[r])
      /\ request' = [request EXCEPT ![w] = q]
      /\ workflow' = [workflow EXCEPT ![r].by = w]
      /\ UNCHANGED <<runs, steps, summary, disturbed, overtaken>>
  BY DEF Attempt, Applicable
<1>2. runs[r] # None /\ runs[r] \in Run /\ IsStepTable(steps[r]) /\ IsFlow(flow)
  BY <1>1 DEF WInv, FlowsSound, Tables
<1>3. /\ IsStepTable(held)
      /\ \A k \in DOMAIN held : k \in DOMAIN steps[r] /\ steps[r][k] = held[k]
      /\ flow.at = "advance" => DOMAIN held = {}
      /\ flow.at = "apply" =>
           \A k \in DOMAIN held : held[k].status = "waiting_user_action"
  BY <1>1, <1>2, NoStepsFacts DEF IsStepTable, Waiting
<1> HIDE DEF held
<1>4. right \in BOOLEAN
  OBVIOUS
<1> HIDE DEF right
<1>5. \A k \in DOMAIN held : Answered(k, held[k], right) \in Step
  BY <1>3, <1>4, AnsweredFacts DEF IsStepTable
<1>6. /\ DOMAIN q = RequestFields /\ q.run = r /\ q.base = runs[r] /\ q.held = held
      /\ q.at = IF flow.at = "advance" THEN "list" ELSE "action"
      /\ DOMAIN q.steps = DOMAIN held
      /\ \A k \in DOMAIN held : q.steps[k] = Answered(k, held[k], right)
      /\ IsStepTable(q.steps)
  BY <1>3, <1>5 DEF RequestFields, IsStepTable
<1> HIDE DEF q
<1>7. /\ DOMAIN request' = Sessions /\ request'[w] = q
      /\ \A d \in Sessions \ {w} : request'[d] = request[d]
  BY <1>1, ClientRequestMoves, TypesFacts
<1>8. workflow'[r] # None /\ workflow'[r].at = flow.at
  <2> DEFINE by == [flow EXCEPT !.by = w]
  <2>1. IsFlow(by) /\ by.at = flow.at
    BY <1>2 DEF IsFlow, IsWorkflow, Execution
  <2>2. workflow'[r] = by
    BY <1>1 DEF WInv, FlowsSound
  <2> HIDE DEF by
  <2> QED BY <2>1, <2>2, TypesFacts
<1>9. WorkerSound(request[w])'
  BY <1>1, <1>2, <1>3, <1>4, <1>6, <1>7, <1>8 DEF WorkerSound
<1> QED BY <1>1, <1>2, <1>7, <1>9, WorkerReads

\* An attempt dies.
LEMMA WorkerCrashKeeps ==
    ASSUME WInv, NEW w \in Workers, Crash(w), UNCHANGED workflow
    PROVE  WInv'
<1>1. /\ request[w] # None /\ request' = [request EXCEPT ![w] = None]
      /\ UNCHANGED <<runs, steps, summary, disturbed, overtaken>>
  BY DEF Crash, Close
<1>2. /\ DOMAIN request' = Sessions /\ request'[w] = None
      /\ \A d \in Sessions \ {w} : request'[d] = request[d]
  BY <1>1, ClientRequestMoves, TypesFacts
<1>3. request[w].run \in RunIds /\ runs[request[w].run] # None
  BY <1>1 DEF WInv, RequestsKnow, WorkerSound
<1> QED BY <1>1, <1>2, <1>3, WorkerReads

\* An attempt reads the steps it does not hold yet.
LEMMA ListKeeps ==
    ASSUME WInv, NEW w \in Workers, ListSteps(w), UNCHANGED workflow
    PROVE  WInv'
<1> DEFINE q == request[w]
           listed == [k \in DOMAIN steps[q.run] |->
                        IF k \in DOMAIN q.held THEN q.steps[k] ELSE steps[q.run][k]]
           on == [q EXCEPT !.at = "advance", !.held = listed, !.steps = listed]
<1>1. /\ q # None /\ q.at = "list" /\ request' = [request EXCEPT ![w] = on]
      /\ Observe(w) /\ UNCHANGED <<runs, steps, summary, overtaken>>
  BY DEF ListSteps
<1>2. /\ DOMAIN q = RequestFields /\ q.run \in RunIds /\ runs[q.run] # None
      /\ q.base \in Run /\ DOMAIN q.held = {}
      /\ workflow[q.run] # None /\ workflow[q.run].at = "advance"
  BY <1>1 DEF WInv, RequestsKnow, WorkerSound
<1>3. IsStepTable(steps[q.run]) /\ DOMAIN steps[q.run] \in {{}, Keys}
  BY <1>2 DEF WInv, Tables
<1>4. listed = steps[q.run]
  BY <1>2, <1>3 DEF IsStepTable
<1> HIDE DEF listed
<1>5. DOMAIN steps[q.run] = {} => steps[q.run] = NoSteps
  BY <1>3 DEF IsStepTable, NoSteps
<1>6. /\ disturbed => disturbed'
      /\ ~disturbed' => steps[q.run] # NoSteps
  BY <1>1, CalmKnows, TypesFacts
<1>7. /\ DOMAIN on = RequestFields /\ on.run = q.run /\ on.base = q.base
      /\ on.at = "advance" /\ on.held = listed /\ on.steps = listed
  BY <1>2 DEF RequestFields
<1> HIDE DEF on
<1>8. /\ DOMAIN request' = Sessions /\ request'[w] = on
      /\ \A d \in Sessions \ {w} : request'[d] = request[d]
  BY <1>1, ClientRequestMoves, TypesFacts
<1>9. WorkerSound(request[w])'
  BY <1>1, <1>2, <1>3, <1>4, <1>5, <1>6, <1>7, <1>8 DEF WorkerSound
<1> QED BY <1>1, <1>2, <1>6, <1>8, <1>9, WorkerReads

\* An answer to a step that waits is counted, and leaves it waiting only if there
\* are attempts left.
LEMMA AnsweredCounted ==
    ASSUME NEW k \in Keys, NEW step \in Step, NEW right \in BOOLEAN,
           step.status = "waiting_user_action", Counted(k, step)
    PROVE  Counted(k, Answered(k, step, right))
<1> DEFINE tried == [step EXCEPT !.attempts = @ + 1]
<1>1. /\ tried \in Step /\ tried.status = "waiting_user_action"
      /\ tried.attempts <= MaxAttempts[k] /\ tried.attempts \in Nat
      /\ MaxAttempts[k] \in Nat
  <2>1. MaxAttempts[k] \in Nat
    BY EngineConstantsOK
  <2>2. step.attempts \in Nat /\ step.attempts < MaxAttempts[k]
    BY DEF Step, Counted
  <2>3. /\ tried \in Step /\ tried.status = "waiting_user_action"
        /\ tried.attempts = step.attempts + 1
    BY <2>2 DEF Step
  <2> HIDE DEF tried
  <2> QED BY <2>1, <2>2, <2>3
<1> DEFINE passed == Ended(tried, "completed", "pass")
           failed == Ended(tried, "failed", "fail")
           again == [tried EXCEPT !.outcome = "pending"]
<1>2. /\ passed.status = "completed" /\ passed.attempts = tried.attempts
      /\ failed.status = "failed" /\ failed.attempts = tried.attempts
      /\ again.status = "waiting_user_action" /\ again.attempts = tried.attempts
  BY <1>1 DEF Ended, Step
<1>3. Answered(k, step, right) = IF right THEN passed
                                 ELSE IF tried.attempts >= MaxAttempts[k] THEN failed
                                 ELSE again
  BY DEF Answered
<1> HIDE DEF passed, failed, again, tried
<1> QED BY <1>1, <1>2, <1>3 DEF Counted

\* What an attempt writes, in rows that are as it holds them.
LEMMA WorkerWrites ==
    ASSUME WInv, NEW w \in Workers, request[w] # None, NEW changed,
           IsStepTable(changed), DOMAIN changed = DOMAIN request[w].held,
           steps' = Written(w, changed)
    PROVE  LET q == request[w].run
               held == request[w].held
           IN  /\ q \in RunIds /\ DOMAIN steps' = RunIds
               /\ \A p \in RunIds \ {q} : steps'[p] = steps[p]
               /\ IsStepTable(steps'[q]) /\ DOMAIN steps'[q] = DOMAIN steps[q]
               /\ \A k \in DOMAIN steps[q] :
                    IF k \in DOMAIN held
                    THEN steps[q][k] = held[k] /\ steps'[q][k] = changed[k]
                    ELSE steps'[q][k] = steps[q][k]
<1> DEFINE q == request[w].run
           held == request[w].held
           after == Written(w, changed)
<1>1. /\ q \in RunIds /\ IsStepTable(held)
      /\ \A k \in DOMAIN held : k \in DOMAIN steps[q] /\ steps[q][k] = held[k]
  BY DEF WInv, RequestsKnow, WorkerSound
<1>2. DOMAIN steps = RunIds /\ \A p \in RunIds : IsStepTable(steps[p])
  BY DEF WInv, Tables
<1>3. /\ DOMAIN after = RunIds
      /\ \A p \in RunIds : p # q => after[p] = steps[p]
      /\ IsStepTable(after[q]) /\ DOMAIN after[q] = DOMAIN steps[q]
      /\ \A k \in DOMAIN steps[q] :
           /\ k \notin DOMAIN held => after[q][k] = steps[q][k]
           /\ k \in DOMAIN held /\ steps[q][k] = held[k] => after[q][k] = changed[k]
  BY <1>1, <1>2, WrittenFacts
<1> HIDE DEF after
<1>4. steps' = after
  BY DEF after
<1> HIDE DEF q, held
<1> QED BY <1>1, <1>3, <1>4 DEF q, held

\* The workflow hears of it, or not.
LEMMA CompletedFacts ==
    ASSUME WInv, NEW w, NEW q \in RunIds, workflow[q] # None, NEW place,
           place \in WorkflowPlaces, place # "closed",
           place = "applied" => workflow[q].at = "apply",
           place = "advanced" \/ place = "applied",
           workflow[q].at \in {"advance", "apply"}, Completed(w, q, place)
    PROVE  /\ DOMAIN workflow' = RunIds
           /\ \A p \in RunIds \ {q} : workflow'[p] = workflow[p]
           /\ IsFlow(workflow'[q]) /\ workflow'[q].at # "closed"
<1> DEFINE on == [workflow[q] EXCEPT !.at = place]
<1>1. IsFlow(workflow[q]) /\ DOMAIN workflow = RunIds
  BY DEF WInv, FlowsSound
<1>2. IsFlow(on) /\ on.at = place
  BY <1>1 DEF IsFlow, IsWorkflow, Execution
<1>3. workflow' = workflow \/ workflow' = [workflow EXCEPT ![q] = on]
  BY DEF Completed
<1> HIDE DEF on
<1> QED BY <1>1, <1>2, <1>3

\* A step whose end has come is no longer an attempt's to change.
LEMMA ApplyKeeps ==
    ASSUME WInv, OneAttempt, NEW w \in Workers, ApplyAttempt(w)
    PROVE  WInv'
<1> DEFINE r == request[w]
           q == r.run
<1>1. /\ r # None /\ r.at = "action" /\ steps' = Written(w, r.steps)
      /\ request' = [request EXCEPT ![w] = None] /\ Observe(w)
      /\ Completed(w, q, "applied") /\ UNCHANGED <<runs, summary, overtaken>>
  BY DEF ApplyAttempt, Close
<1>2. /\ q \in RunIds /\ runs[q] # None /\ IsStepTable(r.steps) /\ IsStepTable(r.held)
      /\ DOMAIN r.steps = DOMAIN r.held
      /\ \A k \in DOMAIN r.held : k \in DOMAIN steps[q] /\ steps[q][k] = r.held[k]
      /\ \A k \in DOMAIN r.held :
           /\ r.held[k].status = "waiting_user_action"
           /\ \E right \in BOOLEAN : r.steps[k] = Answered(k, r.held[k], right)
      /\ workflow[q] # None /\ workflow[q].at = "apply"
  BY <1>1 DEF WInv, RequestsKnow, WorkerSound
<1>3. /\ DOMAIN steps' = RunIds
      /\ \A p \in RunIds \ {q} : steps'[p] = steps[p]
      /\ IsStepTable(steps'[q]) /\ DOMAIN steps'[q] = DOMAIN steps[q]
      /\ \A k \in DOMAIN steps[q] :
           IF k \in DOMAIN r.held
           THEN steps[q][k] = r.held[k] /\ steps'[q][k] = r.steps[k]
           ELSE steps'[q][k] = steps[q][k]
  BY <1>1, <1>2, WorkerWrites
<1>4. /\ DOMAIN workflow' = RunIds
      /\ \A p \in RunIds \ {q} : workflow'[p] = workflow[p]
      /\ IsFlow(workflow'[q]) /\ workflow'[q].at # "closed"
  BY <1>1, <1>2, CompletedFacts DEF WorkflowPlaces
<1>5. /\ DOMAIN request' = Sessions /\ request'[w] = None
      /\ \A d \in Sessions \ {w} : request'[d] = request[d]
  BY <1>1, ClientRequestMoves, TypesFacts
<1>6. \A v \in Workers \ {w} : request[v] # None => request[v].run # q
  BY <1>1 DEF OneAttempt
<1>7. ASSUME NEW k \in DOMAIN steps'[q] PROVE Counted(k, steps'[q][k])
  <2>1. k \in DOMAIN steps[q] /\ Counted(k, steps[q][k]) /\ k \in Keys
        /\ steps[q][k] \in Step
    BY <1>2, <1>3, <1>7 DEF WInv, AllCounted, Tables, IsStepTable
  <2>2. CASE k \in DOMAIN r.held
    <3>1. PICK right \in BOOLEAN : steps'[q][k] = Answered(k, steps[q][k], right)
      BY <1>2, <1>3, <2>1, <2>2
    <3>2. steps[q][k].status = "waiting_user_action"
      BY <1>2, <2>2
    <3> QED BY <2>1, <3>1, <3>2, AnsweredCounted
  <2>3. CASE k \notin DOMAIN r.held
    BY <1>3, <2>1, <2>3
  <2> QED BY <2>2, <2>3
<1>8. (~disturbed' /\ ~runs[q].is_active) =>
          /\ DOMAIN steps'[q] # {}
          /\ \A k \in Keys : Finished(k, steps'[q])
          /\ runs'[q] = DecidedRun(steps'[q])
  <2> SUFFICES ASSUME ~disturbed', ~runs[q].is_active
               PROVE  /\ DOMAIN steps'[q] # {}
                      /\ \A k \in Keys : Finished(k, steps'[q])
                      /\ runs'[q] = DecidedRun(steps'[q])
    OBVIOUS
  <2>1. ~disturbed
    BY <1>1, CalmKnows, TypesFacts
  <2>2. /\ DOMAIN steps[q] # {} /\ runs[q] = DecidedRun(steps[q])
        /\ \A k \in Keys : Finished(k, steps[q])
    BY <1>2, <2>1 DEF WInv, OverIsDecided, Existing
  <2>3. IsStepTable(steps[q])
    BY <1>2 DEF WInv, Tables
  <2>4. DOMAIN r.held = {}
    BY <1>2, <2>2, <2>3 DEF Finished, StepTerminal, IsStepTable
  <2>5. steps'[q] = steps[q]
    BY <1>3, <2>3, <2>4 DEF IsStepTable
  <2> QED BY <1>1, <2>2, <2>5
<1>9. runs' \in [RunIds -> Run \cup {None}] /\ runs' = runs /\ (disturbed => disturbed')
  BY <1>1, CalmKnows, TypesFacts DEF WInv, Tables
<1> HIDE DEF q
<1> QED BY <1>2, <1>3, <1>4, <1>5, <1>6, <1>7, <1>8, <1>9, WorkerCommits

\* What a run is finalized to, whatever it was.
LEMMA FinalizedInRun ==
    ASSUME NEW run \in Run, NEW s, IsStepTable(s)
    PROVE  Finalized(run, s) \in Run
<1>1. Waiting(s) # {} => FirstWaiting(s) \in Keys
  BY FirstWaitingFacts
<1>2. Decision(s) \in Decisions
  BY DecisionFacts
<1>3. StatusFor[Decision(s)] \in RunStatuses
  BY <1>2 DEF Decisions, StatusFor, RunStatuses
<1> HIDE DEF Decision
<1> QED BY <1>1, <1>2, <1>3 DEF Finalized, Run, RunStatuses

\* A run is only finalized as over when its steps have all ended.
LEMMA FinalizedOver ==
    ASSUME NEW run \in Run, NEW s, ~Finalized(run, s).is_active
    PROVE  (\A k \in DOMAIN s : Finished(k, s)) /\ Finalized(run, s) = DecidedRun(s)
  BY DEF Finalized, Run, Decidable, DecidedRun

\* A pass starts steps and ends them, and counts nothing.
LEMMA PassCounted ==
    ASSUME NEW s, NEW t, Onwards(s, t), NEW k \in DOMAIN s, k \in Keys, s[k] \in Step,
           Counted(k, s[k])
    PROVE  Counted(k, t[k])
<1>1. MaxAttempts[k] \in Nat /\ MaxAttempts[k] # 0
  BY EngineConstantsOK
<1>2. CASE t[k] = s[k]
  BY <1>2
<1>3. CASE /\ s[k].status = "pending" /\ t[k].status # "pending"
           /\ t[k].attempts = s[k].attempts
  BY <1>1, <1>3 DEF Counted
<1> QED BY <1>2, <1>3 DEF Onwards

\* Over a run whose steps have all ended it does nothing.
LEMMA PassOfEnded ==
    ASSUME NEW s, IsStepTable(s), \A k \in DOMAIN s : Finished(k, s)
    PROVE  Pass(s) = s
<1>1. Onwards(s, Pass(s))
  BY PassFacts
<1>2. \A k \in DOMAIN s : Pass(s)[k] = s[k]
  BY <1>1 DEF Onwards, Finished, StepTerminal
<1> QED BY <1>1, <1>2 DEF Onwards, IsStepTable

\* The pass of an attempt over the steps.
LEMMA PassKeeps ==
    ASSUME WInv, OneAttempt, NEW w \in Workers, AdvancePass(w), UNCHANGED workflow
    PROVE  WInv'
<1> DEFINE r == request[w]
           q == r.run
           moved == Pass(r.steps)
           on == [r EXCEPT !.held = moved, !.steps = moved]
<1>1. /\ r # None /\ r.at = "advance" /\ moved # r.steps /\ steps' = Written(w, moved)
      /\ request' = [request EXCEPT ![w] = on] /\ Observe(w)
      /\ UNCHANGED <<runs, summary, overtaken>>
  BY DEF AdvancePass
<1>2. /\ q \in RunIds /\ runs[q] # None /\ r.base \in Run /\ DOMAIN r = RequestFields
      /\ IsStepTable(r.steps) /\ r.steps = r.held /\ DOMAIN r.held \in {{}, Keys}
      /\ ~disturbed => DOMAIN r.held = Keys /\ Keys # {}
      /\ \A k \in DOMAIN r.held : k \in DOMAIN steps[q] /\ steps[q][k] = r.held[k]
      /\ workflow[q] # None /\ workflow[q].at = "advance"
  BY <1>1 DEF WInv, RequestsKnow, WorkerSound
<1>3. Onwards(r.held, moved) /\ IsStepTable(moved) /\ DOMAIN moved = DOMAIN r.held
  BY <1>2, PassFacts DEF Onwards
<1>4. (\A k \in DOMAIN r.held : Finished(k, r.held)) => moved = r.steps
  BY <1>2, PassOfEnded
<1> HIDE DEF moved
<1>5. /\ DOMAIN steps' = RunIds
      /\ \A p \in RunIds \ {q} : steps'[p] = steps[p]
      /\ IsStepTable(steps'[q]) /\ DOMAIN steps'[q] = DOMAIN steps[q]
      /\ \A k \in DOMAIN steps[q] :
           IF k \in DOMAIN r.held
           THEN steps[q][k] = r.held[k] /\ steps'[q][k] = moved[k]
           ELSE steps'[q][k] = steps[q][k]
  BY <1>1, <1>3, WorkerWrites
<1>6. /\ DOMAIN on = RequestFields /\ on.run = q /\ on.at = "advance"
      /\ on.base = r.base /\ on.held = moved /\ on.steps = moved
  BY <1>1, <1>2 DEF RequestFields
<1> HIDE DEF on
<1>7. /\ DOMAIN request' = Sessions /\ request'[w] = on
      /\ \A d \in Sessions \ {w} : request'[d] = request[d]
  BY <1>1, ClientRequestMoves, TypesFacts
<1>8. \A v \in Workers \ {w} : request[v] # None => request[v].run # q
  BY <1>1 DEF OneAttempt
<1>9. /\ runs' \in [RunIds -> Run \cup {None}] /\ runs' = runs
      /\ disturbed => disturbed'
      /\ DOMAIN workflow' = RunIds /\ workflow' = workflow /\ IsFlow(workflow[q])
  BY <1>1, <1>2, CalmKnows, TypesFacts DEF WInv, Tables, FlowsSound
<1>10. WorkerSound(request[w])'
  BY <1>1, <1>2, <1>3, <1>5, <1>6, <1>7, <1>9 DEF WorkerSound
<1>11. ASSUME NEW k \in DOMAIN steps'[q] PROVE Counted(k, steps'[q][k])
  <2>1. k \in DOMAIN steps[q] /\ Counted(k, steps[q][k]) /\ k \in Keys
        /\ steps[q][k] \in Step
    BY <1>2, <1>5, <1>11 DEF WInv, AllCounted, Tables, IsStepTable
  <2>2. CASE k \in DOMAIN r.held
    <3>1. r.held[k] = steps[q][k] /\ steps'[q][k] = moved[k]
      BY <1>5, <2>1, <2>2
    <3> QED BY <1>3, <2>1, <2>2, <3>1, PassCounted
  <2>3. CASE k \notin DOMAIN r.held
    BY <1>5, <2>1, <2>3
  <2> QED BY <2>2, <2>3
<1>12. ~disturbed' => runs[q].is_active
  <2> SUFFICES ASSUME ~disturbed', ~runs[q].is_active PROVE FALSE
    OBVIOUS
  <2>1. ~disturbed
    BY <1>9
  <2>2. \A k \in Keys : Finished(k, steps[q])
    BY <1>2, <2>1 DEF WInv, OverIsDecided, Existing
  <2>3. \A k \in DOMAIN r.held : Finished(k, r.held)
    BY <1>2, <2>1, <2>2 DEF Finished
  <2> QED BY <1>1, <1>4, <2>3
<1> HIDE DEF q
<1> QED BY <1>2, <1>5, <1>7, <1>8, <1>9, <1>10, <1>11, <1>12, WorkerCommits

\* Whoever decides has seen the steps as they are, or none; undisturbed, all.
LEMMA FinalizeFacts ==
    ASSUME WInv, NEW w \in Workers, FinalizeRun(w)
    PROVE  LET r == request[w]
               q == r.run
               final == Finalized(r.base, r.steps)
           IN  /\ r # None /\ q \in RunIds /\ runs[q] \in Run /\ r.base \in Run
               /\ runs[q] # None
               /\ runs'[q] = Flush(runs[q], r.base, final) /\ runs'[q] \in Run
               /\ \A p \in RunIds \ {q} : runs'[p] = runs[p]
               /\ runs' \in [RunIds -> Run \cup {None}] /\ steps' = steps
               /\ final \in Run
               /\ r.steps = r.held
               /\ DOMAIN r.steps = {} \/ (DOMAIN r.steps = Keys /\ r.steps = steps[q])
               /\ ~disturbed' => /\ DOMAIN r.steps = Keys /\ Keys # {}
                                 /\ runs[q] = r.base /\ ~disturbed
<1> DEFINE r == request[w]
           q == r.run
           final == Finalized(r.base, r.steps)
           row == Flush(runs[q], r.base, final)
<1>1. /\ r # None /\ r.at = "advance" /\ runs' = [runs EXCEPT ![q] = row]
      /\ Observe(w) /\ steps' = steps
  BY DEF FinalizeRun
<1>2. /\ q \in RunIds /\ runs[q] # None /\ r.base \in Run
      /\ IsStepTable(r.steps) /\ r.steps = r.held /\ DOMAIN r.held \in {{}, Keys}
      /\ ~disturbed => DOMAIN r.held = Keys /\ Keys # {}
      /\ \A k \in DOMAIN r.held : k \in DOMAIN steps[q] /\ steps[q][k] = r.held[k]
  BY <1>1 DEF WInv, RequestsKnow, WorkerSound
<1>3. runs[q] \in Run /\ IsStepTable(steps[q]) /\ DOMAIN runs = RunIds
  BY <1>2 DEF WInv, Tables
<1>4. final \in Run
  BY <1>2, FinalizedInRun
<1> HIDE DEF final
<1>5. row \in Run
  BY <1>2, <1>3, <1>4, FlushRun
<1> HIDE DEF row
<1>6. /\ runs'[q] = row /\ runs' \in [RunIds -> Run \cup {None}]
      /\ \A p \in RunIds \ {q} : runs'[p] = runs[p]
  BY <1>1, <1>2, <1>3, <1>5 DEF WInv, Tables
<1>7. DOMAIN r.steps = Keys => r.steps = steps[q]
  BY <1>2, <1>3 DEF IsStepTable
<1>8. ~disturbed' => runs[q] = r.base /\ ~disturbed
  BY <1>1, CalmKnows, TypesFacts
<1> QED BY <1>1, <1>2, <1>3, <1>4, <1>5, <1>6, <1>7, <1>8 DEF final, row

\* An attempt finalizes the run on the steps it holds.
LEMMA FinalizeKeeps ==
    ASSUME WInv, OneAttempt, NEW w \in Workers, FinalizeAttempt(w)
    PROVE  WInv'
<1> DEFINE r == request[w]
           q == r.run
           final == Finalized(r.base, r.steps)
<1>1. /\ FinalizeRun(w) /\ Completed(w, q, "advanced") /\ r.at = "advance"
      /\ request' = [request EXCEPT ![w] = None] /\ Observe(w)
  BY DEF FinalizeAttempt, FinalizeRun, Close
<1>2. /\ r # None /\ q \in RunIds /\ runs[q] \in Run /\ r.base \in Run /\ runs[q] # None
      /\ runs'[q] = Flush(runs[q], r.base, final) /\ runs'[q] \in Run
      /\ \A p \in RunIds \ {q} : runs'[p] = runs[p]
      /\ runs' \in [RunIds -> Run \cup {None}] /\ steps' = steps /\ final \in Run
      /\ ~disturbed' => DOMAIN r.steps = Keys /\ Keys # {} /\ runs[q] = r.base
      /\ DOMAIN r.steps = {} \/ (DOMAIN r.steps = Keys /\ r.steps = steps[q])
  BY <1>1, FinalizeFacts
<1>3. IsStepTable(r.steps) /\ workflow[q] # None /\ workflow[q].at = "advance"
  BY <1>1, <1>2 DEF WInv, RequestsKnow, WorkerSound
<1>4. /\ DOMAIN workflow' = RunIds
      /\ \A p \in RunIds \ {q} : workflow'[p] = workflow[p]
      /\ IsFlow(workflow'[q]) /\ workflow'[q].at # "closed"
  BY <1>1, <1>2, <1>3, CompletedFacts DEF WorkflowPlaces
<1>5. /\ DOMAIN request' = Sessions /\ request'[w] = None
      /\ \A d \in Sessions \ {w} : request'[d] = request[d]
  BY <1>1, ClientRequestMoves, TypesFacts
<1>6. \A v \in Workers \ {w} : request[v] # None => request[v].run # q
  BY <1>2 DEF OneAttempt
<1>7. (~disturbed' /\ ~runs'[q].is_active) =>
          /\ DOMAIN steps'[q] # {}
          /\ \A k \in Keys : Finished(k, steps'[q])
          /\ runs'[q] = DecidedRun(steps'[q])
  <2> SUFFICES ASSUME ~disturbed', ~runs'[q].is_active
               PROVE  /\ DOMAIN steps[q] # {}
                      /\ \A k \in Keys : Finished(k, steps[q])
                      /\ runs'[q] = DecidedRun(steps[q])
    BY <1>2
  <2>1. DOMAIN r.steps = Keys /\ Keys # {} /\ runs[q] = r.base
    BY <1>2
  <2>2. r.steps = steps[q]
    BY <1>2, <2>1
  <2>3. runs'[q] = final
    <3> HIDE DEF final, q
    <3> QED BY <1>2, <2>1, FlushRun
  <2>4. ~final.is_active
    BY <2>3
  <2>5. /\ \A k \in DOMAIN r.steps : Finished(k, r.steps)
        /\ final = DecidedRun(r.steps)
    BY <1>2, <1>3, <2>4, FinalizedOver
  <2> QED BY <2>1, <2>2, <2>3, <2>5
<1>8. /\ runs' \in [RunIds -> Run \cup {None}] /\ runs'[q] # None
      /\ IsStepTable(steps[q]) /\ DOMAIN steps = RunIds
      /\ \A k \in DOMAIN steps[q] : Counted(k, steps[q][k])
      /\ disturbed => disturbed'
  BY <1>1, <1>2, CalmKnows, TypesFacts DEF WInv, Tables, AllCounted
<1> HIDE DEF q
<1> QED BY <1>2, <1>4, <1>5, <1>6, <1>7, <1>8, WorkerCommits

-----------------------------------------------------------------------------
(* The invariant is inductive.                                             *)

\* There is nothing at first.
LEMMA InitWInv == WorkflowInit => WInv
<1> SUFFICES ASSUME WorkflowInit PROVE WInv
  OBVIOUS
<1>1. /\ runs = [r \in RunIds |-> None] /\ steps = [r \in RunIds |-> NoSteps]
      /\ request = [c \in Sessions |-> None] /\ workflow = [r \in RunIds |-> None]
  BY DEF WorkflowInit, Init
<1>2. Existing = {}
  BY <1>1 DEF Existing
<1>3. \A c \in Clients \cup Workers : request[c] = None
  BY <1>1, TypesFacts
<1>4. Tables /\ AllCounted
  BY <1>1, NoStepsFacts DEF Tables, AllCounted
<1>5. RequestsKnow /\ ClientsApart
  BY <1>3 DEF RequestsKnow, ClientsApart
<1>6. FlowsSound /\ ClosedIsOver
  BY <1>1 DEF FlowsSound, ClosedIsOver
<1> QED BY <1>2, <1>4, <1>5, <1>6 DEF WInv, OverIsDecided

\* Every step keeps the invariant.
LEMMA NextWInv == WInv /\ OneAttempt /\ [WorkflowNext]_allVars => WInv'
<1> SUFFICES ASSUME WInv, OneAttempt, [WorkflowNext]_allVars PROVE WInv'
  OBVIOUS
<1>1. CASE UNCHANGED allVars
  <2>1. UNCHANGED <<runs, steps, request, disturbed, workflow>>
    BY <1>1 DEF allVars, vars, workflowVars
  <2>2. RequestsKnow'
    BY <2>1 DEF WInv, RequestsKnow, ClientSound, WorkerSound
  <2>3. ClientsApart' /\ FlowsSound' /\ ClosedIsOver' /\ DOMAIN request' = Sessions
    BY <2>1 DEF WInv, ClientsApart, FlowsSound, ClosedIsOver, Tables
  <2> QED BY <2>1, <2>2, <2>3, TablesStay
<1>2. ASSUME NEW c \in Clients,
             Begin(c) \/ ReadBack(c) \/ Prepare(c) \/ Launch(c) \/ Resume(c) \/ SubmitAction(c)
      PROVE  WInv'
  BY <1>2, BeginKeeps, ReadBackKeeps, PrepareKeeps, LaunchKeeps, ResumeKeeps, SubmitActionKeeps
<1>3. ASSUME NEW r \in RunIds, Wake(r) \/ Applied(r) \/ Advanced(r) \/ ResultLost(r)
      PROVE  WInv'
  BY <1>3, FlowKeeps
<1>4. ASSUME NEW w \in Workers,
             (\E r \in RunIds : Attempt(w, r)) \/ ApplyAttempt(w) \/ AdvanceAttempt(w)
      PROVE  WInv'
  BY <1>4, AttemptKeeps, ApplyKeeps, ListKeeps, PassKeeps, WorkerCrashKeeps, FinalizeKeeps
     DEF AdvanceAttempt, workflowVars
<1> QED BY <1>1, <1>2, <1>3, <1>4 DEF WorkflowNext

-----------------------------------------------------------------------------
(* What a step does to runs and steps.                                     *)

\* Steps that have all ended make a run that is decided on them.
LEMMA FinalizedEnded ==
    ASSUME NEW run \in Run, NEW s, \A k \in DOMAIN s : Finished(k, s)
    PROVE  Finalized(run, s) = DecidedRun(s)
<1>1. Waiting(s) = {}
  BY DEF Waiting, Finished, StepTerminal
<1> QED BY <1>1 DEF Finalized, Decidable, DecidedRun

\* Only three commits write a row of a run, and only three the rows of its steps.
LEMMA WhoWrites ==
    ASSUME WInv, WorkflowNext
    PROVE  /\ \/ runs' = runs
              \/ \E c \in Clients : InsertRun(c) \/ Defer(c)
              \/ \E w \in Workers : FinalizeRun(w)
           /\ \/ steps' = steps
              \/ \E c \in Clients : InitializeSteps(c)
              \/ \E w \in Workers : ApplyAttempt(w) \/ AdvancePass(w)
<1>1. ASSUME NEW c \in Clients, Begin(c) \/ ReadBack(c)
      PROVE  UNCHANGED <<runs, steps>>
  BY <1>1 DEF Begin, StartBegin, ActionBegin, Answering, ReadBack, RefreshRun
<1>2. ASSUME NEW c \in Clients, Prepare(c)
      PROVE  \/ UNCHANGED <<runs, steps>>
             \/ InsertRun(c) /\ steps' = steps
             \/ Defer(c) /\ steps' = steps
             \/ InitializeSteps(c) /\ runs' = runs
  BY <1>2 DEF Prepare, Crash, InsertRun, InitializeSteps, Defer
<1>3. ASSUME NEW c \in Clients, Launch(c) \/ Resume(c) \/ SubmitAction(c)
      PROVE  UNCHANGED <<runs, steps>>
  BY <1>3 DEF Launch, Resume, SubmitAction
<1>4. ASSUME NEW r \in RunIds, Wake(r) \/ Applied(r) \/ Advanced(r) \/ ResultLost(r)
      PROVE  UNCHANGED <<runs, steps>>
  BY <1>4 DEF Wake, Applied, Advanced, ResultLost, vars
<1>5. ASSUME NEW w \in Workers, NEW r \in RunIds, Attempt(w, r)
      PROVE  UNCHANGED <<runs, steps>>
  BY <1>5 DEF Attempt
<1>6. ASSUME NEW w \in Workers, ApplyAttempt(w)
      PROVE  runs' = runs
  BY <1>6 DEF ApplyAttempt
<1>7. ASSUME NEW w \in Workers, AdvanceAttempt(w)
      PROVE  \/ UNCHANGED <<runs, steps>>
             \/ AdvancePass(w) /\ runs' = runs
             \/ FinalizeRun(w) /\ steps' = steps
  BY <1>7 DEF AdvanceAttempt, FinalizeAttempt, ListSteps, AdvancePass, Crash, FinalizeRun
<1> QED BY <1>1, <1>2, <1>3, <1>4, <1>5, <1>6, <1>7 DEF WorkflowNext

\* A request knows the row it overwrites, if it knows what the table says.
LEMMA DeferFacts ==
    ASSUME WInv, NEW c \in Clients, Defer(c), NEW r \in Existing
    PROVE  /\ runs'[r].decision = runs[r].decision
           /\ ~disturbed' /\ ~runs[r].is_active => runs'[r] = runs[r]
<1> DEFINE q == request[c].run
           base == request[c].base
           mine == [base EXCEPT !.status = "pending", !.current = None]
           row == Flush(runs[q], base, mine)
<1>1. /\ request[c] # None /\ request[c].at = "defer" /\ Observe(c)
      /\ runs' = [runs EXCEPT ![q] = row]
  BY DEF Defer
<1>2. /\ q \in RunIds /\ runs[q] \in Run /\ base \in Run
      /\ r \in RunIds /\ DOMAIN runs = RunIds
      /\ ~disturbed => base.is_active
  <2>1. ClientSound(request[c])
    BY <1>1 DEF WInv, RequestsKnow
  <2>2. q \in RunIds /\ runs[q] # None
    BY <1>1, <2>1 DEF ClientSound
  <2>3. base \in Run /\ (~disturbed => base.is_active)
    BY <1>1, ClientWrites
  <2> QED BY <2>2, <2>3 DEF WInv, Tables, Existing
<1>3. mine \in Run /\ mine.decision = base.decision
  BY <1>2 DEF Run, RunStatuses
<1>4. ~disturbed' => runs[q] = base /\ ~disturbed
  BY <1>1, CalmKnows, TypesFacts
<1> HIDE DEF mine
<1>5. row.decision = IF mine.decision # base.decision THEN mine.decision
                                                      ELSE runs[q].decision
  BY <1>2, <1>3, FlushRun
<1>6. row.decision = runs[q].decision
  BY <1>3, <1>5
<1> HIDE DEF row
<1>7. CASE r = q
  BY <1>1, <1>2, <1>4, <1>6, <1>7
<1>8. CASE r # q
  BY <1>1, <1>2, <1>8
<1> QED BY <1>7, <1>8

\* An insertion changes no run that is there.
LEMMA InsertFacts ==
    ASSUME WInv, NEW c \in Clients, InsertRun(c), NEW r \in Existing
    PROVE  runs'[r] = runs[r]
<1>1. /\ request[c] # None /\ request[c].at = "insert"
      /\ runs' = [runs EXCEPT ![request[c].run] = NewRun]
  BY DEF InsertRun
<1>2. runs[request[c].run] = None
  BY <1>1 DEF WInv, RequestsKnow, ClientSound
<1> QED BY <1>1, <1>2 DEF WInv, Tables, Existing

\* A decision that changes is that of the attempt that changes it.
LEMMA StepDecided ==
    ASSUME WInv, WorkflowNext, NEW r \in Existing, runs'[r].decision # runs[r].decision
    PROVE  \E w \in Workers : /\ request[w] # None /\ request[w].run = r
                              /\ \/ DOMAIN request[w].steps = {}
                                 \/ /\ \A k \in Keys : Finished(k, steps[r])
                                    /\ runs'[r].decision = Decision(steps[r])
<1>1. PICK w \in Workers : FinalizeRun(w)
  BY WhoWrites, InsertFacts, DeferFacts
<1> DEFINE s == request[w].steps
           q == request[w].run
           base == request[w].base
           final == Finalized(base, s)
<1>2. /\ request[w] # None /\ q \in RunIds /\ runs[q] \in Run /\ base \in Run
      /\ runs'[q] = Flush(runs[q], base, final) /\ final \in Run
      /\ \A p \in RunIds \ {q} : runs'[p] = runs[p]
      /\ DOMAIN s = {} \/ (DOMAIN s = Keys /\ s = steps[q])
  BY <1>1, FinalizeFacts
<1>3. r = q
  BY <1>2 DEF Existing
<1>4. runs'[q].decision = IF final.decision # base.decision THEN final.decision
                                                            ELSE runs[q].decision
  <2> HIDE DEF final, q, base
  <2> QED BY <1>2, FlushRun
<1>5. final.decision # base.decision /\ runs'[q].decision = final.decision
  BY <1>3, <1>4
<1>6. ~final.is_active
  BY <1>2, <1>5 DEF Finalized, Run
<1>7. (\A k \in DOMAIN s : Finished(k, s)) /\ final = DecidedRun(s)
  BY <1>2, <1>6, FinalizedOver
<1>8. final.decision = Decision(s)
  BY <1>7 DEF DecidedRun
<1> HIDE DEF final, q
<1>9. DOMAIN s = {} \/ ((\A k \in Keys : Finished(k, steps[r]))
                        /\ runs'[r].decision = Decision(steps[r]))
  BY <1>2, <1>3, <1>5, <1>7, <1>8
<1> QED BY <1>2, <1>3, <1>9 DEF q

\* The result of a step that has ended stays.
LEMMA StepResultStays ==
    ASSUME WInv, WorkflowNext, NEW r \in Existing, NEW k \in DOMAIN steps[r],
           Finished(k, steps[r])
    PROVE  steps'[r][k] = steps[r][k]
<1>1. r \in RunIds /\ DOMAIN steps = RunIds
  BY DEF Existing, WInv, Tables
<1>2. ASSUME NEW c \in Clients, InitializeSteps(c) PROVE steps'[r][k] = steps[r][k]
  <2>1. /\ request[c] # None /\ request[c].at = "init"
        /\ steps' = [steps EXCEPT ![request[c].run] = NewSteps]
    BY <1>2 DEF InitializeSteps
  <2>2. DOMAIN steps[request[c].run] = {}
    BY <2>1 DEF WInv, RequestsKnow, ClientSound, Fresh
  <2> QED BY <1>1, <2>1, <2>2
<1>3. ASSUME NEW w \in Workers, ApplyAttempt(w) PROVE steps'[r][k] = steps[r][k]
  <2> DEFINE q == request[w]
  <2>1. q # None /\ q.at = "action" /\ steps' = Written(w, q.steps)
    BY <1>3 DEF ApplyAttempt
  <2>2. /\ IsStepTable(q.steps) /\ DOMAIN q.steps = DOMAIN q.held
        /\ \A j \in DOMAIN q.held : q.held[j].status = "waiting_user_action"
    BY <2>1 DEF WInv, RequestsKnow, WorkerSound
  <2>3. /\ \A p \in RunIds \ {q.run} : steps'[p] = steps[p]
        /\ \A j \in DOMAIN steps[q.run] :
             IF j \in DOMAIN q.held
             THEN steps[q.run][j] = q.held[j] /\ steps'[q.run][j] = q.steps[j]
             ELSE steps'[q.run][j] = steps[q.run][j]
    BY <2>1, <2>2, WorkerWrites
  <2>4. CASE r = q.run
    <3>1. k \notin DOMAIN q.held
      BY <2>2, <2>3, <2>4 DEF Finished, StepTerminal
    <3> QED BY <2>3, <2>4, <3>1
  <2>5. CASE r # q.run
    BY <1>1, <2>3, <2>5
  <2> QED BY <2>4, <2>5
<1>4. ASSUME NEW w \in Workers, AdvancePass(w) PROVE steps'[r][k] = steps[r][k]
  <2> DEFINE q == request[w]
             moved == Pass(q.steps)
  <2>1. q # None /\ q.at = "advance" /\ steps' = Written(w, moved)
    BY <1>4 DEF AdvancePass
  <2>2. IsStepTable(q.held) /\ q.steps = q.held
    BY <2>1 DEF WInv, RequestsKnow, WorkerSound
  <2>3. Onwards(q.held, moved) /\ IsStepTable(moved) /\ DOMAIN moved = DOMAIN q.held
    BY <2>2, PassFacts DEF Onwards
  <2> HIDE DEF moved
  <2>4. /\ \A p \in RunIds \ {q.run} : steps'[p] = steps[p]
        /\ \A j \in DOMAIN steps[q.run] :
             IF j \in DOMAIN q.held
             THEN steps[q.run][j] = q.held[j] /\ steps'[q.run][j] = moved[j]
             ELSE steps'[q.run][j] = steps[q.run][j]
    BY <2>1, <2>3, WorkerWrites
  <2>5. CASE r = q.run /\ k \in DOMAIN q.held
    <3>1. steps[r][k] = q.held[k] /\ steps'[r][k] = moved[k]
      BY <2>4, <2>5
    <3>2. moved[k] = q.held[k]
      BY <2>3, <2>5, <3>1 DEF Onwards, Finished, StepTerminal
    <3> QED BY <3>1, <3>2
  <2>6. CASE r = q.run /\ k \notin DOMAIN q.held
    BY <2>4, <2>6
  <2>7. CASE r # q.run
    BY <1>1, <2>4, <2>7
  <2> QED BY <2>5, <2>6, <2>7
<1> QED BY <1>2, <1>3, <1>4, WhoWrites

\* And so does the row of a run that is over.
LEMMA StepOverStays ==
    ASSUME WInv, WorkflowNext, NEW r \in Existing, ~disturbed', ~runs[r].is_active
    PROVE  runs'[r] = runs[r]
<1>1. ASSUME NEW w \in Workers, FinalizeRun(w) PROVE runs'[r] = runs[r]
  <2> DEFINE s == request[w].steps
             q == request[w].run
             base == request[w].base
             final == Finalized(base, s)
  <2>1. /\ q \in RunIds /\ runs[q] \in Run /\ base \in Run
        /\ runs'[q] = Flush(runs[q], base, final) /\ final \in Run
        /\ \A p \in RunIds \ {q} : runs'[p] = runs[p]
        /\ DOMAIN s = {} \/ (DOMAIN s = Keys /\ s = steps[q])
        /\ DOMAIN s = Keys /\ runs[q] = base /\ ~disturbed
        /\ request[w] # None
    BY <1>1, FinalizeFacts
  <2>2. CASE r = q
    <3>1. (\A k \in Keys : Finished(k, steps[q])) /\ runs[q] = DecidedRun(steps[q])
      BY <2>1, <2>2 DEF WInv, OverIsDecided
    <3>2. s = steps[q]
      <4>1. IsStepTable(s) /\ IsStepTable(steps[q]) /\ DOMAIN steps[q] \in {{}, Keys}
        BY <2>1 DEF WInv, RequestsKnow, WorkerSound, Tables
      <4> QED BY <2>1, <4>1 DEF IsStepTable
    <3>3. final = DecidedRun(steps[q])
      BY <2>1, <3>1, <3>2, FinalizedEnded
    <3>4. runs'[q] = final
      <4> HIDE DEF final, q, base
      <4> QED BY <2>1, FlushRun
    <3> QED BY <2>2, <3>1, <3>3, <3>4
  <2>3. CASE r # q
    BY <2>1, <2>3 DEF Existing
  <2> QED BY <2>2, <2>3
<1> QED BY <1>1, WhoWrites, InsertFacts, DeferFacts

-----------------------------------------------------------------------------
(* Answers are counted.                                                    *)

\* The attempt under way is the one the workflow waits for, at the answer it is at.
Own ==
    \A w \in Workers : request[w] # None =>
        LET flow == workflow[request[w].run] IN
        /\ flow.by = w
        /\ request[w].at = "action" => DOMAIN request[w].held = {Head(flow.actions).step}

Tried(r, k) == IF k \in DOMAIN steps[r] THEN steps[r][k].attempts ELSE 0

Tallied ==
    /\ due \in [RunIds -> [Keys -> Nat]]
    /\ \A r \in RunIds, k \in Keys :
         Tried(r, k) = due[r][k] + (IF Unheard(r, k) THEN 1 ELSE 0)

\* A workflow goes on, and has no answer taken in nor one under way exchanged.
Alike(r) ==
    \/ workflow'[r] = workflow[r]
    \/ /\ workflow[r] = None \/ workflow[r].at \in {"wait", "closed", "advanced"}
       /\ workflow'[r].at # "applied"
    \/ /\ workflow[r].at = "advance" /\ workflow'[r].at # "applied"
       /\ workflow'[r].by = workflow[r].by
    \/ /\ workflow[r] # None /\ workflow'[r] # None
       /\ workflow'[r].at = workflow[r].at /\ workflow'[r].by = workflow[r].by
       /\ workflow[r].at \in {"apply", "applied"} =>
            Head(workflow'[r].actions) = Head(workflow[r].actions)

\* What is unheard stays so.
LEMMA AlikeUnheard ==
    ASSUME NEW r \in RunIds, NEW k, Alike(r)
    PROVE  Unheard(r, k)' <=> Unheard(r, k)
  BY TypesFacts DEF Alike, Unheard

\* Whose attempt is whose does, too.
LEMMA OwnStays ==
    ASSUME WInv, Own, \A r \in RunIds : Alike(r),
           \A w \in Workers : request'[w] # None =>
               /\ request[w] # None /\ request'[w].run = request[w].run
               /\ request'[w].at = "action" => request'[w] = request[w]
    PROVE  Own'
<1> SUFFICES ASSUME NEW w \in Workers, request'[w] # None
             PROVE  LET flow == workflow'[request'[w].run] IN
                    /\ flow.by = w
                    /\ request'[w].at = "action" =>
                         DOMAIN request'[w].held = {Head(flow.actions).step}
  BY DEF Own
<1>1. /\ request[w] # None /\ request'[w].run = request[w].run
      /\ request'[w].at = "action" => request'[w] = request[w]
  OBVIOUS
<1> DEFINE q == request[w].run
<1>2. /\ q \in RunIds /\ workflow[q] # None
      /\ workflow[q].at = IF request[w].at = "action" THEN "apply" ELSE "advance"
  BY <1>1 DEF WInv, RequestsKnow, WorkerSound
<1>3. /\ workflow[q].by = w
      /\ request[w].at = "action" =>
           DOMAIN request[w].held = {Head(workflow[q].actions).step}
  BY <1>1 DEF Own
<1>4. Alike(q)
  BY <1>2
<1> HIDE DEF q
<1>5. /\ workflow'[q].by = w
      /\ request[w].at = "action" =>
           Head(workflow'[q].actions) = Head(workflow[q].actions)
  BY <1>2, <1>3, <1>4 DEF Alike
<1> QED BY <1>1, <1>3, <1>5 DEF q

\* The tally is right as long as nothing is counted.
LEMMA TallyStays ==
    ASSUME Tallied, due' = due,
           \A r \in RunIds, k \in Keys : /\ Unheard(r, k)' <=> Unheard(r, k)
                                        /\ Tried(r, k)' = Tried(r, k)
    PROVE  Tallied'
<1>1. \A r \in RunIds, k \in Keys : Unheard(r, k)' <=> Unheard(r, k)
  OBVIOUS
<1>2. due' \in [RunIds -> [Keys -> Nat]]
  BY DEF Tallied
<1>3. ASSUME NEW r \in RunIds, NEW k \in Keys
      PROVE  Tried(r, k)' = due'[r][k] + (IF Unheard(r, k)' THEN 1 ELSE 0)
  <2>1. Tried(r, k) = due[r][k] + (IF Unheard(r, k) THEN 1 ELSE 0)
    BY DEF Tallied
  <2>2. Tried(r, k)' = Tried(r, k)
    OBVIOUS
  <2>3. Unheard(r, k)' <=> Unheard(r, k)
    BY <1>1
  <2> QED BY <2>1, <2>2, <2>3
<1> QED BY <1>2, <1>3 DEF Tallied

\* What a client does to the workflows.
LEMMA ClientAlike ==
    ASSUME WInv, NEW c \in Clients,
           Begin(c) \/ ReadBack(c) \/ Prepare(c) \/ Launch(c) \/ Resume(c) \/ SubmitAction(c)
    PROVE  /\ due' = due /\ \A r \in RunIds : Alike(r)
           /\ \A w \in Workers : request'[w] = request[w]
<1>1. c \notin Workers /\ DOMAIN request = Sessions /\ Workers \subseteq Sessions
  BY TypesFacts DEF WInv, Tables
<1>2. \A w \in Workers : request'[w] = request[w]
  BY <1>1 DEF Begin, StartBegin, ActionBegin, Answering, ReadBack, RefreshRun, Prepare,
              InsertRun, InitializeSteps, Defer, Crash, Launch, Resume, SubmitAction,
              Close, Goto
<1>3. due' = due
  BY DEF Begin, ReadBack, Prepare, workflowVars, Launch, Resume, SubmitAction
<1>4. ASSUME Begin(c) \/ ReadBack(c) \/ Prepare(c), NEW r \in RunIds PROVE Alike(r)
  BY <1>4 DEF Begin, ReadBack, Prepare, workflowVars, Alike
<1>5. request[c] # None => request[c].run \in RunIds
  BY DEF WInv, RequestsKnow, ClientSound
<1>6. DOMAIN workflow = RunIds
  BY DEF WInv, FlowsSound
<1>7. ASSUME Launch(c), NEW r \in RunIds PROVE Alike(r)
  <2>1. workflow'[r] = workflow[r] \/ (~Open(r) /\ workflow'[r] = NewWorkflow)
    BY <1>5, <1>6, <1>7 DEF Launch, Dispatching
  <2>2. NewWorkflow.at = "advance"
    BY DEF NewWorkflow
  <2> QED BY <2>1, <2>2 DEF Alike, Open
<1>8. ASSUME Resume(c), NEW r \in RunIds PROVE Alike(r)
  <2> DEFINE on == [workflow[r] EXCEPT !.resume = TRUE]
  <2>1. workflow'[r] = workflow[r] \/ (Open(r) /\ workflow'[r] = on)
    BY <1>5, <1>6, <1>8 DEF Resume, Dispatching
  <2>2. ASSUME Open(r)
        PROVE  /\ on # None /\ workflow[r] # None
               /\ on.at = workflow[r].at /\ on.by = workflow[r].by
               /\ on.actions = workflow[r].actions
    <3>1. IsFlow(workflow[r]) /\ workflow[r] # None
      BY <2>2 DEF WInv, FlowsSound, Open
    <3>2. IsFlow(on) /\ on.at = workflow[r].at /\ on.by = workflow[r].by
          /\ on.actions = workflow[r].actions
      BY <3>1 DEF IsFlow, IsWorkflow, Execution
    <3> HIDE DEF on
    <3> QED BY <3>1, <3>2, TypesFacts
  <2> HIDE DEF on
  <2> QED BY <2>1, <2>2 DEF Alike
<1>9. ASSUME SubmitAction(c), NEW r \in RunIds PROVE Alike(r)
  BY <1>9, AnswerAdded DEF Alike
<1> QED BY <1>2, <1>3, <1>4, <1>7, <1>8, <1>9

\* A client counts nothing: the steps it inserts have not been tried.
LEMMA ClientTally ==
    ASSUME WInv, Own, Tallied, NEW c \in Clients,
           Begin(c) \/ ReadBack(c) \/ Prepare(c) \/ Launch(c) \/ Resume(c) \/ SubmitAction(c)
    PROVE  Own' /\ Tallied'
<1>1. /\ due' = due /\ \A r \in RunIds : Alike(r)
      /\ \A w \in Workers : request'[w] = request[w]
  BY ClientAlike
<1>2. Own'
  BY <1>1, OwnStays
<1>3. ASSUME NEW r \in RunIds, NEW k \in Keys PROVE Tried(r, k)' = Tried(r, k)
  <2>1. CASE InitializeSteps(c)
    <3> DEFINE q == request[c].run
    <3>1. /\ request[c] # None /\ request[c].at = "init"
          /\ steps' = [steps EXCEPT ![q] = NewSteps]
      BY <2>1 DEF InitializeSteps
    <3>2. q \in RunIds /\ DOMAIN steps[q] = {} /\ DOMAIN steps = RunIds
      BY <3>1 DEF WInv, RequestsKnow, ClientSound, Fresh, Tables
    <3> HIDE DEF q
    <3>3. CASE r = q
      BY <3>1, <3>2, <3>3 DEF Tried, NewSteps
    <3>4. CASE r # q
      BY <3>1, <3>2, <3>4 DEF Tried
    <3> QED BY <3>3, <3>4
  <2>2. CASE ~InitializeSteps(c)
    <3>1. steps' = steps
      BY <2>2 DEF Begin, StartBegin, ActionBegin, Answering, ReadBack, RefreshRun, Prepare,
                  InsertRun, Defer, Crash, Launch, Resume, SubmitAction
    <3> QED BY <3>1 DEF Tried
  <2> QED BY <2>1, <2>2
<1> QED BY <1>1, <1>2, <1>3, AlikeUnheard, TallyStays

\* When the workflow is through with an answer, it is counted here as well.
LEMMA CountTally ==
    ASSUME WInv, Own, Tallied, NEW r \in RunIds, workflow[r] # None,
           workflow[r].at = "applied", workflow'[r].at # "applied", Count(r),
           \A p \in RunIds \ {r} : workflow'[p] = workflow[p],
           request' = request, steps' = steps
    PROVE  Own' /\ Tallied'
<1> DEFINE h == Head(workflow[r].actions).step
<1>1. /\ h \in Keys
  <2>1. workflow[r].actions \in Seq(Answer) /\ workflow[r].actions # <<>>
    BY DEF WInv, FlowsSound, IsFlow, IsWorkflow, Execution
  <2>2. Head(workflow[r].actions) \in Answer
    BY <2>1
  <2> QED BY <2>2 DEF Answer
<1>2. due' = [due EXCEPT ![r][h] = @ + 1]
  BY DEF Count
<1>3. \A w \in Workers : request[w] # None =>
        request[w].run \in RunIds /\ request[w].run # r
  BY DEF WInv, RequestsKnow, WorkerSound
<1>4. Own'
  BY <1>3 DEF Own
<1>5. /\ due' \in [RunIds -> [Keys -> Nat]]
      /\ due'[r][h] = due[r][h] + 1
      /\ \A k \in Keys \ {h} : due'[r][k] = due[r][k]
      /\ \A p \in RunIds \ {r} : due'[p] = due[p]
  BY <1>1, <1>2 DEF Tallied
<1>6. \A k : (Unheard(r, k) <=> k = h) /\ ~Unheard(r, k)'
  BY DEF Unheard
<1> HIDE DEF h
<1>7. ASSUME NEW p \in RunIds, NEW k \in Keys
      PROVE  Tried(p, k)' = due'[p][k] + (IF Unheard(p, k)' THEN 1 ELSE 0)
  <2>1. /\ Tried(p, k) = due[p][k] + (IF Unheard(p, k) THEN 1 ELSE 0)
        /\ due[p][k] \in Nat
    BY DEF Tallied
  <2>2. Tried(p, k)' = Tried(p, k)
    BY DEF Tried
  <2>3. CASE p # r
    <3>1. Unheard(p, k)' <=> Unheard(p, k)
      BY <2>3 DEF Unheard
    <3> QED BY <1>5, <2>1, <2>2, <2>3, <3>1
  <2>4. CASE p = r /\ k # h
    BY <1>5, <1>6, <2>1, <2>2, <2>4
  <2>5. CASE p = r /\ k = h
    BY <1>5, <1>6, <2>1, <2>2, <2>5
  <2> QED BY <2>3, <2>4, <2>5
<1> QED BY <1>4, <1>5, <1>7 DEF Tallied

\* What the workflow does.
LEMMA FlowTally ==
    ASSUME WInv, Own, Tallied, NEW r \in RunIds,
           Wake(r) \/ Applied(r) \/ Advanced(r) \/ ResultLost(r)
    PROVE  Own' /\ Tallied'
<1> DEFINE w == workflow[r]
<1>1. request' = request /\ steps' = steps
  BY DEF Wake, Applied, Advanced, ResultLost, vars
<1>2. /\ DOMAIN workflow = RunIds /\ w # None
      /\ DOMAIN w = {"at", "by", "resume", "actions"}
  BY DEF Wake, Applied, Advanced, ResultLost, WInv, FlowsSound, IsFlow, IsWorkflow,
         Execution
<1>3. \A p \in RunIds \ {r} : workflow'[p] = workflow[p]
  BY <1>2 DEF Wake, Applied, Advanced, ResultLost
<1>4. CASE w.at = "applied"
  <2>1. workflow'[r].at # "applied" /\ Count(r)
    <3>1. Applied(r) \/ ResultLost(r)
      BY <1>4 DEF Wake, Advanced
    <3>2. CASE Applied(r)
      BY <1>2, <3>2 DEF Applied
    <3>3. CASE ResultLost(r)
      BY <1>2, <1>4, <3>3 DEF ResultLost
    <3> QED BY <3>1, <3>2, <3>3
  <2> HIDE DEF w
  <2> QED BY <1>1, <1>2, <1>3, <1>4, <2>1, CountTally DEF w
<1>5. CASE w.at # "applied"
  <2>1. Wake(r) \/ Advanced(r) \/ ResultLost(r)
    BY <1>5 DEF Applied
  <2>2. due' = due
    BY <1>5, <2>1 DEF Wake, Advanced, ResultLost
  <2>3. Alike(r)
    <3>1. CASE Wake(r)
      BY <1>2, <3>1 DEF Wake, Alike
    <3>2. CASE Advanced(r)
      BY <1>2, <3>2 DEF Advanced, Alike
    <3>3. CASE ResultLost(r)
      BY <1>2, <1>5, <3>3 DEF ResultLost, Alike
    <3> QED BY <2>1, <3>1, <3>2, <3>3
  <2>4. \A p \in RunIds : Alike(p)
    BY <1>3, <2>3 DEF Alike
  <2>5. Own'
    BY <1>1, <2>4, OwnStays
  <2>6. \A p \in RunIds, k \in Keys : Tried(p, k)' = Tried(p, k)
    BY <1>1 DEF Tried
  <2> QED BY <2>2, <2>4, <2>5, <2>6, AlikeUnheard, TallyStays
<1> QED BY <1>4, <1>5

\* A new attempt is the one the workflow waits for, if no other is under way.
LEMMA AttemptTally ==
    ASSUME WInv, Own, Tallied, OneAttempt', NEW w \in Workers, NEW r \in RunIds,
           Attempt(w, r)
    PROVE  Own' /\ Tallied'
<1> DEFINE flow == workflow[r]
           h == Head(flow.actions).step
<1>1. /\ flow # None /\ flow.at \in {"advance", "apply"} /\ request[w] = None
      /\ workflow' = [workflow EXCEPT ![r].by = w] /\ steps' = steps /\ due' = due
  BY DEF Attempt
<1>2. /\ DOMAIN workflow = RunIds /\ DOMAIN flow = {"at", "by", "resume", "actions"}
      /\ DOMAIN request = Sessions /\ w \in Sessions
  BY <1>1, TypesFacts DEF WInv, FlowsSound, IsFlow, IsWorkflow, Execution, Tables
<1>3. /\ workflow'[r].by = w /\ workflow'[r].at = flow.at
      /\ workflow'[r].actions = flow.actions
      /\ \A p \in RunIds \ {r} : workflow'[p] = workflow[p]
  BY <1>1, <1>2
<1>4. /\ request'[w] # None /\ request'[w].run = r
      /\ request'[w].at = "action" => DOMAIN request'[w].held = {h}
      /\ \A v \in Workers \ {w} : request'[v] = request[v]
  <2> DEFINE held == IF flow.at = "advance" THEN NoSteps ELSE [k \in {h} |-> steps[r][k]]
             right == Head(flow.actions).code = "right"
             tried == [k \in DOMAIN held |-> Answered(k, held[k], right)]
             q == [at |-> IF flow.at = "advance" THEN "list" ELSE "action",
                   run |-> r, deferred |-> FALSE, base |-> runs[r], held |-> held,
                   steps |-> tried]
  <2>1. request' = [request EXCEPT ![w] = q]
    BY DEF Attempt
  <2>2. q.run = r /\ (q.at = "action" => DOMAIN q.held = {h})
    BY <1>1
  <2>3. runs[r] \in Run /\ IsStepTable(steps[r])
    BY <1>1 DEF WInv, Tables, FlowsSound
  <2>4. flow.at = "apply" => h \in DOMAIN steps[r]
    BY DEF Attempt, Applicable, Waiting
  <2>5. IsStepTable(held)
    BY <1>1, <2>3, <2>4, NoStepsFacts DEF IsStepTable
  <2>6. right \in BOOLEAN
    OBVIOUS
  <2> HIDE DEF held, right, h
  <2>7. \A k \in DOMAIN held : Answered(k, held[k], right) \in Step
    BY <2>5, <2>6, AnsweredFacts DEF IsStepTable
  <2>8. IsStepTable(tried)
    BY <2>5, <2>7 DEF IsStepTable
  <2> HIDE DEF tried
  <2>9. held \in StepTables /\ tried \in StepTables
    BY <2>5, <2>8 DEF IsStepTable, StepTables
  <2>10. q \in Begun
    BY <1>1, <2>3, <2>9 DEF Begun
  <2>11. q # None
    BY <2>10, WorkflowConstantsOK
  <2> HIDE DEF q
  <2> QED BY <1>2, <2>1, <2>2, <2>11
<1>5. Own'
  <2> SUFFICES ASSUME NEW v \in Workers, request'[v] # None
               PROVE  LET on == workflow'[request'[v].run] IN
                      /\ on.by = v
                      /\ request'[v].at = "action" =>
                           DOMAIN request'[v].held = {Head(on.actions).step}
    BY DEF Own
  <2>1. CASE v = w
    BY <1>3, <1>4, <2>1
  <2>2. CASE v # w
    <3>1. request'[v] = request[v] /\ request[v] # None
      BY <1>4, <2>2
    <3>2. request[v].run # r /\ request[v].run \in RunIds
      BY <1>4, <2>2, <3>1 DEF OneAttempt, WInv, RequestsKnow, WorkerSound
    <3> QED BY <1>3, <3>1, <3>2 DEF Own
  <2> QED BY <2>1, <2>2
<1>6. ASSUME NEW p \in RunIds, NEW k \in Keys
      PROVE  /\ Unheard(p, k)' <=> Unheard(p, k)
             /\ Tried(p, k)' = Tried(p, k)
  <2>1. Tried(p, k)' = Tried(p, k)
    BY <1>1 DEF Tried
  <2>2. CASE p = r
    <3>1. ~Unheard(p, k) /\ ~Unheard(p, k)'
      BY <1>1, <1>3, <2>2 DEF Unheard
    <3> QED BY <2>1, <3>1
  <2>3. CASE p # r
    BY <1>3, <2>1, <2>3 DEF Unheard
  <2> QED BY <2>2, <2>3
<1> QED BY <1>1, <1>5, <1>6, TallyStays

\* An answer counts one attempt more, and the workflow has yet to hear of it.
LEMMA AnsweredOnce ==
    ASSUME NEW k, NEW step \in Step, NEW right \in BOOLEAN
    PROVE  Answered(k, step, right).attempts = step.attempts + 1
<1> DEFINE tried == [step EXCEPT !.attempts = @ + 1]
<1>1. tried \in Step /\ tried.attempts = step.attempts + 1
  BY DEF Step
<1> HIDE DEF tried
<1>2. /\ Ended(tried, "completed", "pass").attempts = tried.attempts
      /\ Ended(tried, "failed", "fail").attempts = tried.attempts
      /\ [tried EXCEPT !.outcome = "pending"].attempts = tried.attempts
  BY <1>1 DEF Ended, Step
<1> QED BY <1>1, <1>2 DEF Answered, tried

LEMMA ApplyTally ==
    ASSUME WInv, Own, Tallied, OneAttempt, NEW w \in Workers, ApplyAttempt(w)
    PROVE  Own' /\ Tallied'
<1> DEFINE r == request[w]
           q == r.run
           h == Head(workflow[q].actions).step
<1>1. /\ r # None /\ r.at = "action" /\ steps' = Written(w, r.steps)
      /\ request' = [request EXCEPT ![w] = None] /\ due' = due
      /\ Completed(w, q, "applied")
  BY DEF ApplyAttempt, Close
<1>2. /\ q \in RunIds /\ IsStepTable(r.steps) /\ IsStepTable(r.held)
      /\ DOMAIN r.steps = DOMAIN r.held
      /\ \A k \in DOMAIN r.held : k \in DOMAIN steps[q] /\ steps[q][k] = r.held[k]
      /\ \A k \in DOMAIN r.held :
           \E right \in BOOLEAN : r.steps[k] = Answered(k, r.held[k], right)
      /\ workflow[q] # None /\ workflow[q].at = "apply"
  BY <1>1 DEF WInv, RequestsKnow, WorkerSound
<1>3. workflow[q].by = w /\ DOMAIN r.held = {h}
  BY <1>1 DEF Own
<1>4. /\ \A p \in RunIds \ {q} : steps'[p] = steps[p]
      /\ IsStepTable(steps'[q]) /\ DOMAIN steps'[q] = DOMAIN steps[q]
      /\ \A k \in DOMAIN steps[q] :
           IF k \in DOMAIN r.held
           THEN steps[q][k] = r.held[k] /\ steps'[q][k] = r.steps[k]
           ELSE steps'[q][k] = steps[q][k]
  BY <1>1, <1>2, WorkerWrites
<1>5. /\ DOMAIN workflow = RunIds
      /\ DOMAIN workflow[q] = {"at", "by", "resume", "actions"}
  BY <1>2 DEF WInv, FlowsSound, IsFlow, IsWorkflow, Execution
<1>6. /\ workflow'[q].at = "applied" /\ workflow'[q].actions = workflow[q].actions
      /\ workflow'[q] # None
      /\ \A p \in RunIds \ {q} : workflow'[p] = workflow[p]
  <2> DEFINE on == [workflow[q] EXCEPT !.at = "applied"]
  <2>1. workflow' = [workflow EXCEPT ![q] = on]
    BY <1>1, <1>3, <1>5 DEF Completed
  <2>2. on.at = "applied" /\ on.actions = workflow[q].actions /\ on # None
    <3>1. on.at = "applied" /\ on.actions = workflow[q].actions
      BY <1>5
    <3>2. IsFlow(on)
      BY <1>2 DEF WInv, FlowsSound, IsFlow, IsWorkflow, Execution, WorkflowPlaces
    <3> HIDE DEF on
    <3> QED BY <3>1, <3>2, TypesFacts
  <2> HIDE DEF on
  <2> QED BY <1>2, <1>5, <2>1, <2>2
<1>7. \A v \in Workers : request'[v] # None =>
        request'[v] = request[v] /\ request[v].run \in RunIds \ {q}
  <2>1. DOMAIN request = Sessions /\ Workers \subseteq Sessions
    BY TypesFacts DEF WInv, Tables
  <2> SUFFICES ASSUME NEW v \in Workers, request'[v] # None
               PROVE  request'[v] = request[v] /\ request[v].run \in RunIds \ {q}
    OBVIOUS
  <2>2. v # w /\ request'[v] = request[v] /\ request[v] # None
    BY <1>1, <2>1
  <2>3. request[v].run # q
    BY <1>1, <2>2 DEF OneAttempt
  <2> QED BY <2>2, <2>3 DEF WInv, RequestsKnow, WorkerSound
<1>8. Own'
  BY <1>6, <1>7 DEF Own
<1> HIDE DEF h
<1>9. ASSUME NEW p \in RunIds, NEW k \in Keys
      PROVE  Tried(p, k)' = due'[p][k] + (IF Unheard(p, k)' THEN 1 ELSE 0)
  <2>1. /\ Tried(p, k) = due[p][k] + (IF Unheard(p, k) THEN 1 ELSE 0)
        /\ due[p][k] \in Nat
    BY DEF Tallied
  <2>2. CASE p # q
    <3>1. (Unheard(p, k)' <=> Unheard(p, k)) /\ Tried(p, k)' = Tried(p, k)
      BY <1>4, <1>6, <2>2 DEF Unheard, Tried
    <3> QED BY <1>1, <2>1, <3>1
  <2>3. CASE p = q /\ k # h
    <3>1. ~Unheard(p, k) /\ ~Unheard(p, k)'
      BY <1>2, <1>6, <2>3 DEF Unheard, h
    <3>2. Tried(p, k)' = Tried(p, k)
      BY <1>3, <1>4, <2>3 DEF Tried
    <3> QED BY <1>1, <2>1, <3>1, <3>2
  <2>4. CASE p = q /\ k = h
    <3>1. ~Unheard(p, k) /\ Unheard(p, k)'
      BY <1>2, <1>6, <2>4 DEF Unheard, h
    <3>2. k \in DOMAIN r.held /\ r.held[k] \in Step
      BY <1>2, <1>3, <2>4 DEF IsStepTable
    <3>3. PICK right \in BOOLEAN : r.steps[k] = Answered(k, r.held[k], right)
      BY <1>2, <3>2
    <3>4. /\ k \in DOMAIN steps[q] /\ steps[q][k] = r.held[k]
          /\ k \in DOMAIN steps'[q] /\ steps'[q][k] = r.steps[k]
      BY <1>2, <1>4, <3>2
    <3>5. steps'[q][k].attempts = steps[q][k].attempts + 1
      BY <3>2, <3>3, <3>4, AnsweredOnce
    <3>6. Tried(p, k)' = Tried(p, k) + 1
      BY <2>4, <3>4, <3>5 DEF Tried
    <3> QED BY <1>1, <2>1, <3>1, <3>6
  <2> QED BY <2>2, <2>3, <2>4
<1> QED BY <1>1, <1>8, <1>9 DEF Tallied

\* A pass and all else that goes into it counts nothing.
LEMMA AdvanceTally ==
    ASSUME WInv, Own, Tallied, NEW w \in Workers, AdvanceAttempt(w)
    PROVE  Own' /\ Tallied'
<1> DEFINE r == request[w]
           q == r.run
<1>1. r # None /\ due' = due
  BY DEF AdvanceAttempt, FinalizeAttempt, ListSteps, AdvancePass, Crash, FinalizeRun,
         workflowVars
<1>2. /\ q \in RunIds /\ workflow[q] # None /\ DOMAIN r = RequestFields
      /\ r.at = "advance" => /\ workflow[q].at = "advance"
                             /\ r.steps = r.held /\ IsStepTable(r.steps)
      /\ \A k \in DOMAIN r.held : k \in DOMAIN steps[q] /\ steps[q][k] = r.held[k]
  BY <1>1 DEF WInv, RequestsKnow, WorkerSound
<1>3. /\ DOMAIN workflow = RunIds /\ DOMAIN request = Sessions /\ w \in Sessions
      /\ DOMAIN workflow[q] = {"at", "by", "resume", "actions"}
  BY <1>2, TypesFacts DEF WInv, FlowsSound, IsFlow, IsWorkflow, Execution, Tables
<1>4. ASSUME NEW p \in RunIds PROVE Alike(p)
  <2>1. CASE workflow' = workflow
    BY <2>1 DEF Alike
  <2>2. CASE FinalizeAttempt(w)
    <3>1. r.at = "advance" /\ Completed(w, q, "advanced")
      BY <2>2 DEF FinalizeAttempt, FinalizeRun
    <3>2. CASE p = q
      BY <1>2, <1>3, <3>1, <3>2 DEF Completed, Alike
    <3>3. CASE p # q
      BY <1>3, <3>1, <3>3 DEF Completed, Alike
    <3> QED BY <3>2, <3>3
  <2> QED BY <2>1, <2>2 DEF AdvanceAttempt, workflowVars
<1>5. ASSUME NEW v \in Workers, request'[v] # None
      PROVE  /\ request[v] # None /\ request'[v].run = request[v].run
             /\ request'[v].at = "action" => request'[v] = request[v]
  <2>1. v \in Sessions
    BY TypesFacts
  <2>2. CASE v # w
    <3>1. request'[v] = request[v]
      BY <2>1, <2>2 DEF AdvanceAttempt, FinalizeAttempt, ListSteps, AdvancePass, Crash,
                        FinalizeRun, Close, WInv, Tables
    <3> QED BY <1>5, <3>1
  <2>3. CASE v = w
    <3>1. CASE ListSteps(w)
      BY <1>1, <1>2, <1>3, <2>3, <3>1 DEF ListSteps, RequestFields
    <3>2. CASE AdvancePass(w)
      BY <1>1, <1>2, <1>3, <2>3, <3>2 DEF AdvancePass, RequestFields
    <3>3. CASE Crash(w) \/ FinalizeAttempt(w)
      BY <1>3, <1>5, <2>3, <3>3 DEF Crash, FinalizeAttempt, FinalizeRun, Close
    <3> QED BY <3>1, <3>2, <3>3 DEF AdvanceAttempt
  <2> QED BY <2>2, <2>3
<1>6. Own'
  BY <1>4, <1>5, OwnStays
<1>7. ASSUME NEW p \in RunIds, NEW k \in Keys PROVE Tried(p, k)' = Tried(p, k)
  <2>1. CASE steps' = steps
    BY <2>1 DEF Tried
  <2>2. CASE AdvancePass(w)
    <3> DEFINE moved == Pass(r.steps)
    <3>1. r.at = "advance" /\ steps' = Written(w, moved)
      BY <2>2 DEF AdvancePass
    <3>2. Onwards(r.held, moved) /\ IsStepTable(moved) /\ DOMAIN moved = DOMAIN r.held
      BY <1>2, <3>1, PassFacts DEF Onwards
    <3> HIDE DEF moved
    <3>3. /\ \A x \in RunIds \ {q} : steps'[x] = steps[x]
          /\ DOMAIN steps'[q] = DOMAIN steps[q]
          /\ \A x \in DOMAIN steps[q] :
               IF x \in DOMAIN r.held
               THEN steps[q][x] = r.held[x] /\ steps'[q][x] = moved[x]
               ELSE steps'[q][x] = steps[q][x]
      BY <1>1, <3>1, <3>2, WorkerWrites
    <3> HIDE DEF q
    <3>4. CASE p # q
      BY <3>3, <3>4 DEF Tried
    <3>5. CASE p = q
      <4>1. k \in DOMAIN steps[q] => steps'[q][k].attempts = steps[q][k].attempts
        BY <3>2, <3>3 DEF Onwards
      <4> QED BY <3>3, <3>5, <4>1 DEF Tried
    <3> QED BY <3>4, <3>5
  <2> QED BY <2>1, <2>2 DEF AdvanceAttempt, FinalizeAttempt, ListSteps, Crash, FinalizeRun
<1> QED BY <1>1, <1>4, <1>6, <1>7, AlikeUnheard, TallyStays

\* Nothing has been counted at first, and every step counts what it should.
LEMMA InitTally == WorkflowInit => Own /\ Tallied
<1> SUFFICES ASSUME WorkflowInit PROVE Own /\ Tallied
  OBVIOUS
<1>1. /\ steps = [r \in RunIds |-> NoSteps] /\ request = [c \in Sessions |-> None]
      /\ workflow = [r \in RunIds |-> None]
      /\ due = [r \in RunIds |-> [k \in Keys |-> 0]]
  BY DEF WorkflowInit, Init
<1>2. Own
  BY <1>1, TypesFacts DEF Own
<1>3. \A r \in RunIds, k \in Keys : Tried(r, k) = 0 /\ ~Unheard(r, k) /\ due[r][k] = 0
  BY <1>1, NoStepsFacts DEF Tried, Unheard
<1>4. due \in [RunIds -> [Keys -> Nat]]
  BY <1>1
<1> QED BY <1>2, <1>3, <1>4 DEF Tallied

LEMMA NextTally ==
    WInv /\ Own /\ Tallied /\ OneAttempt /\ OneAttempt' /\ [WorkflowNext]_allVars =>
        Own' /\ Tallied'
<1> SUFFICES ASSUME WInv, Own, Tallied, OneAttempt, OneAttempt', [WorkflowNext]_allVars
             PROVE  Own' /\ Tallied'
  OBVIOUS
<1>1. CASE UNCHANGED allVars
  BY <1>1 DEF allVars, vars, workflowVars, Own, Tallied, Tried, Unheard
<1>2. ASSUME NEW c \in Clients,
             Begin(c) \/ ReadBack(c) \/ Prepare(c) \/ Launch(c) \/ Resume(c) \/ SubmitAction(c)
      PROVE  Own' /\ Tallied'
  BY <1>2, ClientTally
<1>3. ASSUME NEW r \in RunIds, Wake(r) \/ Applied(r) \/ Advanced(r) \/ ResultLost(r)
      PROVE  Own' /\ Tallied'
  BY <1>3, FlowTally
<1>4. ASSUME NEW w \in Workers,
             (\E r \in RunIds : Attempt(w, r)) \/ ApplyAttempt(w) \/ AdvanceAttempt(w)
      PROVE  Own' /\ Tallied'
  BY <1>4, AttemptTally, ApplyTally, AdvanceTally
<1> QED BY <1>1, <1>2, <1>3, <1>4 DEF WorkflowNext

-----------------------------------------------------------------------------
(* The theorems.                                                           *)

\* The invariant the others rest on, while attempts at one activity do not
\* overlap.
THEOREM WorkflowInvariance == WorkflowSpec /\ []OneAttempt => []WInv
<1> QED BY InitWInv, NextWInv, PTL DEF WorkflowSpec

\* With a single worker they never do.
THEOREM OneWorkerSuffices ==
    ASSUME NEW w, Workers = {w}
    PROVE  WorkflowSpec => []WInv
<1>1. OneAttempt
  BY DEF OneAttempt
<1> QED BY <1>1, WorkflowInvariance, PTL

\* A workflow that closes leaves a run that is over.
THEOREM ClosedMeansOver == WorkflowSpec /\ []OneAttempt => []ClosedIsOver
<1>1. WInv => ClosedIsOver
  BY DEF WInv
<1> QED BY WorkflowInvariance, <1>1, PTL

\* The attempts of a step are the answers to it that took effect, each once, and
\* once more for every time its result was lost; a step that waits has one left.
THEOREM NoAnswerLost == WorkflowSpec /\ []OneAttempt => []AnswersAreCounted
<1>1. WInv /\ Tallied => AnswersAreCounted
  BY DEF WInv, Tables, IsStepTable, AllCounted, Counted, Tallied, Tried, AnswersAreCounted
<1> QED BY WorkflowInvariance, InitTally, NextTally, <1>1, PTL DEF WorkflowSpec

\* A run is decided on its steps as they are, or on none.
THEOREM DecidedAsTheyAre == WorkflowSpec /\ []OneAttempt => DecidedOnTheTables
<1> DEFINE A == \A r \in Existing : runs'[r].decision # runs[r].decision =>
                  \E w \in Workers : /\ request[w] # None /\ request[w].run = r
                                     /\ \/ DOMAIN request[w].steps = {}
                                        \/ /\ \A k \in Keys : Finished(k, steps[r])
                                           /\ runs'[r].decision = Decision(steps[r])
<1>1. WInv /\ [WorkflowNext]_allVars => [A]_allVars
  BY StepDecided
<1> QED BY WorkflowInvariance, <1>1, PTL DEF WorkflowSpec, DecidedOnTheTables

\* The result of a step stays, and so does a run that is over unless some request
\* went by an outdated or incomplete view.
THEOREM ResultsDoStay == WorkflowSpec /\ []OneAttempt => ResultsStay
<1> DEFINE A == \A r \in Existing :
                  /\ \A k \in DOMAIN steps[r] :
                       Finished(k, steps[r]) => steps'[r][k] = steps[r][k]
                  /\ ~disturbed' /\ ~runs[r].is_active => runs'[r] = runs[r]
<1>1. WInv /\ [WorkflowNext]_allVars => [A]_allVars
  BY StepResultStays, StepOverStays
<1> QED BY WorkflowInvariance, <1>1, PTL DEF WorkflowSpec, ResultsStay
=============================================================================
