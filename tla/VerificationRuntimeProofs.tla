---------------------- MODULE VerificationRuntimeProofs ----------------------
(***************************************************************************)
(* What VerificationRuntime guarantees for every flow of steps and rules,  *)
(* any number of runs, and any number of overlapping and dying requests.   *)
(*                                                                         *)
(* The argument.  Whatever happens in between, a request that is past the  *)
(* insertion of its run goes by a row of an active run without a decision, *)
(* or its run is one that was over when it was read back (RequestSound):   *)
(* of any other run a commit either leaves both columns alone or writes    *)
(* both, and the summary with them (RunMoves).  That is all the first two  *)
(* properties need.  The others hold of requests that go by what the       *)
(* tables say: their commits have the effect of their handler on the       *)
(* tables as they are (RunCalm), and no run is over when it is read back   *)
(* (Undisturbed).  What a pass over the steps does is shown by looking at  *)
(* the least number of turns after which it would not hold (PassFacts).    *)
(***************************************************************************)
EXTENDS VerificationRuntime, WellFoundedInduction, TLAPS

-----------------------------------------------------------------------------
(* Least and largest elements.                                             *)

\* A set of numbers that is not empty has a least element.
LEMMA Smallest ==
    ASSUME NEW T \in SUBSET Nat, T # {}
    PROVE  \E n \in T : \A m \in T : n <= m
<1> DEFINE Less == OpToRel(<, Nat)
<1>1. IsWellFoundedOn(Less, Nat)
  BY NatLessThanWellFounded
<1>2. \A m, n \in Nat : <<m, n>> \in Less <=> m < n
  BY DEF OpToRel
<1> HIDE DEF Less
<1>3. PICK n \in T : \A m \in T : ~(<<m, n>> \in Less)
  BY <1>1, WFMin
<1>4. \A m \in T : ~(m < n)
  BY <1>2, <1>3
<1> QED BY <1>4

\* Under a bound it has a largest one, the one Largest chooses.
LEMMA LargestFacts ==
    ASSUME NEW N \in Nat, NEW S \in SUBSET (1..N), S # {}
    PROVE  Largest(S) \in S /\ \A q \in S : q <= Largest(S)
<1> DEFINE T == {N - q : q \in S}
<1>1. \A q \in S : N - q \in Nat
  OBVIOUS
<1>2. T \in SUBSET Nat /\ T # {}
  BY <1>1
<1>3. PICK n \in T : \A m \in T : n <= m
  BY <1>2, Smallest
<1>4. PICK r \in S : n = N - r
  OBVIOUS
<1>5. \A q \in S : q <= r
  <2> TAKE q \in S
  <2>1. N - q \in T
    OBVIOUS
  <2> QED BY <1>3, <1>4, <2>1
<1> QED BY <1>5 DEF Largest

-----------------------------------------------------------------------------
(* A pass over the steps.                                                  *)

\* What came of the steps s: those that had begun are as they were, and one
\* that has begun since found the steps it depends on ended.
Onwards(s, t) ==
    /\ IsStepTable(t) /\ DOMAIN t = DOMAIN s
    /\ \A k \in DOMAIN s :
        \/ t[k] = s[k]
        \/ /\ s[k].status = "pending" /\ t[k].status # "pending"
           /\ t[k].attempts = s[k].attempts
           /\ DepsSatisfied(k, t)

\* The steps up to the i-th, as Pass goes through them.
Passing(s, f, n) ==
    f = [i \in 0..n |-> IF i = 0 THEN [steps |-> s, stopped |-> FALSE]
                                 ELSE Turn(f[i - 1], Order[i])]

\* The order of the steps is a sequence of keys.
LEMMA OrderFacts == Len(Order) \in Nat /\ \A i \in 1..Len(Order) : Order[i] \in Keys
<1>1. Order \in Seq(Keys)
  BY EngineConstantsOK
<1> QED BY <1>1

\* The function Pass defines by recursion exists, for any number of steps.
LEMMA PassingExists ==
    ASSUME NEW s, NEW n \in Nat
    PROVE  \E f : Passing(s, f, n)
<1> DEFINE Bad == {m \in Nat : ~\E f : Passing(s, f, m)}
<1> SUFFICES ASSUME Bad # {} PROVE FALSE
  OBVIOUS
<1>1. PICK m \in Bad : \A j \in Bad : m <= j
  BY Smallest
<1>2. ~\E f : Passing(s, f, m)
  OBVIOUS
<1>3. CASE m = 0
  <2> DEFINE g == [i \in 0..0 |-> [steps |-> s, stopped |-> FALSE]]
  <2>1. Passing(s, g, 0)
    BY DEF Passing
  <2> QED BY <1>2, <1>3, <2>1
<1>4. CASE m # 0
  <2>1. m - 1 \in Nat /\ m - 1 \notin Bad
    BY <1>1, <1>4
  <2>2. PICK f : Passing(s, f, m - 1)
    BY <2>1
  <2> DEFINE g == [i \in 0..m |-> IF i = m THEN Turn(f[m - 1], Order[m]) ELSE f[i]]
  <2>3. \A i \in 0..m : g[i] = IF i = 0 THEN [steps |-> s, stopped |-> FALSE]
                                        ELSE Turn(g[i - 1], Order[i])
    <3> TAKE i \in 0..m
    <3>1. CASE i = 0
      <4>1. g[i] = f[0]
        BY <1>4, <3>1
      <4> QED BY <2>1, <2>2, <3>1, <4>1 DEF Passing
    <3>2. CASE i = m
      <4>1. g[i] = Turn(f[m - 1], Order[m]) /\ g[m - 1] = f[m - 1]
        BY <1>4, <2>1, <3>2
      <4> QED BY <1>4, <3>2, <4>1
    <3>3. CASE i # 0 /\ i # m
      <4>1. i \in 0..(m - 1) /\ i - 1 \in 0..(m - 1) /\ i - 1 # m
        BY <2>1, <3>3
      <4>2. g[i] = f[i] /\ g[i - 1] = f[i - 1]
        BY <3>3, <4>1
      <4>3. f[i] = Turn(f[i - 1], Order[i])
        BY <2>2, <3>3, <4>1 DEF Passing
      <4> QED BY <3>3, <4>2, <4>3
    <3> QED BY <3>1, <3>2, <3>3
  <2>4. Passing(s, g, m)
    <3> DEFINE h == [i \in 0..m |-> IF i = 0 THEN [steps |-> s, stopped |-> FALSE]
                                             ELSE Turn(g[i - 1], Order[i])]
    <3>1. g = h
      BY <2>3
    <3> QED BY <3>1 DEF Passing
  <2> QED BY <1>2, <2>4
<1> QED BY <1>3, <1>4

\* Executing a step that is ready ends it or makes it wait.
LEMMA ExecutedFacts ==
    ASSUME NEW s, IsStepTable(s), NEW k \in DOMAIN s
    PROVE  /\ Executed(k, s) \in Step /\ Executed(k, s).status # "pending"
           /\ Executed(k, s).attempts = s[k].attempts
<1>1. k \in Keys /\ s[k] \in Step /\ DOMAIN s \subseteq Keys
  BY DEF IsStepTable
<1>2. Passed(s) \in SUBSET Keys
  BY <1>1 DEF Passed
<1>3. Compared[k][Passed(s)] \in Outcomes
  BY <1>1, <1>2, EngineConstantsOK
<1> QED BY <1>1, <1>3 DEF Executed, Ended, Step, StepStatuses, Outcomes

\* Going on is transitive where it keeps what had begun.
LEMMA OnwardsFinished ==
    ASSUME NEW s, NEW t, IsStepTable(s), Onwards(s, t), NEW d, Finished(d, s)
    PROVE  Finished(d, t) /\ t[d] = s[d]
  BY DEF Onwards, Finished, StepTerminal

\* One turn of the loop.
LEMMA TurnFacts ==
    ASSUME NEW s, IsStepTable(s), NEW x, Onwards(s, x.steps), NEW k \in Keys
    PROVE  Onwards(s, Turn(x, k).steps)
<1>1. CASE x.stopped \/ ~Ready(k, x.steps)
  BY <1>1 DEF Turn
<1>2. CASE ~(x.stopped \/ ~Ready(k, x.steps))
  <2> DEFINE before == x.steps
             step == Executed(k, before)
             t == [before EXCEPT ![k] = step]
  <2>1. Turn(x, k).steps = t
    BY <1>2 DEF Turn
  <2>2. /\ IsStepTable(before) /\ k \in DOMAIN before /\ DOMAIN before = DOMAIN s
        /\ before[k].status = "pending" /\ DepsSatisfied(k, before)
    BY <1>2 DEF Ready, Onwards
  <2>3. /\ step \in Step /\ step.status # "pending"
        /\ step.attempts = before[k].attempts
    BY <2>2, ExecutedFacts
  <2> HIDE DEF step
  <2>4. IsStepTable(t) /\ DOMAIN t = DOMAIN s /\ t[k] = step
        /\ \A j \in DOMAIN s \ {k} : t[j] = before[j]
    BY <2>2, <2>3 DEF IsStepTable
  <2> HIDE DEF t
  <2>5. \A d : Finished(d, before) => Finished(d, t)
    BY <2>2, <2>4 DEF Finished, StepTerminal
  <2>6. \A j : DepsSatisfied(j, before) => DepsSatisfied(j, t)
    BY <2>5 DEF DepsSatisfied
  <2>7. ASSUME NEW j \in DOMAIN s
        PROVE  \/ t[j] = s[j]
               \/ /\ s[j].status = "pending" /\ t[j].status # "pending"
                  /\ t[j].attempts = s[j].attempts
                  /\ DepsSatisfied(j, t)
    <3>1. CASE j = k
      <4>1. s[k].status = "pending" /\ s[k] = before[k]
        BY <2>2 DEF Onwards
      <4> QED BY <3>1, <4>1, <2>2, <2>3, <2>4, <2>6
    <3>2. CASE j # k
      <4>1. t[j] = before[j]
        BY <3>2, <2>4
      <4> QED BY <4>1, <2>6 DEF Onwards
    <3> QED BY <3>1, <3>2
  <2> QED BY <2>1, <2>4, <2>7 DEF Onwards
<1> QED BY <1>1, <1>2

\* What a pass makes of the steps.
LEMMA PassFacts ==
    ASSUME NEW s, IsStepTable(s)
    PROVE  Onwards(s, Pass(s))
<1> DEFINE N == Len(Order)
           first == [steps |-> s, stopped |-> FALSE]
<1>1. N \in Nat
  BY OrderFacts
<1>2. PICK g : Passing(s, g, N)
  BY <1>1, PassingExists
<1> DEFINE after[i \in 0..N] == IF i = 0 THEN first ELSE Turn(after[i - 1], Order[i])
<1>3. after = [i \in 0..N |-> IF i = 0 THEN first ELSE Turn(after[i - 1], Order[i])]
  BY <1>2 DEF Passing
<1>4. Pass(s) = after[N].steps
  BY DEF Pass
<1> HIDE DEF after
<1> DEFINE Bad == {i \in 0..N : ~Onwards(s, after[i].steps)}
<1>5. ASSUME Bad # {} PROVE FALSE
  <2>1. Bad \in SUBSET Nat
    BY <1>1
  <2>2. PICK i \in Bad : \A j \in Bad : i <= j
    BY <1>5, <2>1, Smallest
  <2>3. i \in 0..N /\ ~Onwards(s, after[i].steps)
    OBVIOUS
  <2>4. CASE i = 0
    <3>1. after[i].steps = s
      BY <1>3, <2>3, <2>4
    <3> QED BY <2>3, <3>1 DEF Onwards
  <2>5. CASE i # 0
    <3>1. i - 1 \in 0..N /\ i - 1 \notin Bad /\ i \in 1..N
      BY <1>1, <2>2, <2>3, <2>5
    <3>2. Onwards(s, after[i - 1].steps)
      BY <3>1
    <3>3. after[i] = Turn(after[i - 1], Order[i])
      BY <1>3, <2>3, <2>5
    <3>4. Order[i] \in Keys
      BY <3>1, OrderFacts
    <3>5. Onwards(s, Turn(after[i - 1], Order[i]).steps)
      BY <3>2, <3>4, TurnFacts
    <3> QED BY <2>3, <3>3, <3>5
  <2> QED BY <2>4, <2>5
<1>6. Onwards(s, after[N].steps)
  BY <1>1, <1>5
<1> QED BY <1>4, <1>6

-----------------------------------------------------------------------------
(* What a run is once no step moves.                                       *)

\* There is always a decision.
LEMMA DecisionFacts ==
    ASSUME NEW s
    PROVE  Decision(s) \in Decisions
<1>1. CASE Matching(s) = {}
  BY <1>1, EngineConstantsOK DEF Decision
<1>2. CASE Matching(s) # {}
  <2>1. Matching(s) \in SUBSET Nat /\ Matching(s) \subseteq 1..Len(Rules)
    BY EngineConstantsOK DEF Matching
  <2> DEFINE i == CHOOSE n \in Matching(s) : \A j \in Matching(s) : n <= j
  <2>2. i \in Matching(s)
    BY <1>2, <2>1, Smallest
  <2> HIDE DEF i
  <2>3. Rules[i].decision \in Decisions
    BY <2>1, <2>2, EngineConstantsOK
  <2> QED BY <1>2, <2>3 DEF Decision, i
<1> QED BY <1>1, <1>2

\* And there is a first step that waits, if any does.
LEMMA FirstWaitingFacts ==
    ASSUME NEW s, IsStepTable(s), Waiting(s) # {}
    PROVE  FirstWaiting(s) \in Keys
<1> DEFINE T == {i \in 1..Len(Order) : Order[i] \in Waiting(s)}
<1>1. T # {} /\ T \in SUBSET Nat
  BY OrderFacts DEF IsStepTable, Waiting, Keys
<1>2. PICK i \in T : \A j \in T : i <= j
  BY <1>1, Smallest
<1>3. \A j \in 1..(i - 1) : Order[j] \notin Waiting(s)
  <2> TAKE j \in 1..(i - 1)
  <2>1. j \in 1..Len(Order) /\ ~(i <= j)
    BY OrderFacts
  <2> QED BY <1>2, <2>1
<1>4. \E n \in 1..Len(Order) :
        /\ Order[n] \in Waiting(s)
        /\ \A j \in 1..(n - 1) : Order[j] \notin Waiting(s)
  BY <1>3
<1> QED BY <1>4, OrderFacts DEF FirstWaiting

\* A run that goes on keeps its decision; one that does not gets a decision.
LEMMA FinalizedFacts ==
    ASSUME NEW run \in Run, NEW s, IsStepTable(s)
    PROVE  /\ Finalized(run, s) \in Run
           /\ Finalized(run, s).is_active => Finalized(run, s).decision = run.decision
           /\ ~Finalized(run, s).is_active =>
                /\ \A k \in DOMAIN s : Finished(k, s)
                /\ Finalized(run, s).decision = Decision(s)
                /\ Finalized(run, s).status = StatusFor[Decision(s)]
                /\ Decision(s) \in Decisions
<1>1. Waiting(s) # {} => FirstWaiting(s) \in Keys
  BY FirstWaitingFacts
<1>2. Decision(s) \in Decisions
  BY DecisionFacts
<1>3. StatusFor[Decision(s)] \in RunStatuses
  BY <1>2 DEF Decisions, StatusFor, RunStatuses
<1> HIDE DEF Decision
<1> QED BY <1>1, <1>2, <1>3 DEF Finalized, Run, RunStatuses, Decidable

-----------------------------------------------------------------------------
(* The inductive invariant.                                                *)

\* The places of a start whose run has no steps yet.
Fresh == {"refresh", "init"}

\* What a request knows of its run.  From the insertion of the run on, the row
\* it goes by is that of a run that had not ended, unless that was read back late.
RequestSound(r) ==
    /\ r.at = "insert" => /\ runs[r.run] = None
                          /\ r.base # None => ~r.base.is_active
    /\ r.at # "insert" => /\ runs[r.run] # None /\ r.base \in Run
                          /\ \/ r.base.is_active /\ r.base.decision = None
                             \/ r.run \in overtaken
    /\ r.at \in Fresh => DOMAIN steps[r.run] = {}
    /\ r.at = "action" =>
         \A k \in DOMAIN r.held : r.held[k].status = "waiting_user_action"
    /\ r.at = "advance" => /\ r.steps = r.held
                           /\ ~disturbed => DOMAIN r.held = Keys /\ Keys # {}

RequestsSound == \A c \in Sessions : request[c] # None => RequestSound(request[c])

\* Nobody else has the run a request is about to insert, nor initializes it.
RunsApart ==
    \A c, d \in Sessions :
        (c # d /\ request[c] # None /\ request[d] # None
           /\ request[c].run = request[d].run) =>
               /\ request[c].at # "insert"
               /\ ~(request[c].at \in Fresh /\ request[d].at \in Fresh)

\* A run has no steps before it is there.  It is over once it is decided, and one
\* that was over when it was read back keeps a decision.
RowsSound ==
    \A q \in RunIds :
        IF runs[q] = None THEN DOMAIN steps[q] = {} /\ q \notin overtaken
        ELSE IF q \in overtaken THEN runs[q].decision # None
        ELSE runs[q].is_active <=> runs[q].decision = None

\* While every request goes by what the tables say, a run that is over has steps,
\* and so none is over before it has.
Undisturbed ==
    ~disturbed => /\ overtaken = {}
                  /\ \A q \in Existing : ~runs[q].is_active => DOMAIN steps[q] # {}

Safe == TypeOK /\ RequestsSound /\ RunsApart /\ RowsSound
IInv == /\ Safe
        /\ Undisturbed
        /\ SummaryAgrees
        /\ DecisionsFollow
        /\ DependenciesEnded
        /\ OneActiveRun

-----------------------------------------------------------------------------
(* What is read and what is written.                                       *)

\* The newest run is one of those there are.
LEMMA LatestFacts ==
    ASSUME Existing # {}
    PROVE  Latest \in Existing /\ \A q \in Existing : q <= Latest
<1>1. Existing \in SUBSET (1..MaxRuns)
  BY DEF Existing, RunIds
<1> QED BY <1>1, LargestFacts, RuntimeConstantsOK DEF Latest

\* The id of a new run is that of no row and of no run in flight.
LEMMA NextRunFacts ==
    ASSUME \A c \in Sessions : request[c] # None => request[c].run \in RunIds,
           NextRun \in RunIds
    PROVE  \A q \in Constructed : q # NextRun
<1>1. Constructed \in SUBSET (1..MaxRuns)
  BY DEF Constructed, Existing, RunIds
<1>2. CASE Constructed = {}
  BY <1>2
<1>3. CASE Constructed # {}
  <2>1. \A q \in Constructed : q <= Largest(Constructed)
    BY <1>1, <1>3, LargestFacts, RuntimeConstantsOK
  <2>2. Largest(Constructed) \in 1..MaxRuns
    BY <1>1, <1>3, LargestFacts, RuntimeConstantsOK
  <2>3. NextRun = Largest(Constructed) + 1
    BY <1>3 DEF NextRun
  <2> QED BY <1>1, <2>1, <2>2, <2>3
<1> QED BY <1>2, <1>3

\* A commit writes the columns that differ from those read.
LEMMA FlushRun ==
    ASSUME NEW row \in Run, NEW base \in Run, NEW mine \in Run
    PROVE  LET new == Flush(row, base, mine) IN
           /\ new \in Run
           /\ new.is_active = IF mine.is_active # base.is_active THEN mine.is_active
                                                                 ELSE row.is_active
           /\ new.decision = IF mine.decision # base.decision THEN mine.decision
                                                              ELSE row.decision
           /\ row = base => new = mine
<1>1. DOMAIN row = {"status", "is_active", "current", "decision"}
  BY DEF Run
<1> QED BY <1>1 DEF Flush, Run

\* What a commit writes of a step that was held.
LEMMA FlushStep ==
    ASSUME NEW row \in Step, NEW base \in Step, NEW mine \in Step
    PROVE  /\ Flush(row, base, mine) \in Step
           /\ row = base => Flush(row, base, mine) = mine
<1>1. DOMAIN row = {"status", "outcome", "attempts"}
  BY DEF Step
<1> QED BY <1>1 DEF Flush, Step

\* The steps of one run and no other; and what a request has changed in rows
\* that are as it read them is what they become.
LEMMA WrittenFacts ==
    ASSUME DOMAIN steps = RunIds, \A q \in RunIds : IsStepTable(steps[q]),
           NEW c, request[c].run \in RunIds, IsStepTable(request[c].held),
           NEW changed, IsStepTable(changed), DOMAIN changed = DOMAIN request[c].held
    PROVE  LET r == request[c]
               after == Written(c, changed)
           IN  /\ DOMAIN after = RunIds /\ r.run \in RunIds
               /\ \A q \in RunIds : q # r.run => after[q] = steps[q]
               /\ IsStepTable(after[r.run])
               /\ DOMAIN after[r.run] = DOMAIN steps[r.run]
               /\ \A k \in DOMAIN steps[r.run] :
                    /\ k \notin DOMAIN r.held => after[r.run][k] = steps[r.run][k]
                    /\ k \in DOMAIN r.held /\ steps[r.run][k] = r.held[k] =>
                         after[r.run][k] = changed[k]
<1> DEFINE r == request[c]
           old == steps[r.run]
           new == [k \in DOMAIN old |->
                     IF k \in DOMAIN r.held THEN Flush(old[k], r.held[k], changed[k])
                                            ELSE old[k]]
<1>1. /\ r.run \in RunIds /\ IsStepTable(r.held) /\ DOMAIN steps = RunIds
      /\ IsStepTable(old)
  OBVIOUS
<1>2. Written(c, changed) = [steps EXCEPT ![r.run] = new]
  BY DEF Written
<1>3. ASSUME NEW k \in DOMAIN old
      PROVE  /\ new[k] \in Step
             /\ k \notin DOMAIN r.held => new[k] = old[k]
             /\ k \in DOMAIN r.held /\ old[k] = r.held[k] => new[k] = changed[k]
  <2>1. old[k] \in Step
    BY <1>1 DEF IsStepTable
  <2>2. CASE k \in DOMAIN r.held
    <3>1. r.held[k] \in Step /\ changed[k] \in Step
      BY <1>1, <2>2 DEF IsStepTable
    <3> QED BY <2>1, <2>2, <3>1, FlushStep
  <2>3. CASE k \notin DOMAIN r.held
    BY <2>1, <2>3
  <2> QED BY <2>2, <2>3
<1>4. IsStepTable(new) /\ DOMAIN new = DOMAIN old
  BY <1>1, <1>3 DEF IsStepTable
<1> HIDE DEF new
<1> QED BY <1>1, <1>2, <1>3, <1>4

-----------------------------------------------------------------------------
(* What a step of one request does, whoever else is under way.             *)

\* To the row of a run: nothing; its insertion; a change that is not about its
\* end; its end, and then the summary says so; or, if it was over when it was
\* read back, anything that leaves it a decision.
RunMoves(c, q) ==
    \/ runs'[q] = runs[q]
    \/ /\ request[c] # None /\ request[c].run = q /\ request[c].at = "insert"
       /\ runs'[q] = NewRun
    \/ /\ runs[q] # None /\ runs'[q] \in Run
       /\ \/ /\ runs'[q].is_active = runs[q].is_active
             /\ runs'[q].decision = runs[q].decision
          \/ /\ ~runs'[q].is_active
             /\ runs'[q].decision \in Decisions
             /\ summary' = [run |-> q, decision |-> runs'[q].decision]
          \/ q \in overtaken /\ runs'[q].decision # None

\* To its steps: none come but by initialization, and none go.
StepsCome(c, q) ==
    DOMAIN steps[q] = {} =>
        \/ DOMAIN steps'[q] = {}
        \/ request[c] # None /\ request[c].run = q /\ request[c].at \in Fresh

Effect(c) ==
    /\ \A d \in Sessions \ {c} : request'[d] = request[d]
    /\ \A q \in RunIds : RunMoves(c, q) /\ StepsCome(c, q)
    /\ \/ summary' = summary
       \/ /\ summary'.run \in RunIds /\ runs[summary'.run] # None
          /\ runs'[summary'.run] \in Run /\ runs'[summary'.run].decision # None
          /\ summary'.run \notin overtaken =>
               /\ ~runs'[summary'.run].is_active
               /\ summary'.decision = runs'[summary'.run].decision
    /\ disturbed => disturbed'
    /\ overtaken \subseteq overtaken'
    /\ \A q \in overtaken' \ overtaken :
         runs[q] # None /\ ~runs[q].is_active /\ DOMAIN steps[q] = {}
    /\ request'[c] # None => RequestSound(request[c])'
    /\ request'[c] # None =>
         \A d \in Sessions \ {c} :
            (request[d] # None /\ request[d].run = request'[c].run) =>
                /\ request'[c].at # "insert" /\ request[d].at # "insert"
                /\ ~(request'[c].at \in Fresh /\ request[d].at \in Fresh)

\* A new run is a run.
LEMMA NewRunFacts == NewRun \in Run /\ NewRun # None
<1>1. NewRun \in Run
  BY DEF NewRun, Run, RunStatuses
<1> QED BY <1>1, RuntimeConstantsOK

\* A step with the effect of one of the handlers keeps what the types say.
LEMMA EffectSafe ==
    ASSUME Safe, TypeOK', NEW c \in Sessions, Effect(c)
    PROVE  Safe'
<1>1. ASSUME NEW d \in Sessions, request'[d] # None PROVE RequestSound(request[d])'
  <2>1. CASE d = c
    BY <1>1, <2>1 DEF Effect
  <2>2. CASE d # c
    <3>1. /\ request'[d] = request[d] /\ request[d] # None /\ RequestSound(request[d])
          /\ request[d].run \in RunIds
      BY <1>1, <2>2 DEF Effect, Safe, RequestsSound, TypeOK, IsRequest
    <3> DEFINE q == request[d].run
    <3>2. /\ RunMoves(c, q) /\ StepsCome(c, q) /\ (disturbed => disturbed')
          /\ overtaken \subseteq overtaken'
      BY <3>1 DEF Effect
    <3>3. request[c] # None /\ request[c].run = q =>
            /\ request[d].at # "insert"
            /\ ~(request[c].at \in Fresh /\ request[d].at \in Fresh)
      BY <2>2, <3>1 DEF Safe, RunsApart
    <3>4. request[d].at = "insert" => runs'[q] = None
      BY <3>1, <3>2, <3>3 DEF RunMoves, RequestSound
    <3>5. request[d].at # "insert" => runs'[q] # None
      BY <3>1, <3>2, NewRunFacts, RuntimeConstantsOK DEF RunMoves, RequestSound
    <3>6. request[d].at \in Fresh => DOMAIN steps'[q] = {}
      BY <3>1, <3>2, <3>3 DEF StepsCome, RequestSound
    <3> QED BY <3>1, <3>2, <3>4, <3>5, <3>6 DEF RequestSound
  <2> QED BY <2>1, <2>2
<1>2. RunsApart'
  <2> SUFFICES ASSUME NEW d \in Sessions, NEW e \in Sessions, d # e,
                      request'[d] # None, request'[e] # None,
                      request'[d].run = request'[e].run
               PROVE  /\ request'[d].at # "insert"
                      /\ ~(request'[d].at \in Fresh /\ request'[e].at \in Fresh)
    BY DEF RunsApart
  <2>1. CASE d # c /\ e # c
    BY <2>1 DEF Effect, Safe, RunsApart
  <2>2. CASE d = c
    BY <2>2 DEF Effect
  <2>3. CASE e = c
    BY <2>3 DEF Effect
  <2> QED BY <2>1, <2>2, <2>3
<1>3. RowsSound'
  <2> SUFFICES ASSUME NEW q \in RunIds
               PROVE  IF runs'[q] = None THEN DOMAIN steps'[q] = {} /\ q \notin overtaken'
                      ELSE IF q \in overtaken' THEN runs'[q].decision # None
                      ELSE runs'[q].is_active <=> runs'[q].decision = None
    BY DEF RowsSound
  <2>1. /\ RunMoves(c, q) /\ StepsCome(c, q) /\ overtaken \subseteq overtaken'
        /\ q \in overtaken' \ overtaken => runs[q] # None /\ ~runs[q].is_active
    BY DEF Effect
  <2>2. CASE runs'[q] = None
    <3>1. runs[q] = None
      BY <2>1, <2>2, NewRunFacts, RuntimeConstantsOK DEF RunMoves
    <3>2. DOMAIN steps[q] = {} /\ q \notin overtaken
      BY <3>1 DEF Safe, RowsSound
    <3>3. ~(request[c] # None /\ request[c].run = q /\ request[c].at \in Fresh)
      BY <3>1 DEF Safe, RequestsSound, RequestSound, Fresh
    <3> QED BY <2>1, <2>2, <3>1, <3>2, <3>3 DEF StepsCome
  <2>3. CASE runs'[q] # None
    <3>1. CASE runs'[q] = runs[q]
      BY <2>1, <2>3, <3>1 DEF Safe, RowsSound
    <3>2. CASE runs'[q] = NewRun /\ runs[q] = None
      <4>1. q \notin overtaken'
        BY <2>1, <3>2 DEF Safe, RowsSound
      <4> QED BY <2>3, <3>2, <4>1 DEF NewRun
    <3>3. CASE /\ runs[q] # None
               /\ runs'[q].is_active = runs[q].is_active
               /\ runs'[q].decision = runs[q].decision
      BY <2>1, <2>3, <3>3 DEF Safe, RowsSound
    <3>4. CASE ~runs'[q].is_active /\ runs'[q].decision \in Decisions
      BY <2>3, <3>4, EngineConstantsOK
    <3>5. CASE q \in overtaken /\ runs'[q].decision # None
      BY <2>1, <2>3, <3>5
    <3>6. runs'[q] = NewRun /\ request[c] # None /\ request[c].run = q
            /\ request[c].at = "insert" => runs[q] = None
      BY DEF Safe, RequestsSound, RequestSound
    <3> QED BY <2>1, <3>1, <3>2, <3>3, <3>4, <3>5, <3>6 DEF RunMoves
  <2> QED BY <2>2, <2>3
<1> QED BY <1>1, <1>2, <1>3 DEF Safe, RequestsSound

\* What was disturbed stays so.
LEMMA ObserveFacts ==
    ASSUME NEW c \in Sessions, Observe(c)
    PROVE  disturbed' \in BOOLEAN /\ (disturbed => disturbed')
  BY DEF Observe

\* Only the request itself moves.
LEMMA RequestMoves ==
    ASSUME TypeOK, NEW c \in Sessions, NEW r,
           request' = [request EXCEPT ![c] = r], r # None => IsRequest(r)
    PROVE  /\ DOMAIN request' = Sessions /\ request'[c] = r
           /\ \A d \in Sessions \ {c} : request'[d] = request[d]
           /\ \A d \in Sessions : request'[d] # None => IsRequest(request'[d])
  BY DEF TypeOK

\* A table untouched.
LEMMA SameTables ==
    ASSUME NEW c \in Sessions, runs' = runs, steps' = steps
    PROVE  \A q \in RunIds : RunMoves(c, q) /\ StepsCome(c, q)
  BY DEF RunMoves, StepsCome

\* A run without steps yet.
LEMMA NoStepsFacts == IsStepTable(NoSteps) /\ DOMAIN NoSteps = {}
  BY DEF IsStepTable, NoSteps

\* The steps a run gets.
LEMMA NewStepsFacts == IsStepTable(NewSteps) /\ DOMAIN NewSteps = Keys
  BY DEF IsStepTable, NewSteps, Step, StepStatuses

\* A step that was answered is a step.
LEMMA AnsweredFacts ==
    ASSUME NEW k, NEW step \in Step, NEW right \in BOOLEAN
    PROVE  Answered(k, step, right) \in Step
<1> DEFINE tried == [step EXCEPT !.attempts = @ + 1]
<1>1. tried \in Step
  BY DEF Step
<1>2. /\ Ended(tried, "completed", "pass") \in Step
      /\ Ended(tried, "failed", "fail") \in Step
      /\ [tried EXCEPT !.outcome = "pending"] \in Step
  BY <1>1 DEF Ended, Step, StepStatuses, Outcomes
<1> QED BY <1>2 DEF Answered

\* Beginning: reads only.
LEMMA StartBeginEffect ==
    ASSUME Safe, NEW c \in Sessions, NEW deferred \in BOOLEAN, StartBegin(c, deferred)
    PROVE  TypeOK' /\ Effect(c)
<1>1. CASE HasActiveRun
  <2> DEFINE r == [at |-> IF deferred THEN "defer" ELSE "list", run |-> Latest,
                   deferred |-> deferred, base |-> runs[Latest],
                   held |-> NoSteps, steps |-> NoSteps]
  <2>1. request[c] = None /\ request' = [request EXCEPT ![c] = r]
        /\ UNCHANGED <<runs, steps, summary, disturbed, overtaken>>
    BY <1>1 DEF StartBegin
  <2>2. /\ Latest \in RunIds /\ runs[Latest] # None /\ runs[Latest] \in Run
        /\ runs[Latest].is_active
    BY <1>1, LatestFacts DEF HasActiveRun, LatestRow, Existing, Safe, TypeOK
  <2>3. IsRequest(r)
    BY <2>2, NoStepsFacts DEF IsRequest, Places
  <2>4. r.at \in {"defer", "list"} /\ r.run = Latest /\ r.base = runs[Latest]
    OBVIOUS
  <2> HIDE DEF r
  <2>5. TypeOK' /\ request'[c] = r /\ \A d \in Sessions \ {c} : request'[d] = request[d]
    BY <2>1, <2>3, RequestMoves DEF Safe, TypeOK
  <2>6. RequestSound(request[c])'
    BY <2>1, <2>2, <2>4, <2>5 DEF Fresh, RequestSound, Safe, RowsSound
  <2>7. \A d \in Sessions \ {c} :
          request[d] # None /\ request[d].run = Latest => request[d].at # "insert"
    BY <2>2 DEF Safe, RequestsSound, RequestSound
  <2> QED BY <2>1, <2>4, <2>5, <2>6, <2>7, SameTables DEF Effect, Fresh
<1>2. CASE ~HasActiveRun
  <2> DEFINE r == [at |-> "insert", run |-> NextRun, deferred |-> deferred,
                   base |-> LatestRow, held |-> NoSteps, steps |-> NoSteps]
  <2>1. request[c] = None /\ NextRun \in RunIds
        /\ request' = [request EXCEPT ![c] = r]
        /\ UNCHANGED <<runs, steps, summary, disturbed, overtaken>>
    BY <1>2 DEF StartBegin
  <2>2. LatestRow \in Run \cup {None} /\ (LatestRow # None => ~LatestRow.is_active)
    BY <1>2, LatestFacts DEF HasActiveRun, LatestRow, Existing, Safe, TypeOK
  <2>3. IsRequest(r)
    BY <2>1, <2>2, NoStepsFacts DEF IsRequest, Places
  <2>4. r.at = "insert" /\ r.run = NextRun /\ r.base = LatestRow
    OBVIOUS
  <2> HIDE DEF r
  <2>5. TypeOK' /\ request'[c] = r /\ \A d \in Sessions \ {c} : request'[d] = request[d]
    BY <2>1, <2>3, RequestMoves DEF Safe, TypeOK
  <2>6. /\ runs[NextRun] = None
        /\ \A d \in Sessions : request[d] # None => request[d].run # NextRun
    BY <2>1, NextRunFacts DEF Constructed, Existing, Safe, TypeOK, IsRequest
  <2>7. RequestSound(request[c])'
    BY <2>1, <2>2, <2>4, <2>5, <2>6 DEF Fresh, RequestSound
  <2> QED BY <2>1, <2>4, <2>5, <2>6, <2>7, SameTables DEF Effect, Fresh
<1> QED BY <1>1, <1>2

\* The effect of an answer that is read.
LEMMA ActionBeginEffect ==
    ASSUME Safe, NEW c \in Sessions, NEW k \in Keys, NEW right \in BOOLEAN,
           ActionBegin(c, k, right)
    PROVE  TypeOK' /\ Effect(c)
<1> DEFINE answered == Answered(k, steps[Latest][k], right)
           r == [at |-> "action", run |-> Latest, deferred |-> FALSE,
                 base |-> runs[Latest], held |-> [j \in {k} |-> steps[Latest][k]],
                 steps |-> [j \in {k} |-> answered]]
<1>1. /\ request[c] = None /\ HasActiveRun /\ k \in Waiting(steps[Latest])
      /\ request' = [request EXCEPT ![c] = r]
      /\ UNCHANGED <<runs, steps, summary, disturbed, overtaken>>
  BY DEF ActionBegin, Answering
<1>2. /\ Latest \in RunIds /\ runs[Latest] # None /\ runs[Latest] \in Run
      /\ runs[Latest].is_active
  BY <1>1, LatestFacts DEF HasActiveRun, LatestRow, Existing, Safe, TypeOK
<1>3. steps[Latest][k] \in Step /\ steps[Latest][k].status = "waiting_user_action"
  BY <1>1, <1>2 DEF Safe, TypeOK, IsStepTable, Waiting
<1>4. answered \in Step
  BY <1>3, AnsweredFacts
<1> HIDE DEF answered
<1>5. IsRequest(r)
  BY <1>2, <1>3, <1>4 DEF IsRequest, Places, IsStepTable
<1>6. /\ r.at = "action" /\ r.run = Latest /\ r.base = runs[Latest]
      /\ \A j \in DOMAIN r.held : r.held[j].status = "waiting_user_action"
  BY <1>3
<1> HIDE DEF r
<1>7. TypeOK' /\ request'[c] = r /\ \A d \in Sessions \ {c} : request'[d] = request[d]
  BY <1>1, <1>5, RequestMoves DEF Safe, TypeOK
<1>8. RequestSound(request[c])'
  BY <1>1, <1>2, <1>6, <1>7 DEF Fresh, RequestSound, Safe, RowsSound
<1>9. \A d \in Sessions \ {c} :
        request[d] # None /\ request[d].run = Latest => request[d].at # "insert"
  BY <1>2 DEF Safe, RequestsSound, RequestSound
<1> QED BY <1>1, <1>6, <1>7, <1>8, <1>9, SameTables DEF Effect, Fresh

\* The effect of a request that dies.
LEMMA CrashEffect ==
    ASSUME Safe, NEW c \in Sessions, Crash(c)
    PROVE  TypeOK' /\ Effect(c)
<1>1. request' = [request EXCEPT ![c] = None]
      /\ UNCHANGED <<runs, steps, summary, disturbed, overtaken>>
  BY DEF Crash, Close
<1>2. TypeOK' /\ request'[c] = None /\ \A d \in Sessions \ {c} : request'[d] = request[d]
  BY <1>1, RequestMoves DEF Safe, TypeOK
<1> QED BY <1>1, <1>2, SameTables DEF Effect, Fresh

\* The commits.
LEMMA InsertRunEffect ==
    ASSUME Safe, NEW c \in Sessions, InsertRun(c)
    PROVE  TypeOK' /\ Effect(c)
<1> DEFINE r == request[c]
           s == [r EXCEPT !.at = "refresh", !.base = NewRun]
<1>1. /\ r # None /\ r.at = "insert" /\ IsRequest(r) /\ r.run \in RunIds
      /\ runs[r.run] = None /\ DOMAIN steps[r.run] = {}
  BY DEF InsertRun, Safe, TypeOK, IsRequest, RequestsSound, RequestSound, RowsSound
<1>2. /\ runs' = [runs EXCEPT ![r.run] = NewRun] /\ Observe(c)
      /\ request' = [request EXCEPT ![c] = s] /\ UNCHANGED <<steps, summary, overtaken>>
  BY DEF InsertRun
<1>3. IsRequest(s) /\ s.at = "refresh" /\ s.base = NewRun /\ s.run = r.run
  BY <1>1, NewRunFacts DEF IsRequest, Places
<1> HIDE DEF s
<1>4. /\ request'[c] = s /\ DOMAIN request' = Sessions
      /\ \A d \in Sessions \ {c} : request'[d] = request[d]
      /\ \A d \in Sessions : request'[d] # None => IsRequest(request'[d])
  BY <1>2, <1>3, RequestMoves DEF Safe
<1>5. runs' \in [RunIds -> Run \cup {None}] /\ runs'[r.run] = NewRun
      /\ \A q \in RunIds \ {r.run} : runs'[q] = runs[q]
  BY <1>1, <1>2, NewRunFacts DEF Safe, TypeOK
<1>6. TypeOK'
  BY <1>2, <1>4, <1>5, ObserveFacts DEF Safe, TypeOK
<1>7. RequestSound(request[c])'
  BY <1>1, <1>2, <1>3, <1>4, <1>5, NewRunFacts DEF RequestSound, NewRun, Fresh
<1>8. \A d \in Sessions \ {c} : request[d] # None => request[d].run # r.run
  BY <1>1 DEF Safe, RunsApart
<1>9. \A q \in RunIds : RunMoves(c, q) /\ StepsCome(c, q)
  BY <1>1, <1>2, <1>5 DEF RunMoves, StepsCome
<1> QED BY <1>2, <1>3, <1>4, <1>6, <1>7, <1>8, <1>9, ObserveFacts DEF Effect

\* The effect of reading the run back.
LEMMA RefreshRunEffect ==
    ASSUME Safe, NEW c \in Sessions, RefreshRun(c)
    PROVE  TypeOK' /\ Effect(c)
<1> DEFINE r == request[c]
           s == [r EXCEPT !.at = "init", !.base = runs[r.run]]
<1>1. /\ r # None /\ r.at = "refresh" /\ IsRequest(r) /\ r.run \in RunIds
      /\ runs[r.run] # None /\ runs[r.run] \in Run /\ DOMAIN steps[r.run] = {}
  BY DEF RefreshRun, Safe, TypeOK, IsRequest, RequestsSound, RequestSound, Fresh
<1>2. /\ request' = [request EXCEPT ![c] = s]
      /\ overtaken' = overtaken \cup {q \in {r.run} : ~runs[q].is_active}
      /\ UNCHANGED <<runs, steps, summary, disturbed>>
  BY DEF RefreshRun
<1>3. IsRequest(s) /\ s.at = "init" /\ s.base = runs[r.run] /\ s.run = r.run
  BY <1>1 DEF IsRequest, Places
<1> HIDE DEF s
<1>4. /\ request'[c] = s /\ DOMAIN request' = Sessions
      /\ \A d \in Sessions \ {c} : request'[d] = request[d]
      /\ \A d \in Sessions : request'[d] # None => IsRequest(request'[d])
  BY <1>2, <1>3, RequestMoves DEF Safe
<1>5. TypeOK'
  BY <1>1, <1>2, <1>4 DEF Safe, TypeOK
<1>6. r.run \in overtaken' \/ (runs[r.run].is_active /\ runs[r.run].decision = None)
  BY <1>1, <1>2 DEF Safe, RowsSound
<1>7. RequestSound(request[c])'
  BY <1>1, <1>2, <1>3, <1>4, <1>6 DEF RequestSound
<1>8. \A d \in Sessions \ {c} :
        request[d] # None /\ request[d].run = r.run =>
            request[d].at # "insert" /\ request[d].at \notin Fresh
  BY <1>1 DEF Safe, RunsApart, Fresh
<1>9. \A q \in RunIds : RunMoves(c, q) /\ StepsCome(c, q)
  BY <1>2, SameTables
<1>10. \A q \in overtaken' \ overtaken :
         runs[q] # None /\ ~runs[q].is_active /\ DOMAIN steps[q] = {}
  BY <1>1, <1>2
<1> QED BY <1>2, <1>3, <1>4, <1>5, <1>7, <1>8, <1>9, <1>10 DEF Effect

\* The effect of the insertion of the steps.
LEMMA InitializeStepsEffect ==
    ASSUME Safe, NEW c \in Sessions, InitializeSteps(c)
    PROVE  TypeOK' /\ Effect(c)
<1> DEFINE r == request[c]
           s == [r EXCEPT !.at = IF r.deferred THEN "defer" ELSE "list"]
<1>1. /\ r # None /\ r.at = "init" /\ IsRequest(r) /\ r.run \in RunIds
      /\ runs[r.run] # None /\ r.base \in Run
      /\ \/ r.base.is_active /\ r.base.decision = None
         \/ r.run \in overtaken
  BY DEF InitializeSteps, Safe, TypeOK, IsRequest, RequestsSound, RequestSound
<1>2. /\ steps' = [steps EXCEPT ![r.run] = NewSteps] /\ Observe(c)
      /\ request' = [request EXCEPT ![c] = s] /\ UNCHANGED <<runs, summary, overtaken>>
  BY DEF InitializeSteps, Goto
<1>3. IsRequest(s) /\ s.at \in {"defer", "list"} /\ s.run = r.run /\ s.base = r.base
  BY <1>1 DEF IsRequest, Places
<1> HIDE DEF s
<1>4. /\ request'[c] = s /\ DOMAIN request' = Sessions
      /\ \A d \in Sessions \ {c} : request'[d] = request[d]
      /\ \A d \in Sessions : request'[d] # None => IsRequest(request'[d])
  BY <1>2, <1>3, RequestMoves DEF Safe
<1>5. /\ DOMAIN steps' = RunIds /\ steps'[r.run] = NewSteps
      /\ \A q \in RunIds \ {r.run} : steps'[q] = steps[q]
  BY <1>1, <1>2 DEF Safe, TypeOK
<1>6. TypeOK'
  BY <1>2, <1>4, <1>5, ObserveFacts, NewStepsFacts DEF Safe, TypeOK
<1>7. RequestSound(request[c])'
  BY <1>1, <1>2, <1>3, <1>4 DEF RequestSound, Fresh
<1>8. \A d \in Sessions \ {c} :
        request[d] # None /\ request[d].run = r.run => request[d].at # "insert"
  BY <1>1 DEF Safe, RunsApart
<1>9. \A q \in RunIds : RunMoves(c, q) /\ StepsCome(c, q)
  BY <1>1, <1>2, <1>5 DEF RunMoves, StepsCome, Fresh
<1> QED BY <1>2, <1>3, <1>4, <1>6, <1>7, <1>8, <1>9, ObserveFacts DEF Effect, Fresh

\* The effect of deferring a run.
LEMMA DeferEffect ==
    ASSUME Safe, NEW c \in Sessions, Defer(c)
    PROVE  TypeOK' /\ Effect(c)
<1> DEFINE r == request[c]
           mine == [r.base EXCEPT !.status = "pending", !.current = None]
           row == Flush(runs[r.run], r.base, mine)
<1>1. /\ r # None /\ r.at = "defer" /\ IsRequest(r) /\ r.run \in RunIds
      /\ runs[r.run] # None /\ runs[r.run] \in Run /\ r.base \in Run
  BY DEF Defer, Safe, TypeOK, IsRequest, RequestsSound, RequestSound
<1>2. /\ runs' = [runs EXCEPT ![r.run] = row] /\ Observe(c)
      /\ request' = [request EXCEPT ![c] = None] /\ UNCHANGED <<steps, summary, overtaken>>
  BY DEF Defer, Close
<1>3. mine \in Run /\ mine.is_active = r.base.is_active
      /\ mine.decision = r.base.decision
  BY <1>1 DEF Run, RunStatuses
<1> HIDE DEF mine
<1>4. row \in Run /\ row.is_active = runs[r.run].is_active
      /\ row.decision = runs[r.run].decision
  BY <1>1, <1>3, FlushRun
<1> HIDE DEF row
<1>5. /\ request'[c] = None /\ DOMAIN request' = Sessions
      /\ \A d \in Sessions \ {c} : request'[d] = request[d]
      /\ \A d \in Sessions : request'[d] # None => IsRequest(request'[d])
  BY <1>2, RequestMoves DEF Safe
<1>6. runs' \in [RunIds -> Run \cup {None}] /\ runs'[r.run] = row
      /\ \A q \in RunIds \ {r.run} : runs'[q] = runs[q]
  BY <1>1, <1>2, <1>4 DEF Safe, TypeOK
<1>7. TypeOK'
  BY <1>2, <1>5, <1>6, ObserveFacts DEF Safe, TypeOK
<1>8. \A q \in RunIds : RunMoves(c, q) /\ StepsCome(c, q)
  BY <1>1, <1>2, <1>4, <1>6 DEF RunMoves, StepsCome
<1> QED BY <1>2, <1>5, <1>7, <1>8, ObserveFacts DEF Effect

\* Written keeps the tables what they are.
LEMMA WrittenEffect ==
    ASSUME Safe, NEW c \in Sessions, request[c] # None, NEW changed,
           IsStepTable(changed), DOMAIN changed = DOMAIN request[c].held,
           steps' = Written(c, changed), runs' = runs
    PROVE  /\ DOMAIN steps' = RunIds
           /\ \A q \in RunIds : IsStepTable(steps'[q]) /\ DOMAIN steps'[q] \in {{}, Keys}
           /\ \A q \in RunIds : RunMoves(c, q) /\ StepsCome(c, q)
<1> DEFINE r == request[c]
           after == Written(c, changed)
<1>1. /\ DOMAIN after = RunIds /\ r.run \in RunIds
      /\ \A q \in RunIds : q # r.run => after[q] = steps[q]
      /\ IsStepTable(after[r.run]) /\ DOMAIN after[r.run] = DOMAIN steps[r.run]
  BY WrittenFacts DEF Safe, TypeOK, IsRequest
<1> HIDE DEF after
<1>2. steps' = after
  BY DEF after
<1>3. \A q \in RunIds : /\ IsStepTable(steps'[q])
                        /\ DOMAIN steps'[q] = DOMAIN steps[q]
  BY <1>1, <1>2 DEF Safe, TypeOK
<1> QED BY <1>1, <1>2, <1>3 DEF Safe, TypeOK, RunMoves, StepsCome

\* The effect of the commit of an answer.
LEMMA CommitActionEffect ==
    ASSUME Safe, NEW c \in Sessions, CommitAction(c)
    PROVE  TypeOK' /\ Effect(c)
<1> DEFINE r == request[c]
           s == [r EXCEPT !.at = "list", !.held = r.steps]
<1>1. /\ r # None /\ r.at = "action" /\ IsRequest(r)
      /\ runs[r.run] # None /\ r.base \in Run
      /\ \/ r.base.is_active /\ r.base.decision = None
         \/ r.run \in overtaken
  BY DEF CommitAction, Safe, TypeOK, RequestsSound, RequestSound
<1>2. /\ steps' = Written(c, r.steps) /\ Observe(c)
      /\ request' = [request EXCEPT ![c] = s] /\ UNCHANGED <<runs, summary, overtaken>>
  BY DEF CommitAction
<1>3. IsRequest(s) /\ s.at = "list" /\ s.run = r.run /\ s.base = r.base
  BY <1>1 DEF IsRequest, Places
<1>4. IsStepTable(r.steps) /\ DOMAIN r.steps = DOMAIN r.held
  BY <1>1 DEF IsRequest
<1> HIDE DEF s
<1>5. /\ request'[c] = s /\ DOMAIN request' = Sessions
      /\ \A d \in Sessions \ {c} : request'[d] = request[d]
      /\ \A d \in Sessions : request'[d] # None => IsRequest(request'[d])
  BY <1>2, <1>3, RequestMoves DEF Safe
<1>6. /\ DOMAIN steps' = RunIds
      /\ \A q \in RunIds : IsStepTable(steps'[q]) /\ DOMAIN steps'[q] \in {{}, Keys}
      /\ \A q \in RunIds : RunMoves(c, q) /\ StepsCome(c, q)
  BY <1>1, <1>2, <1>4, WrittenEffect
<1>7. TypeOK'
  BY <1>2, <1>5, <1>6, ObserveFacts DEF Safe, TypeOK
<1>8. RequestSound(request[c])'
  BY <1>1, <1>2, <1>3, <1>5 DEF RequestSound, Fresh
<1>9. \A d \in Sessions \ {c} :
        request[d] # None /\ request[d].run = r.run => request[d].at # "insert"
  BY <1>1 DEF Safe, RunsApart
<1> QED BY <1>2, <1>3, <1>5, <1>6, <1>7, <1>8, <1>9, ObserveFacts DEF Effect, Fresh

\* A session that lists the steps undisturbed has all of them.
LEMMA ListStepsEffect ==
    ASSUME Safe, NEW c \in Sessions, ListSteps(c)
    PROVE  TypeOK' /\ Effect(c)
<1> DEFINE r == request[c]
           listed == [k \in DOMAIN steps[r.run] |->
                        IF k \in DOMAIN r.held THEN r.steps[k] ELSE steps[r.run][k]]
           s == [r EXCEPT !.at = "advance", !.held = listed, !.steps = listed]
<1>1. /\ r # None /\ r.at = "list" /\ IsRequest(r) /\ r.run \in RunIds
      /\ runs[r.run] # None /\ r.base \in Run
      /\ \/ r.base.is_active /\ r.base.decision = None
         \/ r.run \in overtaken
  BY DEF ListSteps, Safe, TypeOK, IsRequest, RequestsSound, RequestSound
<1>2. /\ Observe(c) /\ request' = [request EXCEPT ![c] = s]
      /\ UNCHANGED <<runs, steps, summary, overtaken>>
  BY DEF ListSteps
<1>3. IsStepTable(listed) /\ DOMAIN listed = DOMAIN steps[r.run]
  BY <1>1 DEF IsStepTable, IsRequest, Safe, TypeOK
<1>4. ~disturbed' => DOMAIN listed = Keys /\ Keys # {}
  <2>1. DOMAIN steps[r.run] = {} => steps[r.run] = NoSteps
    BY <1>1 DEF NoSteps, Safe, TypeOK, IsStepTable
  <2>2. ~disturbed' => steps[r.run] # NoSteps
    BY <1>1, <1>2 DEF Observe, Outdated
  <2> QED BY <1>1, <1>3, <2>1, <2>2 DEF Safe, TypeOK
<1> HIDE DEF listed
<1>5. /\ IsRequest(s) /\ s.at = "advance" /\ s.run = r.run /\ s.base = r.base
      /\ s.held = listed /\ s.steps = listed
  BY <1>1, <1>3 DEF IsRequest, Places
<1> HIDE DEF s
<1>6. /\ request'[c] = s /\ DOMAIN request' = Sessions
      /\ \A d \in Sessions \ {c} : request'[d] = request[d]
      /\ \A d \in Sessions : request'[d] # None => IsRequest(request'[d])
  BY <1>2, <1>5, RequestMoves DEF Safe
<1>7. TypeOK'
  BY <1>2, <1>6, ObserveFacts DEF Safe, TypeOK
<1>8. RequestSound(request[c])'
  BY <1>1, <1>2, <1>4, <1>5, <1>6 DEF RequestSound, Fresh
<1>9. \A d \in Sessions \ {c} :
        request[d] # None /\ request[d].run = r.run => request[d].at # "insert"
  BY <1>1 DEF Safe, RunsApart
<1> QED BY <1>2, <1>5, <1>6, <1>7, <1>8, <1>9, SameTables, ObserveFacts DEF Effect, Fresh

\* The effect of the commit of a pass.
LEMMA AdvancePassEffect ==
    ASSUME Safe, NEW c \in Sessions, AdvancePass(c)
    PROVE  TypeOK' /\ Effect(c)
<1> DEFINE r == request[c]
           moved == Pass(r.steps)
           s == [r EXCEPT !.held = moved, !.steps = moved]
<1>1. /\ r # None /\ r.at = "advance" /\ IsRequest(r)
      /\ runs[r.run] # None /\ r.base \in Run /\ r.steps = r.held
      /\ \/ r.base.is_active /\ r.base.decision = None
         \/ r.run \in overtaken
      /\ ~disturbed => DOMAIN r.held = Keys /\ Keys # {}
  BY DEF AdvancePass, Safe, TypeOK, RequestsSound, RequestSound
<1>2. /\ steps' = Written(c, moved) /\ Observe(c)
      /\ request' = [request EXCEPT ![c] = s] /\ UNCHANGED <<runs, summary, overtaken>>
  BY DEF AdvancePass
<1>3. IsStepTable(moved) /\ DOMAIN moved = DOMAIN r.held
  BY <1>1, PassFacts DEF Onwards, IsRequest
<1> HIDE DEF moved
<1>4. /\ IsRequest(s) /\ s.at = "advance" /\ s.run = r.run /\ s.base = r.base
      /\ s.held = moved /\ s.steps = moved
  BY <1>1, <1>3 DEF IsRequest, Places
<1> HIDE DEF s
<1>5. /\ request'[c] = s /\ DOMAIN request' = Sessions
      /\ \A d \in Sessions \ {c} : request'[d] = request[d]
      /\ \A d \in Sessions : request'[d] # None => IsRequest(request'[d])
  BY <1>2, <1>4, RequestMoves DEF Safe
<1>6. /\ DOMAIN steps' = RunIds
      /\ \A q \in RunIds : IsStepTable(steps'[q]) /\ DOMAIN steps'[q] \in {{}, Keys}
      /\ \A q \in RunIds : RunMoves(c, q) /\ StepsCome(c, q)
  BY <1>1, <1>2, <1>3, WrittenEffect
<1>7. TypeOK'
  BY <1>2, <1>5, <1>6, ObserveFacts DEF Safe, TypeOK
<1>8. RequestSound(request[c])'
  BY <1>1, <1>2, <1>3, <1>4, <1>5, ObserveFacts DEF RequestSound, Fresh
<1>9. \A d \in Sessions \ {c} :
        request[d] # None /\ request[d].run = r.run => request[d].at # "insert"
  BY <1>1 DEF Safe, RunsApart
<1> QED BY <1>2, <1>4, <1>5, <1>6, <1>7, <1>8, <1>9, ObserveFacts DEF Effect, Fresh

\* The end of a run comes with its decision and with the summary.
LEMMA FinalizeRunEffect ==
    ASSUME Safe, NEW c \in Sessions, FinalizeRun(c)
    PROVE  TypeOK' /\ Effect(c)
<1> DEFINE r == request[c]
           final == Finalized(r.base, r.steps)
           row == Flush(runs[r.run], r.base, final)
<1>1. /\ r # None /\ r.at = "advance" /\ IsRequest(r) /\ r.run \in RunIds
      /\ runs[r.run] # None /\ runs[r.run] \in Run /\ r.base \in Run
      /\ \/ r.base.is_active /\ r.base.decision = None
         \/ r.run \in overtaken /\ runs[r.run].decision # None
  BY DEF FinalizeRun, Safe, TypeOK, IsRequest, RequestsSound, RequestSound, RowsSound
<1>2. /\ runs' = [runs EXCEPT ![r.run] = row] /\ Observe(c)
      /\ summary' = IF final.is_active THEN summary
                    ELSE [run |-> r.run, decision |-> final.decision]
      /\ request' = [request EXCEPT ![c] = None] /\ UNCHANGED <<steps, overtaken>>
  BY DEF FinalizeRun, Close
<1>3. /\ final \in Run
      /\ final.is_active => final.decision = r.base.decision
      /\ ~final.is_active => final.decision \in Decisions
  BY <1>1, FinalizedFacts DEF IsRequest
<1> HIDE DEF final
<1>4. /\ row \in Run
      /\ r.run \notin overtaken =>
           /\ final.is_active => /\ row.is_active = runs[r.run].is_active
                                 /\ row.decision = runs[r.run].decision
           /\ ~final.is_active => /\ ~row.is_active /\ row.decision = final.decision
      /\ r.run \in overtaken => row.decision # None
      /\ ~final.is_active => row.decision # None
  <2>1. None \notin Decisions
    BY EngineConstantsOK
  <2>2. /\ row \in Run
        /\ row.is_active = IF final.is_active # r.base.is_active
                             THEN final.is_active ELSE runs[r.run].is_active
        /\ row.decision = IF final.decision # r.base.decision
                            THEN final.decision ELSE runs[r.run].decision
    BY <1>1, <1>3, FlushRun
  <2>3. final.is_active \in BOOLEAN /\ r.base.is_active \in BOOLEAN
    BY <1>1, <1>3 DEF Run
  <2>4. CASE r.run \notin overtaken
    BY <1>1, <1>3, <2>1, <2>2, <2>3, <2>4
  <2>5. CASE r.run \in overtaken
    <3>1. runs[r.run].decision # None
      BY <1>1, <2>5 DEF Safe, RowsSound
    <3>2. row.decision # None
      BY <1>3, <2>1, <2>2, <3>1
    <3> QED BY <2>2, <2>5, <3>2
  <2> QED BY <2>4, <2>5
<1> HIDE DEF row
<1>5. /\ request'[c] = None /\ DOMAIN request' = Sessions
      /\ \A d \in Sessions \ {c} : request'[d] = request[d]
      /\ \A d \in Sessions : request'[d] # None => IsRequest(request'[d])
  BY <1>2, RequestMoves DEF Safe
<1>6. runs' \in [RunIds -> Run \cup {None}] /\ runs'[r.run] = row
      /\ \A q \in RunIds \ {r.run} : runs'[q] = runs[q]
  BY <1>1, <1>2, <1>4 DEF Safe, TypeOK
<1>7. TypeOK'
  BY <1>1, <1>2, <1>3, <1>5, <1>6, ObserveFacts DEF Safe, TypeOK
<1>8. \A q \in RunIds : RunMoves(c, q) /\ StepsCome(c, q)
  BY <1>1, <1>2, <1>3, <1>4, <1>6 DEF RunMoves, StepsCome
<1>9. summary' # summary =>
        /\ summary'.run = r.run /\ row.decision # None
        /\ r.run \notin overtaken => ~row.is_active /\ summary'.decision = row.decision
  BY <1>2, <1>4
<1> QED BY <1>1, <1>2, <1>4, <1>5, <1>6, <1>7, <1>8, <1>9, ObserveFacts DEF Effect

\* Every step is one request's.
LEMMA StepEffect ==
    ASSUME Safe, Next
    PROVE  TypeOK' /\ \E c \in Sessions : Effect(c)
<1>1. PICK c \in Sessions :
        \/ \E deferred \in BOOLEAN : StartBegin(c, deferred)
        \/ \E k \in Keys, right \in BOOLEAN : ActionBegin(c, k, right)
        \/ Work(c)
        \/ Crash(c)
  BY DEF Next
<1>2. TypeOK' /\ Effect(c)
  BY <1>1, StartBeginEffect, ActionBeginEffect, InsertRunEffect, RefreshRunEffect,
     InitializeStepsEffect, DeferEffect, CommitActionEffect, ListStepsEffect, AdvancePassEffect,
     FinalizeRunEffect, CrashEffect DEF Work
<1> QED BY <1>2

-----------------------------------------------------------------------------
(* What it does while every request goes by what the tables say.           *)

\* What DecisionsFollow says of a run that is over.
Decided(q) ==
    /\ \A k \in Keys : Finished(k, steps[q])
    /\ runs[q].decision = Decision(steps[q])
    /\ runs[q].status = StatusFor[runs[q].decision]

\* The steps of a run come, go on by a pass, or are answered by the user.
StepsMove(q) ==
    \/ steps'[q] = steps[q]
    \/ DOMAIN steps[q] = {} /\ steps'[q] = NewSteps
    \/ Onwards(steps[q], steps'[q])
    \/ /\ DOMAIN steps'[q] = DOMAIN steps[q]
       /\ \A k \in DOMAIN steps[q] : \/ steps'[q][k] = steps[q][k]
                                     \/ steps[q][k].status = "waiting_user_action"

\* A run that is over stays as it is, one that ends has been decided, and one
\* that comes is the newest and the only active one.
RunCalm(q) ==
    /\ StepsMove(q)
    /\ (runs[q] # None /\ ~runs[q].is_active) =>
         runs'[q] = runs[q] /\ steps'[q] = steps[q]
    /\ (runs[q] # None /\ runs[q].is_active /\ ~runs'[q].is_active) =>
         Decided(q)' /\ DOMAIN steps'[q] # {}
    /\ (runs[q] = None /\ runs'[q] # None) =>
         \A p \in RunIds : runs[p] # None => ~runs[p].is_active /\ p <= q

\* A step that leaves the tables alone.
LEMMA SameCalm ==
    ASSUME runs' = runs, steps' = steps
    PROVE  \A q \in RunIds : RunCalm(q)
  BY DEF RunCalm, StepsMove

\* What a request that is not outdated knows.
LEMMA CalmRequest ==
    ASSUME Safe, NEW c \in Sessions, Observe(c), ~disturbed', request[c] # None
    PROVE  LET r == request[c] IN
           /\ ~disturbed /\ r.run \in RunIds
           /\ r.at = "insert" => /\ LatestRow = r.base
                                 /\ \A q \in Existing : q <= r.run
           /\ r.at # "insert" => runs[r.run] = r.base
           /\ \A k \in DOMAIN r.held : /\ k \in DOMAIN steps[r.run]
                                       /\ steps[r.run][k] = r.held[k]
<1>1. request[c].run \in RunIds
  BY DEF Safe, TypeOK, IsRequest
<1>2. \A q \in Existing : q \in Nat
  BY RuntimeConstantsOK DEF Existing, RunIds
<1>3. ~disturbed /\ ~Outdated(c)
  BY DEF Observe
<1> QED BY <1>1, <1>2, <1>3, RuntimeConstantsOK DEF Outdated, RunIds

\* A run is inserted by a request that goes by the tables.
LEMMA InsertRunCalm ==
    ASSUME IInv, NEW c \in Sessions, InsertRun(c), ~disturbed', NEW q \in RunIds
    PROVE  RunCalm(q)
<1> DEFINE r == request[c]
<1>1. /\ r # None /\ r.at = "insert" /\ Observe(c) /\ steps' = steps
      /\ runs' = [runs EXCEPT ![r.run] = NewRun]
  BY DEF InsertRun
<1>2. /\ ~disturbed /\ r.run \in RunIds /\ LatestRow = r.base
      /\ \A p \in Existing : p <= r.run
  BY <1>1, CalmRequest DEF IInv
<1>3. runs[r.run] = None /\ (r.base # None => ~r.base.is_active)
  BY <1>1 DEF IInv, Safe, RequestsSound, RequestSound, Undisturbed, Fresh
<1>4. ASSUME NEW p \in RunIds, runs[p] # None PROVE ~runs[p].is_active
  <2>1. p \in Existing
    BY <1>4 DEF Existing
  <2>2. /\ Latest \in Existing /\ p <= Latest /\ runs[Latest] = r.base
    BY <1>2, <2>1, LatestFacts DEF LatestRow
  <2>3. ~runs[Latest].is_active
    BY <1>3, <2>2 DEF Existing
  <2>4. SUFFICES ASSUME runs[p].is_active PROVE FALSE
    OBVIOUS
  <2>5. Latest <= p
    BY <1>2, <2>1, <2>2, <2>4 DEF IInv, OneActiveRun
  <2>6. Latest = p
    BY <2>2, <2>5, RuntimeConstantsOK DEF Existing, RunIds
  <2> QED BY <2>3, <2>4, <2>6
<1>5. DOMAIN runs = RunIds
  BY DEF IInv, Safe, TypeOK
<1>6. CASE q = r.run
  BY <1>1, <1>2, <1>3, <1>4, <1>5, <1>6 DEF RunCalm, StepsMove, Existing
<1>7. CASE q # r.run
  BY <1>1, <1>5, <1>7 DEF RunCalm, StepsMove
<1> QED BY <1>6, <1>7

\* Its steps are inserted.
LEMMA InitializeStepsCalm ==
    ASSUME IInv, NEW c \in Sessions, InitializeSteps(c), ~disturbed', NEW q \in RunIds
    PROVE  RunCalm(q)
<1> DEFINE r == request[c]
<1>1. /\ r # None /\ r.at = "init" /\ Observe(c) /\ runs' = runs
      /\ steps' = [steps EXCEPT ![r.run] = NewSteps]
  BY DEF InitializeSteps
<1>2. ~disturbed /\ r.run \in RunIds /\ runs[r.run] = r.base
  BY <1>1, CalmRequest DEF IInv
<1>3. runs[r.run].is_active /\ runs[r.run] # None /\ DOMAIN steps[r.run] = {}
  BY <1>1, <1>2 DEF IInv, Safe, RequestsSound, RequestSound, Undisturbed, Fresh
<1>4. DOMAIN steps = RunIds
  BY DEF IInv, Safe, TypeOK
<1>5. CASE q = r.run
  BY <1>1, <1>3, <1>4, <1>5 DEF RunCalm, StepsMove
<1>6. CASE q # r.run
  BY <1>1, <1>4, <1>6 DEF RunCalm, StepsMove
<1> QED BY <1>5, <1>6

\* It is deferred.
LEMMA DeferCalm ==
    ASSUME IInv, NEW c \in Sessions, Defer(c), ~disturbed', NEW q \in RunIds
    PROVE  RunCalm(q)
<1> DEFINE r == request[c]
           mine == [r.base EXCEPT !.status = "pending", !.current = None]
<1>1. /\ r # None /\ r.at = "defer" /\ Observe(c) /\ steps' = steps
      /\ runs' = [runs EXCEPT ![r.run] = Flush(@, r.base, mine)]
  BY DEF Defer
<1>2. ~disturbed /\ r.run \in RunIds /\ runs[r.run] = r.base
  BY <1>1, CalmRequest DEF IInv
<1>3. runs[r.run].is_active /\ runs[r.run] # None /\ r.base \in Run
  BY <1>1, <1>2 DEF IInv, Safe, RequestsSound, RequestSound, Undisturbed, Fresh
<1>4. mine \in Run /\ mine.is_active
  BY <1>2, <1>3 DEF Run, RunStatuses
<1> HIDE DEF mine
<1>5. Flush(runs[r.run], r.base, mine) = mine
  BY <1>2, <1>3, <1>4, FlushRun
<1>6. DOMAIN runs = RunIds
  BY DEF IInv, Safe, TypeOK
<1>7. CASE q = r.run
  BY <1>1, <1>3, <1>4, <1>5, <1>6, <1>7 DEF RunCalm, StepsMove
<1>8. CASE q # r.run
  BY <1>1, <1>6, <1>8 DEF RunCalm, StepsMove
<1> QED BY <1>7, <1>8

\* An answer is committed.
LEMMA CommitActionCalm ==
    ASSUME IInv, NEW c \in Sessions, CommitAction(c), ~disturbed', NEW q \in RunIds
    PROVE  RunCalm(q)
<1> DEFINE r == request[c]
           after == Written(c, r.steps)
<1>1. /\ r # None /\ r.at = "action" /\ Observe(c) /\ runs' = runs /\ steps' = after
  BY DEF CommitAction
<1>2. /\ ~disturbed /\ r.run \in RunIds /\ runs[r.run] = r.base
      /\ \A k \in DOMAIN r.held : k \in DOMAIN steps[r.run] /\ steps[r.run][k] = r.held[k]
  BY <1>1, CalmRequest DEF IInv
<1>3. /\ runs[r.run].is_active /\ runs[r.run] # None
      /\ \A k \in DOMAIN r.held : r.held[k].status = "waiting_user_action"
  BY <1>1, <1>2 DEF IInv, Safe, RequestsSound, RequestSound, Undisturbed, Fresh
<1>4. TypeOK /\ IsStepTable(r.steps) /\ DOMAIN r.steps = DOMAIN r.held
  BY <1>1 DEF IInv, Safe, TypeOK, IsRequest
<1>5. /\ \A p \in RunIds : p # r.run => after[p] = steps[p]
      /\ DOMAIN after[r.run] = DOMAIN steps[r.run]
      /\ \A k \in DOMAIN steps[r.run] :
           k \notin DOMAIN r.held => after[r.run][k] = steps[r.run][k]
  BY <1>1, <1>2, <1>4, WrittenFacts DEF TypeOK, IsRequest
<1> HIDE DEF after
<1>6. CASE q = r.run
  <2>1. StepsMove(q)
    BY <1>1, <1>2, <1>3, <1>5, <1>6 DEF StepsMove
  <2> QED BY <1>1, <1>3, <1>6, <2>1 DEF RunCalm
<1>7. CASE q # r.run
  BY <1>1, <1>5, <1>7 DEF RunCalm, StepsMove
<1> QED BY <1>6, <1>7

\* An undisturbed pass works on all the steps of the run as they are.
LEMMA CalmAdvance ==
    ASSUME IInv, NEW c \in Sessions, Observe(c), ~disturbed',
           request[c] # None, request[c].at = "advance"
    PROVE  LET r == request[c] IN
           /\ r.run \in RunIds /\ runs[r.run] = r.base /\ runs[r.run].is_active
           /\ runs[r.run] # None /\ r.base \in Run
           /\ DOMAIN steps[r.run] = Keys /\ DOMAIN r.held = Keys /\ Keys # {}
           /\ r.steps = steps[r.run] /\ IsStepTable(steps[r.run])
<1> DEFINE r == request[c]
<1>1. /\ ~disturbed /\ r.run \in RunIds /\ runs[r.run] = r.base
      /\ \A k \in DOMAIN r.held : k \in DOMAIN steps[r.run] /\ steps[r.run][k] = r.held[k]
  BY CalmRequest DEF IInv
<1>2. /\ r.base.is_active /\ runs[r.run] # None /\ r.base \in Run /\ r.steps = r.held
      /\ DOMAIN r.held = Keys /\ Keys # {}
  BY <1>1 DEF IInv, Safe, RequestsSound, RequestSound, Undisturbed, Fresh
<1>3. IsStepTable(r.held) /\ IsStepTable(steps[r.run])
  BY <1>1 DEF IInv, Safe, TypeOK, IsRequest
<1>4. DOMAIN steps[r.run] = Keys
  BY <1>1, <1>2, <1>3 DEF IsStepTable
<1>5. r.held = steps[r.run]
  BY <1>1, <1>2, <1>3, <1>4 DEF IsStepTable
<1> QED BY <1>1, <1>2, <1>3, <1>4, <1>5

\* A pass is committed.
LEMMA AdvancePassCalm ==
    ASSUME IInv, NEW c \in Sessions, AdvancePass(c), ~disturbed', NEW q \in RunIds
    PROVE  RunCalm(q)
<1> DEFINE r == request[c]
           moved == Pass(r.steps)
           after == Written(c, moved)
<1>1. /\ r # None /\ r.at = "advance" /\ Observe(c) /\ runs' = runs /\ steps' = after
  BY DEF AdvancePass
<1>2. /\ r.run \in RunIds /\ runs[r.run].is_active /\ runs[r.run] # None
      /\ DOMAIN steps[r.run] = Keys /\ DOMAIN r.held = Keys
      /\ r.steps = steps[r.run] /\ IsStepTable(steps[r.run])
  BY <1>1, CalmAdvance
<1>3. Onwards(steps[r.run], moved) /\ IsStepTable(moved) /\ DOMAIN moved = Keys
  BY <1>2, PassFacts DEF Onwards
<1> HIDE DEF moved
<1>4. /\ \A p \in RunIds : p # r.run => after[p] = steps[p]
      /\ IsStepTable(after[r.run]) /\ DOMAIN after[r.run] = Keys
      /\ \A k \in Keys : steps[r.run][k] = r.held[k] => after[r.run][k] = moved[k]
  BY <1>1, <1>2, <1>3, WrittenFacts DEF IInv, Safe, TypeOK, IsRequest
<1> HIDE DEF after
<1>5. r.held = steps[r.run]
  BY <1>1, <1>2 DEF IInv, Safe, RequestsSound, RequestSound, Undisturbed, Fresh
<1>6. after[r.run] = moved
  BY <1>3, <1>4, <1>5 DEF IsStepTable
<1>7. CASE q = r.run
  BY <1>1, <1>2, <1>3, <1>6, <1>7 DEF RunCalm, StepsMove
<1>8. CASE q # r.run
  BY <1>1, <1>4, <1>8 DEF RunCalm, StepsMove
<1> QED BY <1>7, <1>8

\* A run is finalized.
LEMMA FinalizeRunCalm ==
    ASSUME IInv, NEW c \in Sessions, FinalizeRun(c), ~disturbed', NEW q \in RunIds
    PROVE  RunCalm(q)
<1> DEFINE r == request[c]
           final == Finalized(r.base, r.steps)
<1>1. /\ r # None /\ r.at = "advance" /\ Observe(c) /\ steps' = steps
      /\ runs' = [runs EXCEPT ![r.run] = Flush(@, r.base, final)]
  BY DEF FinalizeRun
<1>2. /\ r.run \in RunIds /\ runs[r.run] = r.base /\ runs[r.run].is_active
      /\ runs[r.run] # None /\ r.base \in Run
      /\ DOMAIN steps[r.run] = Keys /\ Keys # {}
      /\ r.steps = steps[r.run] /\ IsStepTable(steps[r.run])
  BY <1>1, CalmAdvance
<1>3. /\ final \in Run
      /\ ~final.is_active => /\ \A k \in Keys : Finished(k, steps[r.run])
                             /\ final.decision = Decision(steps[r.run])
                             /\ final.status = StatusFor[final.decision]
  BY <1>2, FinalizedFacts
<1> HIDE DEF final
<1>4. Flush(runs[r.run], r.base, final) = final
  BY <1>2, <1>3, FlushRun
<1>5. DOMAIN runs = RunIds
  BY DEF IInv, Safe, TypeOK
<1>6. CASE q = r.run
  <2>1. runs'[q] = final
    BY <1>1, <1>2, <1>4, <1>5, <1>6
  <2>2. ~runs'[q].is_active => Decided(q)' /\ DOMAIN steps'[q] # {}
    BY <1>1, <1>2, <1>3, <1>6, <2>1 DEF Decided
  <2> QED BY <1>1, <1>2, <1>6, <2>2 DEF RunCalm, StepsMove
<1>7. CASE q # r.run
  BY <1>1, <1>5, <1>7 DEF RunCalm, StepsMove
<1> QED BY <1>6, <1>7

\* Every step that is not outdated has the effect of its handler on the tables as they are.
LEMMA StepCalm ==
    ASSUME IInv, Next, ~disturbed'
    PROVE  ~disturbed /\ \A q \in RunIds : RunCalm(q)
<1>1. PICK c \in Sessions :
        \/ \E deferred \in BOOLEAN : StartBegin(c, deferred)
        \/ \E k \in Keys, right \in BOOLEAN : ActionBegin(c, k, right)
        \/ Work(c)
        \/ Crash(c)
  BY DEF Next
<1>2. ~disturbed
  BY StepEffect DEF Effect, IInv
<1>3. CASE \E deferred \in BOOLEAN : StartBegin(c, deferred)
  BY <1>2, <1>3, SameCalm DEF StartBegin
<1>4. CASE \E k \in Keys, right \in BOOLEAN : ActionBegin(c, k, right)
  BY <1>2, <1>4, SameCalm DEF ActionBegin, Answering
<1>5. CASE Work(c)
  <2>1. ListSteps(c) \/ RefreshRun(c) => \A q \in RunIds : RunCalm(q)
    BY SameCalm DEF ListSteps, RefreshRun
  <2> QED BY <1>2, <1>5, <2>1, InsertRunCalm, InitializeStepsCalm, DeferCalm,
             CommitActionCalm, AdvancePassCalm, FinalizeRunCalm DEF Work
<1>6. CASE Crash(c)
  BY <1>2, <1>6, SameCalm DEF Crash
<1> QED BY <1>1, <1>3, <1>4, <1>5, <1>6

-----------------------------------------------------------------------------
(* The invariant is inductive.                                             *)

\* There is nothing at first.
LEMMA InitIInv == Init => IInv
<1> SUFFICES ASSUME Init PROVE IInv
  OBVIOUS
<1>1. /\ runs = [r \in RunIds |-> None] /\ steps = [r \in RunIds |-> NoSteps]
      /\ summary = None /\ request = [c \in Sessions |-> None] /\ disturbed = FALSE
      /\ overtaken = {}
  BY DEF Init
<1>2. Safe
  BY <1>1, NoStepsFacts DEF Safe, TypeOK, RequestsSound, RunsApart, RowsSound
<1>3. Existing = {}
  BY <1>1 DEF Existing
<1> QED BY <1>1, <1>2, <1>3, NoStepsFacts
        DEF IInv, Undisturbed, SummaryAgrees, DecisionsFollow, DependenciesEnded,
            OneActiveRun

\* A run that is over is never active again, unless it was when it was read back.
LEMMA StepOverIsOver ==
    ASSUME Safe, Next, NEW q \in Existing \ overtaken, ~runs[q].is_active
    PROVE  ~runs'[q].is_active
<1>1. PICK c \in Sessions : Effect(c)
  BY StepEffect
<1>2. RunMoves(c, q) /\ q \in RunIds /\ runs[q] # None
  BY <1>1 DEF Effect, Existing
<1>3. ~(request[c] # None /\ request[c].run = q /\ request[c].at = "insert")
  BY <1>2 DEF Safe, RequestsSound, RequestSound
<1> QED BY <1>2, <1>3 DEF RunMoves

\* SummaryAgrees is kept.
LEMMA StepSummary ==
    ASSUME IInv, Next
    PROVE  SummaryAgrees'
<1>1. PICK c \in Sessions : Effect(c)
  BY StepEffect DEF IInv
<1>2. CASE summary' # summary
  <2>1. /\ summary'.run \in RunIds /\ runs'[summary'.run] \in Run
        /\ runs'[summary'.run].decision # None
        /\ summary'.run \notin overtaken =>
             /\ ~runs'[summary'.run].is_active
             /\ summary'.decision = runs'[summary'.run].decision
        /\ overtaken \subseteq overtaken'
    BY <1>1, <1>2 DEF Effect
  <2> QED BY <2>1, RuntimeConstantsOK DEF SummaryAgrees
<1>3. CASE summary' = summary /\ summary # None
  <2> DEFINE q == summary.run
  <2>1. /\ q \in RunIds /\ runs[q] # None /\ runs[q].decision # None
        /\ q \notin overtaken => /\ ~runs[q].is_active
                                 /\ summary.decision = runs[q].decision
    BY <1>3 DEF IInv, SummaryAgrees, Safe, TypeOK
  <2>2. RunMoves(c, q) /\ overtaken \subseteq overtaken'
    BY <1>1, <2>1 DEF Effect
  <2>3. ~(request[c] # None /\ request[c].run = q /\ request[c].at = "insert")
    BY <2>1 DEF IInv, Safe, RequestsSound, RequestSound
  <2>4. runs'[q] # None /\ runs'[q].decision # None
    BY <2>1, <2>2, <2>3, RuntimeConstantsOK, EngineConstantsOK DEF RunMoves
  <2>5. ASSUME q \notin overtaken'
        PROVE  ~runs'[q].is_active /\ summary'.decision = runs'[q].decision
    <3>1. q \in Existing \ overtaken /\ ~runs[q].is_active
      BY <2>1, <2>2, <2>5 DEF Existing
    <3>2. ~runs'[q].is_active
      BY <3>1, StepOverIsOver DEF IInv
    <3> QED BY <1>3, <2>1, <2>2, <2>3, <3>1, <3>2 DEF RunMoves
  <2> QED BY <1>3, <2>4, <2>5 DEF SummaryAgrees
<1>4. CASE summary' = None
  BY <1>4 DEF SummaryAgrees
<1> QED BY <1>2, <1>3, <1>4

\* Undisturbed is kept.
LEMMA StepUndisturbed ==
    ASSUME IInv, Next
    PROVE  Undisturbed'
<1> SUFFICES ASSUME ~disturbed'
             PROVE  /\ overtaken' = {}
                    /\ \A q \in RunIds : runs'[q] # None /\ ~runs'[q].is_active =>
                         DOMAIN steps'[q] # {}
  BY DEF Undisturbed, Existing
<1>1. /\ ~disturbed /\ \A q \in RunIds : RunCalm(q)
      /\ overtaken = {} /\ \A q \in Existing : ~runs[q].is_active => DOMAIN steps[q] # {}
  BY StepCalm DEF IInv, Undisturbed
<1>2. PICK c \in Sessions : Effect(c)
  BY StepEffect DEF IInv
<1>3. overtaken' = {}
  <2>1. \A q \in overtaken' : q \in Existing /\ ~runs[q].is_active /\ DOMAIN steps[q] = {}
    <3>1. overtaken' \subseteq RunIds
      BY StepEffect DEF IInv, TypeOK
    <3> QED BY <1>1, <1>2, <3>1 DEF Effect, Existing
  <2> QED BY <1>1, <2>1
<1>4. ASSUME NEW q \in RunIds, runs'[q] # None, ~runs'[q].is_active
      PROVE  DOMAIN steps'[q] # {}
  <2>1. CASE runs[q] = None
    <3>1. runs'[q] = NewRun
      BY <1>2, <1>4, <2>1 DEF Effect, RunMoves
    <3> QED BY <1>4, <3>1 DEF NewRun
  <2>2. CASE runs[q] # None /\ runs[q].is_active
    BY <1>1, <1>4, <2>2 DEF RunCalm
  <2>3. CASE runs[q] # None /\ ~runs[q].is_active
    <3>1. DOMAIN steps[q] # {}
      BY <1>1, <2>3 DEF Existing
    <3>2. steps'[q] = steps[q]
      BY <1>1, <2>3 DEF RunCalm
    <3> QED BY <3>1, <3>2
  <2> QED BY <2>1, <2>2, <2>3
<1> QED BY <1>3, <1>4

\* Whatever moved the steps of a run, the ones that had ended are as they were,
\* and those that have begun found what they depend on ended.
LEMMA StepsMoveFacts ==
    ASSUME TypeOK, NEW q \in RunIds, StepsMove(q)
    PROVE  /\ \A k : Finished(k, steps[q]) =>
                       Finished(k, steps'[q]) /\ steps'[q][k] = steps[q][k]
           /\ \A k \in DOMAIN steps'[q] : steps'[q][k].status # "pending" =>
                \/ DepsSatisfied(k, steps'[q])
                \/ k \in DOMAIN steps[q] /\ steps[q][k].status # "pending"
<1>1. IsStepTable(steps[q])
  BY DEF TypeOK
<1>2. CASE steps'[q] = steps[q]
  BY <1>2
<1>3. CASE DOMAIN steps[q] = {} /\ steps'[q] = NewSteps
  BY <1>3 DEF NewSteps, Finished
<1>4. CASE Onwards(steps[q], steps'[q])
  BY <1>1, <1>4, OnwardsFinished DEF Onwards
<1>5. CASE /\ DOMAIN steps'[q] = DOMAIN steps[q]
           /\ \A k \in DOMAIN steps[q] : \/ steps'[q][k] = steps[q][k]
                                         \/ steps[q][k].status = "waiting_user_action"
  BY <1>5 DEF Finished, StepTerminal
<1> QED BY <1>2, <1>3, <1>4, <1>5 DEF StepsMove

\* DependenciesEnded is kept.
LEMMA StepDependencies ==
    ASSUME IInv, Next
    PROVE  DependenciesEnded'
<1> SUFFICES ASSUME ~disturbed', NEW q \in RunIds, NEW k \in DOMAIN steps'[q],
                    steps'[q][k].status # "pending", NEW d \in DependsOn[k]
             PROVE  Finished(d, steps'[q])
  BY DEF DependenciesEnded
<1>1. ~disturbed /\ StepsMove(q) /\ TypeOK
  BY StepCalm DEF RunCalm, IInv, Safe
<1>2. CASE DepsSatisfied(k, steps'[q])
  BY <1>2 DEF DepsSatisfied
<1>3. CASE k \in DOMAIN steps[q] /\ steps[q][k].status # "pending"
  <2>1. Finished(d, steps[q])
    BY <1>1, <1>3 DEF IInv, DependenciesEnded
  <2> QED BY <1>1, <2>1, StepsMoveFacts
<1> QED BY <1>1, <1>2, <1>3, StepsMoveFacts

\* OneActiveRun is kept.
LEMMA StepOneActive ==
    ASSUME IInv, Next
    PROVE  OneActiveRun'
<1> SUFFICES ASSUME ~disturbed', NEW r \in RunIds, NEW q \in RunIds,
                    runs'[r] # None, runs'[q] # None, runs'[r].is_active
             PROVE  q <= r
  BY DEF OneActiveRun, Existing
<1>1. ~disturbed /\ RunCalm(q) /\ RunCalm(r)
  BY StepCalm
<1>2. r \in Nat /\ q \in Nat
  BY RuntimeConstantsOK DEF RunIds
<1>3. CASE runs[r] = None
  <2>1. \A p \in RunIds : runs[p] # None => p <= r
    BY <1>1, <1>3 DEF RunCalm
  <2>2. CASE runs[q] # None
    BY <2>1, <2>2
  <2>3. CASE runs[q] = None
    <3>1. PICK c \in Sessions : Effect(c)
      BY StepEffect DEF IInv
    <3>2. RunMoves(c, q) /\ RunMoves(c, r)
      BY <3>1 DEF Effect
    <3>3. request[c].run = q /\ request[c].run = r
      BY <1>3, <2>3, <3>2 DEF RunMoves
    <3> QED BY <1>2, <3>3
  <2> QED BY <2>2, <2>3
<1>4. CASE runs[r] # None
  <2>1. runs[r].is_active
    BY <1>1, <1>4, StepOverIsOver DEF IInv, Undisturbed, Existing
  <2>2. runs[q] # None
    BY <1>1, <1>4, <2>1 DEF RunCalm
  <2> QED BY <1>1, <1>4, <2>1, <2>2 DEF IInv, OneActiveRun, Existing
<1> QED BY <1>3, <1>4

\* DecisionsFollow is kept.
LEMMA StepDecisions ==
    ASSUME IInv, Next
    PROVE  DecisionsFollow'
<1> SUFFICES ASSUME ~disturbed', NEW q \in RunIds, runs'[q] # None, ~runs'[q].is_active
             PROVE  Decided(q)'
  BY DEF DecisionsFollow, Decided, Existing
<1>1. ~disturbed /\ RunCalm(q)
  BY StepCalm
<1>2. CASE runs[q] = None
  <2>1. PICK c \in Sessions : Effect(c)
    BY StepEffect DEF IInv
  <2>2. runs'[q] = NewRun
    BY <1>2, <2>1 DEF Effect, RunMoves
  <2> QED BY <2>2 DEF NewRun
<1>3. CASE runs[q] # None /\ runs[q].is_active
  BY <1>1, <1>3 DEF RunCalm
<1>4. CASE runs[q] # None /\ ~runs[q].is_active
  <2>1. Decided(q)
    BY <1>1, <1>4 DEF IInv, DecisionsFollow, Decided, Existing
  <2> QED BY <1>1, <1>4, <2>1 DEF RunCalm, Decided
<1> QED BY <1>2, <1>3, <1>4

\* Every step keeps the invariant.
LEMMA NextIInv == IInv /\ [Next]_vars => IInv'
<1> SUFFICES ASSUME IInv, [Next]_vars PROVE IInv'
  OBVIOUS
<1>1. CASE Next
  <2>1. Safe'
    BY <1>1, StepEffect, EffectSafe DEF IInv
  <2> QED BY <1>1, <2>1, StepUndisturbed, StepSummary, StepDependencies, StepOneActive, StepDecisions
          DEF IInv
<1>2. CASE UNCHANGED vars
  BY <1>2 DEF vars, IInv, Safe, TypeOK, RequestsSound, RequestSound, RunsApart, RowsSound,
     Undisturbed, SummaryAgrees, DecisionsFollow, DependenciesEnded, OneActiveRun, Existing
<1> QED BY <1>1, <1>2

\* A result that is final while every request goes by what the tables say.
LEMMA StepResults ==
    ASSUME IInv, Next, ~disturbed', NEW q \in Existing
    PROVE  /\ \A k \in DOMAIN steps[q] :
                Finished(k, steps[q]) => steps'[q][k] = steps[q][k]
           /\ runs[q].decision # None => runs'[q].decision = runs[q].decision
<1>1. q \in RunIds /\ runs[q] # None /\ RunCalm(q) /\ TypeOK /\ ~disturbed
  BY StepCalm DEF Existing, IInv, Safe
<1>2. runs[q].decision # None => ~runs[q].is_active
  BY <1>1 DEF IInv, Safe, RowsSound, Undisturbed
<1> QED BY <1>1, <1>2, StepsMoveFacts DEF RunCalm

-----------------------------------------------------------------------------
(* The theorems.                                                           *)

\* The invariant the others rest on: what a request knows of its run, which may
\* have been over when it was read back, and what the tables say of runs, steps
\* and the summary.
THEOREM Invariance == Spec => []IInv
<1> QED BY InitIInv, NextIInv, PTL DEF Spec

\* The tables and the requests in flight have their types.
THEOREM TypeCorrect == Spec => []TypeOK
<1>1. IInv => TypeOK
  BY DEF IInv, Safe
<1> QED BY Invariance, <1>1, PTL

\* Whatever overlaps, the verification summary names a run that has a decision; it
\* gives that decision, and the run is over, unless the start that inserted the
\* run read it back as over.
THEOREM SummaryIsRight == Spec => []SummaryAgrees
<1>1. IInv => SummaryAgrees
  BY DEF IInv
<1> QED BY Invariance, <1>1, PTL

\* A decided run was decided by the rules on outcomes that had all come, as long
\* as every request goes by what the tables say.
THEOREM RunsDecidedByRules == Spec => []DecisionsFollow
<1>1. IInv => DecisionsFollow
  BY DEF IInv
<1> QED BY Invariance, <1>1, PTL

\* And no step had begun before those it depends on ended.
THEOREM StepsInOrder == Spec => []DependenciesEnded
<1>1. IInv => DependenciesEnded
  BY DEF IInv
<1> QED BY Invariance, <1>1, PTL

\* And only the newest run is active.
THEOREM NewestIsActive == Spec => []OneActiveRun
<1>1. IInv => OneActiveRun
  BY DEF IInv
<1> QED BY Invariance, <1>1, PTL

\* Whatever overlaps, a run that is over is never active again, unless the start
\* that inserted it read it back as over: only that read makes a run one that can
\* be reopened.
THEOREM NeverActiveAgain == Spec => OverIsOver
<1> DEFINE A == \A r \in Existing \ overtaken : ~runs[r].is_active => ~runs'[r].is_active
<1>1. IInv /\ [Next]_vars => [A]_vars
  BY StepOverIsOver DEF IInv
<1> QED BY Invariance, <1>1, PTL DEF Spec, OverIsOver

\* Results of steps and decisions of runs are final, as long as every request
\* goes by what the tables say.
THEOREM ResultsAreFinal == Spec => ResultsFinal
<1> DEFINE A == ~disturbed' => \A r \in Existing :
                  /\ \A k \in DOMAIN steps[r] :
                       Finished(k, steps[r]) => steps'[r][k] = steps[r][k]
                  /\ runs[r].decision # None => runs'[r].decision = runs[r].decision
<1>1. IInv /\ [Next]_vars => [A]_vars
  BY StepResults
<1> QED BY Invariance, <1>1, PTL DEF Spec, ResultsFinal
=============================================================================
