----------------------- MODULE SubmissionWorkflowProofs -----------------------
(***************************************************************************)
(* What SubmissionWorkflow guarantees for every set of users, roles, forms *)
(* and versions and for any number of submissions and overlapping requests.*)
(*                                                                         *)
(* The argument.  A commit writes the columns the handler changed, so what *)
(* it does to the row depends on two rows read and computed earlier.       *)
(* RequestsSound says what survives of the checks made at that time: how   *)
(* mine relates to base (Faithful, true for the life of the request) and   *)
(* how base relates to the row as it is by now (Current).  It turns the    *)
(* safety properties into an inductive invariant, IInv.                    *)
(***************************************************************************)
EXTENDS SubmissionWorkflow, TLAPS

\* How a request's changed copy differs from what it read.
Faithful(r) ==
    /\ r.mine.created_by = r.base.created_by
    /\ r.op = "transition" =>
        /\ r.mine.status \in ValidTransitions[r.base.status]
        /\ r.mine.status \in ReviewStatuses =>
             r.user \in SuperAdmins \/ r.user # r.base.created_by
        /\ r.mine.reviewed_by =
             IF r.mine.status \in Verdicts THEN r.user ELSE r.base.reviewed_by
    /\ r.op # "transition" =>
        /\ r.mine.status = r.base.status
        /\ r.mine.reviewed_by = r.base.reviewed_by
    /\ r.mine.form_data # r.base.form_data => r.base.status = "draft"
    /\ r.mine.template_version_id # r.base.template_version_id
         => r.base.status \in {"draft", "returned"}
    /\ r.op = "delete" => r.base.status \in {"draft", "cancelled"}

\* What still holds of the row a request read.
Current(r) ==
    /\ submissions[r.sid] # None
    /\ Live(r.sid) =>
        /\ submissions[r.sid].created_by = r.base.created_by
        /\ r.base.status \in Logged(r.sid)
        /\ r.base.reviewed_by # None => submissions[r.sid].reviewed_by # None

RequestsSound ==
    \A c \in Sessions : ~Idle(c) => Faithful(request[c]) /\ Current(request[c])

IInv ==
    /\ TypeOK
    /\ StatusIsLastLogged
    /\ AuditTrailSound
    /\ FourEyes
    /\ ReviewerGaveAVerdict
    /\ RequestsSound

\* The five ways to begin a request.
Begin(c) ==
    \E u \in Users, s \in SubmissionIds :
        \/ \E f \in Forms : UpdateBegin(c, u, s, f)
        \/ DeleteBegin(c, u, s)
        \/ \E to \in Statuses \ {"draft"} : TransitionBegin(c, u, s, to)
        \/ SubmitBegin(c, u, s)
        \/ \E ruleSet \in RuleSets : MigrateBegin(c, u, s, ruleSet)

-----------------------------------------------------------------------------
(* Facts about the data.                                                   *)

\* The table never sends a status to itself or out of Statuses.
LEMMA TableFacts ==
    /\ \A s \in Statuses : /\ s \notin ValidTransitions[s]
                           /\ ValidTransitions[s] \subseteq Statuses
    /\ "submitted" \in ValidTransitions["draft"]
    /\ Verdicts \subseteq ReviewStatuses
    /\ "submitted" \notin ReviewStatuses
  BY DEF Statuses, ValidTransitions, Verdicts, ReviewStatuses

\* A flush keeps a row a row and decides each column on its own.
LEMMA FlushFacts ==
    ASSUME NEW row \in Row, NEW base \in Row, NEW mine \in Row
    PROVE  LET new == Flush(row, base, mine) IN
           /\ new \in Row
           /\ new.status =
                IF mine.status # base.status THEN mine.status ELSE row.status
           /\ new.created_by = IF mine.created_by # base.created_by
                                 THEN mine.created_by ELSE row.created_by
           /\ new.reviewed_by = IF mine.reviewed_by # base.reviewed_by
                                  THEN mine.reviewed_by ELSE row.reviewed_by
           /\ new.form_data = IF mine.form_data # base.form_data
                                THEN mine.form_data ELSE row.form_data
           /\ new.template_version_id =
                IF mine.template_version_id # base.template_version_id
                  THEN mine.template_version_id ELSE row.template_version_id
  BY DEF Flush, Row

\* Logging adds one entry at the end.
LEMMA AppendFacts ==
    ASSUME NEW trail \in Seq(Entry), NEW entry \in Entry
    PROVE  /\ Append(trail, entry) \in Seq(Entry)
           /\ Append(trail, entry) # <<>>
           /\ Len(trail) \in Nat
           /\ Len(Append(trail, entry)) = Len(trail) + 1
           /\ \A i \in 1..Len(trail) : Append(trail, entry)[i] = trail[i]
           /\ Append(trail, entry)[Len(trail) + 1] = entry
  OBVIOUS

\* Next, its first half folded into Begin.
LEMMA NextCases ==
    ASSUME Next
    PROVE  \/ \E u \in Users, s \in SubmissionIds, v \in ActiveVersions, f \in Forms :
                CreateSubmission(u, s, v, f)
           \/ \E c \in Sessions : \/ Begin(c) \/ CommitContent(c)
                                  \/ CommitTransition(c) \/ CommitDelete(c)
                                  \/ Rollback(c)
  BY DEF Next, Begin

-----------------------------------------------------------------------------
(* The requests.                                                           *)

\* However a request begins, it holds the current row and a faithful copy, and
\* touches nothing else.
LEMMA BeginFacts ==
    ASSUME TypeOK, NEW c \in Sessions, Begin(c)
    PROVE  /\ Idle(c)
           /\ UNCHANGED <<submissions, history>>
           /\ \E r \in Request : /\ request' = [request EXCEPT ![c] = r]
                                 /\ Live(r.sid)
                                 /\ r.base = submissions[r.sid]
                                 /\ Faithful(r)
<1>1. PICK u \in Users, s \in SubmissionIds :
        \/ \E f \in Forms : UpdateBegin(c, u, s, f)
        \/ DeleteBegin(c, u, s)
        \/ \E to \in Statuses \ {"draft"} : TransitionBegin(c, u, s, to)
        \/ SubmitBegin(c, u, s)
        \/ \E ruleSet \in RuleSets : MigrateBegin(c, u, s, ruleSet)
  BY DEF Begin
<1> DEFINE row == submissions[s]
<1>2. Idle(c) /\ Live(s) /\ UNCHANGED <<submissions, history>>
  BY <1>1 DEF UpdateBegin, DeleteBegin, TransitionBegin, SubmitBegin, MigrateBegin, Open
<1>3. row \in Row
  BY <1>2 DEF TypeOK, Live
<1>4. CASE \E f \in Forms : UpdateBegin(c, u, s, f)
  <2>1. PICK f \in Forms : UpdateBegin(c, u, s, f)
    BY <1>4
  <2> DEFINE mine == [row EXCEPT !.form_data = f]
             r == [op |-> "update", sid |-> s, user |-> u, base |-> row, mine |-> mine]
  <2>2. mine \in Row /\ r \in Request
    BY <1>3 DEF Row, Request, Operations
  <2>3. Faithful(r)
    BY <1>3, <2>1 DEF Faithful, UpdateBegin, Updatable, Row
  <2> QED BY <1>2, <2>1, <2>2, <2>3 DEF UpdateBegin, Open
<1>5. CASE DeleteBegin(c, u, s)
  <2> DEFINE r == [op |-> "delete", sid |-> s, user |-> u, base |-> row, mine |-> row]
  <2>1. r \in Request
    BY <1>3 DEF Request, Operations
  <2>2. Faithful(r)
    BY <1>5 DEF Faithful, DeleteBegin, Deletable
  <2> QED BY <1>2, <1>5, <2>1, <2>2 DEF DeleteBegin, Open
<1>6. ASSUME NEW to \in Statuses,
             to \in ValidTransitions[row.status], PassesFourEyes(u, row, to),
             Open(c, "transition", u, s, Transitioned(row, u, to))
      PROVE  \E r \in Request : /\ request' = [request EXCEPT ![c] = r]
                                /\ Live(r.sid)
                                /\ r.base = submissions[r.sid]
                                /\ Faithful(r)
  <2> DEFINE mine == Transitioned(row, u, to)
             r == [op |-> "transition", sid |-> s, user |-> u, base |-> row,
                   mine |-> mine]
  <2>1. /\ mine \in Row /\ r \in Request
        /\ mine.status = to
        /\ mine.created_by = row.created_by
        /\ mine.reviewed_by = IF to \in Verdicts THEN u ELSE row.reviewed_by
        /\ mine.form_data = row.form_data
        /\ mine.template_version_id = row.template_version_id
    BY <1>3 DEF Row, Request, Operations, Transitioned
  <2>2. Faithful(r)
    BY <1>6, <2>1 DEF Faithful, PassesFourEyes
  <2> QED BY <1>2, <1>6, <2>1, <2>2 DEF Open
<1>7. CASE \E to \in Statuses \ {"draft"} : TransitionBegin(c, u, s, to)
  BY <1>2, <1>6, <1>7 DEF TransitionBegin, NextStatuses
<1>8. CASE SubmitBegin(c, u, s)
  BY <1>2, <1>6, <1>8, TableFacts DEF SubmitBegin, PassesFourEyes, Statuses
<1>9. CASE \E ruleSet \in RuleSets : MigrateBegin(c, u, s, ruleSet)
  <2>1. PICK ruleSet \in RuleSets : MigrateBegin(c, u, s, ruleSet)
    BY <1>9
  <2> DEFINE mine == [row EXCEPT !.template_version_id = ruleSet.target]
             r == [op |-> "migrate", sid |-> s, user |-> u, base |-> row, mine |-> mine]
  <2>2. mine \in Row /\ r \in Request
    BY <1>3, ConstantsOK DEF Row, Request, Operations
  <2>3. Faithful(r)
    BY <1>3, <2>1 DEF Faithful, MigrateBegin, Migratable, Row
  <2> QED BY <1>2, <2>1, <2>2, <2>3 DEF MigrateBegin, Open
<1> QED BY <1>1, <1>2, <1>4, <1>5, <1>7, <1>8, <1>9

-----------------------------------------------------------------------------
(* One submission, as a row and a trail.                                   *)

\* The four safety properties, of one row and its trail.
Sound(row, trail) ==
    LET N == Len(trail)
        reviewers == {trail[i].by : i \in {j \in 1..N : trail[j].to \in Verdicts}}
    IN  /\ row \in {None, Deleted} => trail = <<>>
        /\ row \notin {None, Deleted} =>
             /\ trail # <<>>
             /\ trail[N].to = row.status
             /\ row.created_by \notin SuperAdmins =>
                  /\ row.reviewed_by # row.created_by
                  /\ \A i \in 1..N :
                       trail[i].to \in ReviewStatuses => trail[i].by # row.created_by
             /\ row.status \in Verdicts => row.reviewed_by # None
             /\ row.reviewed_by # None => row.reviewed_by \in reviewers
        /\ \A i \in 1..N :
             IF i = 1
               THEN /\ trail[i].from = None
                    /\ trail[i].to = "draft"
                    /\ trail[i].by = row.created_by
               ELSE /\ \E j \in 1..(i - 1) : trail[j].to = trail[i].from
                    /\ trail[i].to \in ValidTransitions[trail[i].from]

\* A sound row and trail have the safety properties the runs check.
LEMMA SoundIsSafe ==
    (\A s \in SubmissionIds : Sound(submissions[s], history[s]))
      <=> StatusIsLastLogged /\ AuditTrailSound /\ FourEyes /\ ReviewerGaveAVerdict
  BY DEF Sound, StatusIsLastLogged, AuditTrailSound, FourEyes,
         ReviewerGaveAVerdict, Live

\* The columns an update or a migration may write are none of Sound's.
LEMMA ContentKeepsSound ==
    ASSUME NEW row \in Row, NEW trail \in Seq(Entry), Sound(row, trail),
           NEW r \in Request, Faithful(r), r.op # "transition"
    PROVE  Sound(Flush(row, r.base, r.mine), trail)
<1> DEFINE new == Flush(row, r.base, r.mine)
<1>1. r.base \in Row /\ r.mine \in Row
  BY DEF Request
<1>2. /\ new \in Row
      /\ new.status = row.status
      /\ new.created_by = row.created_by
      /\ new.reviewed_by = row.reviewed_by
  BY <1>1, FlushFacts DEF Faithful
<1>3. row \notin {None, Deleted} /\ new \notin {None, Deleted}
  BY <1>2, ConstantsOK
<1> QED BY <1>2, <1>3 DEF Sound

\* A transition logs what it writes.
LEMMA TransitionKeepsSound ==
    ASSUME NEW row \in Row, NEW trail \in Seq(Entry), Sound(row, trail),
           NEW r \in Request, Faithful(r), r.op = "transition",
           row.created_by = r.base.created_by,
           r.base.status \in {trail[i].to : i \in 1..Len(trail)},
           r.base.reviewed_by # None => row.reviewed_by # None
    PROVE  Sound(Flush(row, r.base, r.mine),
                 Append(trail, [from |-> r.base.status, to |-> r.mine.status,
                                by |-> r.user]))
<1> DEFINE new == Flush(row, r.base, r.mine)
           entry == [from |-> r.base.status, to |-> r.mine.status, by |-> r.user]
           N == Len(trail)
           longer == Append(trail, entry)
<1>1. /\ r.base \in Row /\ r.mine \in Row /\ r.user \in Users
      /\ r.base.status \in Statuses /\ r.mine.status \in Statuses
      /\ row.created_by \in Users
  BY DEF Request, Row
<1>2. entry \in Entry
  BY <1>1 DEF Entry
<1>3. /\ longer \in Seq(Entry) /\ longer # <<>>
      /\ N \in Nat /\ Len(longer) = N + 1
      /\ \A i \in 1..N : longer[i] = trail[i]
      /\ longer[N + 1] = entry
  BY <1>2, AppendFacts
<1>4. /\ new \in Row
      /\ new.status = r.mine.status
      /\ new.created_by = row.created_by
      /\ new.reviewed_by \in {row.reviewed_by, r.mine.reviewed_by}
      /\ r.mine.reviewed_by # r.base.reviewed_by => new.reviewed_by = r.mine.reviewed_by
      /\ r.mine.reviewed_by = r.base.reviewed_by => new.reviewed_by = row.reviewed_by
  BY <1>1, FlushFacts, TableFacts DEF Faithful
<1>5. row \notin {None, Deleted}
  BY ConstantsOK
<1>6. new.status \in Verdicts => new.reviewed_by # None
  BY <1>1, <1>4, ConstantsOK DEF Faithful
<1>7. new.reviewed_by # row.reviewed_by =>
        new.reviewed_by = r.user /\ r.mine.status \in Verdicts
  BY <1>4 DEF Faithful
<1>8. N >= 1
  OBVIOUS
<1>9. new.created_by \notin SuperAdmins =>
        /\ new.reviewed_by # new.created_by
        /\ \A i \in 1..(N + 1) :
             longer[i].to \in ReviewStatuses => longer[i].by # new.created_by
  <2>1. SUFFICES ASSUME row.created_by \notin SuperAdmins
                 PROVE  /\ new.reviewed_by # row.created_by
                        /\ \A i \in 1..(N + 1) :
                             longer[i].to \in ReviewStatuses
                               => longer[i].by # row.created_by
    BY <1>4
  <2>2. r.mine.status \in ReviewStatuses => r.user # row.created_by
    BY <2>1 DEF Faithful
  <2>3. new.reviewed_by # row.created_by
    BY <1>5, <1>7, <2>1, <2>2, TableFacts DEF Sound
  <2>4. \A i \in 1..N : trail[i].to \in ReviewStatuses => trail[i].by # row.created_by
    BY <1>5, <2>1 DEF Sound
  <2> QED BY <1>3, <2>2, <2>3, <2>4
<1>10. new.reviewed_by # None =>
         \E i \in 1..(N + 1) : longer[i].to \in Verdicts /\ longer[i].by = new.reviewed_by
  <2>1. CASE new.reviewed_by = row.reviewed_by
    <3>1. row.reviewed_by # None =>
            \E i \in 1..N : trail[i].to \in Verdicts /\ trail[i].by = row.reviewed_by
      BY <1>5 DEF Sound
    <3> QED BY <1>3, <2>1, <3>1
  <2>2. CASE new.reviewed_by # row.reviewed_by
    BY <1>3, <1>7, <2>2
  <2> QED BY <2>1, <2>2
<1>11. ASSUME NEW i \in 1..(N + 1)
       PROVE  IF i = 1
                THEN /\ longer[i].from = None
                     /\ longer[i].to = "draft"
                     /\ longer[i].by = new.created_by
                ELSE /\ \E j \in 1..(i - 1) : longer[j].to = longer[i].from
                     /\ longer[i].to \in ValidTransitions[longer[i].from]
  <2>1. CASE i \in 1..N
    <3>1. \A j \in 1..i : longer[j] = trail[j]
      BY <1>3, <2>1
    <3>2. IF i = 1
            THEN /\ trail[i].from = None
                 /\ trail[i].to = "draft"
                 /\ trail[i].by = row.created_by
            ELSE /\ \E j \in 1..(i - 1) : trail[j].to = trail[i].from
                 /\ trail[i].to \in ValidTransitions[trail[i].from]
      BY <2>1 DEF Sound
    <3>3. CASE i = 1
      BY <1>4, <3>1, <3>2, <3>3
    <3>4. CASE i # 1
      <4>1. PICK j \in 1..(i - 1) : trail[j].to = trail[i].from
        BY <3>2, <3>4
      <4>2. longer[j] = trail[j] /\ longer[i] = trail[i]
        BY <1>3, <2>1, <4>1
      <4> QED BY <3>2, <3>4, <4>1, <4>2
    <3> QED BY <3>3, <3>4
  <2>2. CASE i = N + 1
    <3>1. PICK j \in 1..N : trail[j].to = r.base.status
      OBVIOUS
    <3>2. longer[j].to = longer[i].from /\ longer[i].to \in ValidTransitions[longer[i].from]
      BY <1>3, <2>2, <3>1 DEF Faithful
    <3> QED BY <1>3, <1>8, <2>2, <3>1, <3>2
  <2> QED BY <1>3, <2>1, <2>2
<1>12. longer[N + 1].to = new.status
  BY <1>3, <1>4
<1>13. Sound(new, longer)
  <2> HIDE DEF new, longer, N, entry
  <2> QED BY <1>3, <1>4, <1>6, <1>9, <1>10, <1>11, <1>12, ConstantsOK DEF Sound
<1> QED BY <1>13

-----------------------------------------------------------------------------
(* IInv is inductive: one lemma per kind of step.                          *)

\* Taking the invariant apart, and putting it together after a step.
LEMMA SplitIInv ==
    ASSUME IInv
    PROVE  /\ TypeOK
           /\ RequestsSound
           /\ \A s \in SubmissionIds : Sound(submissions[s], history[s])
  BY SoundIsSafe DEF IInv

\* After a step, each part of the invariant is established on its own.
LEMMA JoinIInv ==
    ASSUME TypeOK', RequestsSound',
           \A s \in SubmissionIds : Sound(submissions'[s], history'[s])
    PROVE  IInv'
  BY DEF IInv, Sound, StatusIsLastLogged, AuditTrailSound, FourEyes,
         ReviewerGaveAVerdict, Live

\* There is no submission and no request to begin with.
LEMMA InitEstablishes == Init => IInv
<1> SUFFICES ASSUME Init PROVE IInv
  OBVIOUS
<1>1. TypeOK
  BY DEF Init, TypeOK
<1>2. \A s \in SubmissionIds : Sound(submissions[s], history[s])
  BY DEF Init, Sound
<1>3. RequestsSound
  BY DEF Init, RequestsSound, Idle
<1> QED BY <1>1, <1>2, <1>3, SoundIsSafe DEF IInv

\* create_submission: the new row and its first entry say the same.
LEMMA CreatePreserves ==
    ASSUME IInv, NEW u \in Users, NEW s \in SubmissionIds,
           NEW v \in ActiveVersions, NEW f \in Forms, CreateSubmission(u, s, v, f)
    PROVE  IInv'
<1> DEFINE row == [status |-> "draft", created_by |-> u, template_version_id |-> v,
                   form_data |-> f, reviewed_by |-> None]
           entry == [from |-> None, to |-> "draft", by |-> u]
<1>1. row \in Row /\ entry \in Entry
  BY ConstantsOK DEF Row, Entry, Statuses
<1>2. /\ TypeOK /\ RequestsSound
      /\ \A t \in SubmissionIds : Sound(submissions[t], history[t])
  BY SplitIInv
<1>3. /\ submissions[s] = None
      /\ submissions' = [submissions EXCEPT ![s] = row]
      /\ history' = [history EXCEPT ![s] = <<entry>>]
      /\ request' = request
  BY DEF CreateSubmission
<1>4. TypeOK'
  BY <1>1, <1>2, <1>3 DEF TypeOK
<1>5. Sound(row, <<entry>>)
  <2>1. /\ Len(<<entry>>) = 1 /\ <<entry>> # <<>> /\ <<entry>>[1] = entry
        /\ \A i \in 1..1 : i = 1
    OBVIOUS
  <2>2. "draft" \notin Verdicts /\ "draft" \notin ReviewStatuses /\ u # None
    BY ConstantsOK DEF Verdicts, ReviewStatuses
  <2>3. row \notin {None, Deleted}
    BY <1>1, ConstantsOK
  <2> QED BY <2>1, <2>2, <2>3 DEF Sound
<1>6. ASSUME NEW t \in SubmissionIds PROVE Sound(submissions'[t], history'[t])
  BY <1>2, <1>3, <1>5 DEF TypeOK
<1>7. RequestsSound'
  <2> SUFFICES ASSUME NEW c \in Sessions, ~Idle(c)'
               PROVE  Faithful(request[c]) /\ Current(request[c])'
    BY <1>3 DEF RequestsSound, Idle, Faithful
  <2>1. ~Idle(c) /\ request[c] \in Request
    BY <1>2, <1>3 DEF Idle, TypeOK
  <2>2. Faithful(request[c]) /\ Current(request[c]) /\ request[c].sid # s
    BY <1>2, <1>3, <2>1 DEF RequestsSound, Current
  <2> QED BY <1>2, <1>3, <2>1, <2>2 DEF Current, Live, Logged, Request, TypeOK
<1> QED BY <1>4, <1>6, <1>7, JoinIInv

\* What a request read and means to write is sound when it begins.
LEMMA BeginPreserves ==
    ASSUME IInv, NEW c \in Sessions, Begin(c)
    PROVE  IInv'
<1>1. /\ TypeOK /\ RequestsSound
      /\ \A t \in SubmissionIds : Sound(submissions[t], history[t])
  BY SplitIInv
<1>2. PICK r \in Request : /\ request' = [request EXCEPT ![c] = r]
                           /\ Live(r.sid)
                           /\ r.base = submissions[r.sid]
                           /\ Faithful(r)
  BY <1>1, BeginFacts
<1>3. submissions' = submissions /\ history' = history
  BY <1>1, BeginFacts
<1>4. TypeOK'
  BY <1>1, <1>2, <1>3 DEF TypeOK
<1>5. Current(r)
  <2>1. r.sid \in SubmissionIds /\ history[r.sid] \in Seq(Entry)
    BY <1>1 DEF Request, TypeOK
  <2>2. /\ history[r.sid] # <<>>
        /\ history[r.sid][Len(history[r.sid])].to = r.base.status
    BY <1>1, <1>2, <2>1 DEF Sound, Live
  <2> QED BY <1>2, <2>1, <2>2 DEF Current, Live, Logged
<1>6. RequestsSound'
  <2> SUFFICES ASSUME NEW d \in Sessions, ~Idle(d)'
               PROVE  Faithful(request'[d]) /\ Current(request'[d])
    BY <1>3 DEF RequestsSound, Idle, Faithful, Current, Live, Logged
  <2>1. CASE d = c
    BY <1>1, <1>2, <1>5, <2>1 DEF TypeOK
  <2>2. CASE d # c
    BY <1>1, <1>2, <2>2 DEF RequestsSound, Idle, TypeOK
  <2> QED BY <2>1, <2>2
<1> QED BY <1>1, <1>3, <1>4, <1>6, JoinIInv

\* What a commit knows of its own request.
LEMMA CommitFacts ==
    ASSUME IInv, NEW c \in Sessions, ~Idle(c), Live(request[c].sid)
    PROVE  LET r == request[c] s == r.sid IN
           /\ r \in Request
           /\ s \in SubmissionIds
           /\ r.base \in Row /\ r.mine \in Row
           /\ submissions[s] \in Row
           /\ history[s] \in Seq(Entry)
           /\ Faithful(r) /\ Current(r)
           /\ Flush(submissions[s], r.base, r.mine) \in Row
  BY SplitIInv, FlushFacts DEF TypeOK, RequestsSound, Idle, Request, Live

\* Requests that stay open see the row of s change in columns they do not rely
\* on, and its trail grow at most.
LEMMA OthersStaySound ==
    ASSUME IInv, TypeOK', NEW c \in Sessions, NEW s \in SubmissionIds, Live(s), Close(c),
           NEW row \in Row, submissions' = [submissions EXCEPT ![s] = row],
           row.created_by = submissions[s].created_by,
           submissions[s].reviewed_by # None => row.reviewed_by # None,
           \A t \in SubmissionIds : Logged(t) \subseteq Logged(t)'
    PROVE  RequestsSound'
<1> SUFFICES ASSUME NEW d \in Sessions, ~Idle(d)'
             PROVE  Faithful(request'[d]) /\ Current(request[d])' /\ request'[d] = request[d]
  BY DEF RequestsSound, Idle, Faithful
<1>1. TypeOK /\ RequestsSound
  BY SplitIInv
<1>2. d # c /\ request'[d] = request[d] /\ ~Idle(d)
  BY <1>1 DEF Close, Idle, TypeOK
<1>3. Faithful(request[d]) /\ Current(request[d]) /\ request[d] \in Request
  BY <1>1, <1>2 DEF RequestsSound, Idle, TypeOK
<1> DEFINE r == request[d]
<1>4. r.sid \in SubmissionIds
  BY <1>3 DEF Request
<1>5. row # None
  BY ConstantsOK
<1>6. CASE r.sid = s
  <2>1. submissions'[r.sid] = row /\ Live(r.sid)
    BY <1>1, <1>6 DEF TypeOK
  <2>2. /\ submissions[r.sid].created_by = r.base.created_by
        /\ r.base.status \in Logged(r.sid)
        /\ r.base.reviewed_by # None => submissions[r.sid].reviewed_by # None
    BY <1>3, <2>1 DEF Current
  <2>3. r.base.status \in Logged(r.sid)'
    BY <1>2, <1>4, <2>2
  <2> QED BY <1>2, <1>3, <1>5, <1>6, <2>1, <2>2, <2>3 DEF Current
<1>7. CASE r.sid # s
  <2>1. submissions'[r.sid] = submissions[r.sid]
    BY <1>1, <1>4, <1>7 DEF TypeOK
  <2>2. Live(r.sid)' => /\ Live(r.sid)
                        /\ r.base.status \in Logged(r.sid)'
    BY <1>2, <1>3, <1>4, <2>1 DEF Current, Live
  <2> QED BY <1>2, <1>3, <2>1, <2>2 DEF Current
<1> QED BY <1>6, <1>7

\* update_submission and the migration write no column the trail is about.
LEMMA ContentPreserves ==
    ASSUME IInv, NEW c \in Sessions, CommitContent(c)
    PROVE  IInv'
<1> DEFINE r == request[c]
           s == r.sid
           row == Flush(submissions[s], r.base, r.mine)
<1>1. /\ TypeOK
      /\ \A t \in SubmissionIds : Sound(submissions[t], history[t])
  BY SplitIInv
<1>2. /\ ~Idle(c) /\ Live(s) /\ r.op # "transition" /\ Close(c)
      /\ submissions' = [submissions EXCEPT ![s] = row]
      /\ history' = history
  BY DEF CommitContent, Written
<1>3. /\ r \in Request /\ s \in SubmissionIds
      /\ r.base \in Row /\ r.mine \in Row
      /\ submissions[s] \in Row /\ history[s] \in Seq(Entry)
      /\ Faithful(r) /\ row \in Row
  BY <1>2, CommitFacts
<1>4. TypeOK'
  BY <1>1, <1>2, <1>3 DEF TypeOK, Close
<1>5. Sound(row, history[s])
  BY <1>1, <1>2, <1>3, ContentKeepsSound
<1>6. ASSUME NEW t \in SubmissionIds PROVE Sound(submissions'[t], history'[t])
  BY <1>1, <1>2, <1>3, <1>5 DEF TypeOK
<1>7. row.created_by = submissions[s].created_by /\ row.reviewed_by = submissions[s].reviewed_by
  BY <1>2, <1>3, FlushFacts DEF Faithful
<1>8. RequestsSound'
  <2> HIDE DEF row
  <2>1. \A t \in SubmissionIds : Logged(t) \subseteq Logged(t)'
    BY <1>2 DEF Logged
  <2> QED BY <1>2, <1>3, <1>4, <1>7, <2>1, OthersStaySound
<1> QED BY <1>4, <1>6, <1>8, JoinIInv

\* transition_status: the row it writes and the entry it logs fit together.
LEMMA TransitionPreserves ==
    ASSUME IInv, NEW c \in Sessions, CommitTransition(c)
    PROVE  IInv'
<1> DEFINE r == request[c]
           s == r.sid
           row == Flush(submissions[s], r.base, r.mine)
           entry == [from |-> r.base.status, to |-> r.mine.status, by |-> r.user]
           trail == Append(history[s], entry)
<1>1. /\ TypeOK
      /\ \A t \in SubmissionIds : Sound(submissions[t], history[t])
  BY SplitIInv
<1>2. /\ ~Idle(c) /\ Live(s) /\ r.op = "transition" /\ Close(c)
      /\ submissions' = [submissions EXCEPT ![s] = row]
      /\ history' = [history EXCEPT ![s] = trail]
  BY DEF CommitTransition, Written
<1>3. /\ r \in Request /\ s \in SubmissionIds
      /\ r.base \in Row /\ r.mine \in Row
      /\ submissions[s] \in Row /\ history[s] \in Seq(Entry)
      /\ Faithful(r) /\ Current(r) /\ row \in Row
  BY <1>2, CommitFacts
<1>4. entry \in Entry
  BY <1>3 DEF Entry, Request, Row
<1>5. /\ trail \in Seq(Entry) /\ Len(history[s]) \in Nat
      /\ Len(trail) = Len(history[s]) + 1
      /\ \A i \in 1..Len(history[s]) : trail[i] = history[s][i]
  BY <1>3, <1>4, AppendFacts
<1>6. TypeOK'
  BY <1>1, <1>2, <1>3, <1>5 DEF TypeOK, Close
<1>7. Sound(row, trail)
  BY <1>1, <1>2, <1>3, TransitionKeepsSound DEF Current, Logged
<1>8. ASSUME NEW t \in SubmissionIds PROVE Sound(submissions'[t], history'[t])
  BY <1>1, <1>2, <1>3, <1>7 DEF TypeOK
<1>9. /\ row.created_by = submissions[s].created_by
      /\ submissions[s].reviewed_by # None => row.reviewed_by # None
  <2>1. row.created_by = submissions[s].created_by
    BY <1>3, FlushFacts DEF Faithful
  <2>2. r.mine.reviewed_by # r.base.reviewed_by => r.mine.reviewed_by # None
    BY <1>2, <1>3, ConstantsOK DEF Faithful, Request
  <2> QED BY <1>3, <2>1, <2>2, FlushFacts
<1>10. RequestsSound'
  <2> HIDE DEF row, trail
  <2>1. \A t \in SubmissionIds : Logged(t) \subseteq Logged(t)'
    <3> SUFFICES ASSUME NEW t \in SubmissionIds, NEW i \in 1..Len(history[t])
                 PROVE  \E j \in 1..Len(history'[t]) : history'[t][j].to = history[t][i].to
      BY DEF Logged
    <3>1. CASE t = s
      BY <1>1, <1>2, <1>3, <1>5, <3>1 DEF TypeOK
    <3>2. CASE t # s
      BY <1>1, <1>2, <3>2 DEF TypeOK
    <3> QED BY <3>1, <3>2
  <2> QED BY <1>2, <1>3, <1>6, <1>9, <2>1, OthersStaySound
<1> QED BY <1>6, <1>8, <1>10, JoinIInv

\* delete_submission: a submission that is gone has nothing left to be wrong.
LEMMA DeletePreserves ==
    ASSUME IInv, NEW c \in Sessions, CommitDelete(c)
    PROVE  IInv'
<1> DEFINE s == request[c].sid
<1>1. /\ TypeOK /\ RequestsSound
      /\ \A t \in SubmissionIds : Sound(submissions[t], history[t])
  BY SplitIInv
<1>2. /\ ~Idle(c) /\ Close(c)
      /\ submissions' = [submissions EXCEPT ![s] = Deleted]
      /\ history' = [history EXCEPT ![s] = <<>>]
  BY DEF CommitDelete
<1>3. s \in SubmissionIds
  BY <1>1, <1>2 DEF TypeOK, Idle, Request
<1>4. TypeOK'
  BY <1>1, <1>2, <1>3 DEF TypeOK, Close
<1>5. Sound(Deleted, <<>>)
  BY DEF Sound
<1>6. ASSUME NEW t \in SubmissionIds PROVE Sound(submissions'[t], history'[t])
  BY <1>1, <1>2, <1>3, <1>5 DEF TypeOK
<1>7. RequestsSound'
  <2> SUFFICES ASSUME NEW d \in Sessions, ~Idle(d)'
               PROVE  /\ request'[d] = request[d] /\ Faithful(request'[d])
                      /\ Current(request[d])'
    BY DEF RequestsSound, Idle, Faithful
  <2>1. d # c /\ request'[d] = request[d] /\ ~Idle(d)
    BY <1>1, <1>2 DEF Close, Idle, TypeOK
  <2>2. Faithful(request[d]) /\ Current(request[d]) /\ request[d].sid \in SubmissionIds
    BY <1>1, <2>1 DEF RequestsSound, Idle, TypeOK, Request
  <2>3. CASE request[d].sid = s
    BY <1>1, <1>2, <1>3, <2>1, <2>2, <2>3, ConstantsOK DEF Current, Live, TypeOK
  <2>4. CASE request[d].sid # s
    BY <1>1, <1>2, <2>1, <2>2, <2>4 DEF Current, Live, Logged, TypeOK
  <2> QED BY <2>1, <2>2, <2>3, <2>4
<1> QED BY <1>4, <1>6, <1>7, JoinIInv

\* A request that ends without writing, and a step of something else.
LEMMA RollbackPreserves ==
    ASSUME IInv, submissions' = submissions, history' = history,
           request' = request \/ \E c \in Sessions : Close(c)
    PROVE  IInv'
<1>1. /\ TypeOK /\ RequestsSound
      /\ \A t \in SubmissionIds : Sound(submissions[t], history[t])
  BY SplitIInv
<1>2. TypeOK'
  BY <1>1 DEF TypeOK, Close
<1>3. RequestsSound'
  <2> SUFFICES ASSUME NEW d \in Sessions, ~Idle(d)'
               PROVE  Faithful(request'[d]) /\ Current(request'[d])
    BY DEF RequestsSound, Idle, Faithful, Current, Live, Logged
  <2>1. request'[d] = request[d] /\ ~Idle(d)
    BY <1>1 DEF Close, Idle, TypeOK
  <2> QED BY <1>1, <2>1 DEF RequestsSound, Idle
<1> QED BY <1>1, <1>2, <1>3, JoinIInv

\* Every step, whoever takes it, preserves the invariant.
LEMMA IInvInductive == IInv /\ [Next]_vars => IInv'
<1> SUFFICES ASSUME IInv, [Next]_vars PROVE IInv'
  OBVIOUS
<1>1. CASE UNCHANGED vars
  BY <1>1, RollbackPreserves DEF vars
<1>2. CASE Next
  <2>1. CASE \E u \in Users, s \in SubmissionIds, v \in ActiveVersions, f \in Forms :
               CreateSubmission(u, s, v, f)
    BY <2>1, CreatePreserves
  <2>2. ASSUME NEW c \in Sessions,
               \/ Begin(c) \/ CommitContent(c) \/ CommitTransition(c)
               \/ CommitDelete(c) \/ Rollback(c)
        PROVE  IInv'
    <3>1. CASE Rollback(c)
      BY <3>1, RollbackPreserves DEF Rollback
    <3> QED BY <2>2, <3>1, BeginPreserves, ContentPreserves, TransitionPreserves,
               DeletePreserves
  <2> QED BY <1>2, <2>1, <2>2, NextCases
<1> QED BY <1>1, <1>2

\* The inductive invariant holds, for any users, submissions and sessions.
THEOREM Invariance == Spec => []IInv
  BY InitEstablishes, IInvInductive, PTL DEF Spec

-----------------------------------------------------------------------------
(* The theorems.                                                           *)

\* Rows, trails and requests keep the shape the tables give them.
THEOREM TypeCorrect == Spec => []TypeOK
<1>1. IInv => TypeOK
  BY DEF IInv
<1> QED BY <1>1, Invariance, PTL

\* However many requests overlap, the status column and the audit trail agree.
THEOREM TrailAgrees == Spec => []StatusIsLastLogged
<1>1. IInv => StatusIsLastLogged
  BY DEF IInv
<1> QED BY <1>1, Invariance, PTL

\* Every entry of every trail is a move of the transition table, out of a status
\* the submission had had.
THEOREM TrailSound == Spec => []AuditTrailSound
<1>1. IInv => AuditTrailSound
  BY DEF IInv
<1> QED BY <1>1, Invariance, PTL

\* Nobody but a super admin reviews a submission of their own, whatever roles a
\* user combines and however requests overlap.
THEOREM FourEyesHolds == Spec => []FourEyes
<1>1. IInv => FourEyes
  BY DEF IInv
<1> QED BY <1>1, Invariance, PTL

\* A verdict has a reviewer, and a reviewer gave a verdict.
THEOREM ReviewerHolds == Spec => []ReviewerGaveAVerdict
<1>1. IInv => ReviewerGaveAVerdict
  BY DEF IInv
<1> QED BY <1>1, Invariance, PTL

-----------------------------------------------------------------------------
(* What a step may do.                                                     *)

\* What the commit of request r does to submission s.
CommitOn(r, s) ==
    /\ r \in Request /\ Faithful(r) /\ Current(r)
    /\ \/ /\ r.op = "delete"
          /\ submissions' = [submissions EXCEPT ![s] = Deleted]
          /\ history' = [history EXCEPT ![s] = <<>>]
       \/ /\ r.op \in {"update", "migrate"}
          /\ submissions' = [submissions EXCEPT ![s] = Flush(@, r.base, r.mine)]
          /\ history' = history
       \/ /\ r.op = "transition"
          /\ submissions' = [submissions EXCEPT ![s] = Flush(@, r.base, r.mine)]
          /\ history' = [history EXCEPT ![s] =
               Append(@, [from |-> r.base.status, to |-> r.mine.status, by |-> r.user])]

\* A row that exists changes by the flush of a request that ends here, or goes
\* by a delete; the trail grows by one entry when the flush is a transition's.
LEMMA RowSteps ==
    ASSUME IInv, Next, NEW s \in SubmissionIds, Live(s)
    PROVE  \/ submissions'[s] = submissions[s] /\ history'[s] = history[s]
           \/ \E c \in Committing(s) : CommitOn(request[c], s)
<1>1. TypeOK /\ RequestsSound
  BY SplitIInv
<1>2. CASE \E u \in Users, t \in SubmissionIds, v \in ActiveVersions, f \in Forms :
             CreateSubmission(u, t, v, f)
  BY <1>1, <1>2 DEF CreateSubmission, Live, TypeOK
<1>3. ASSUME NEW c \in Sessions, Begin(c) \/ Rollback(c)
      PROVE  submissions'[s] = submissions[s] /\ history'[s] = history[s]
  BY <1>1, <1>3, BeginFacts DEF Rollback
<1>4. ASSUME NEW c \in Sessions,
             CommitContent(c) \/ CommitTransition(c) \/ CommitDelete(c)
      PROVE  \/ submissions'[s] = submissions[s] /\ history'[s] = history[s]
             \/ /\ c \in Committing(s) /\ request[c] \in Request
                /\ Faithful(request[c]) /\ Current(request[c])
  <2>1. /\ ~Idle(c) /\ request'[c] = None
        /\ request[c] \in Request /\ request[c].sid \in SubmissionIds
        /\ Faithful(request[c]) /\ Current(request[c])
    BY <1>1, <1>4 DEF CommitContent, CommitTransition, CommitDelete, Close, TypeOK,
                      RequestsSound, Idle, Request
  <2>2. CASE request[c].sid = s
    BY <2>1, <2>2 DEF Committing
  <2>3. CASE request[c].sid # s
    BY <1>1, <1>4, <2>1, <2>3
       DEF CommitContent, CommitTransition, CommitDelete, Written, TypeOK
  <2> QED BY <2>2, <2>3
<1>5. ASSUME NEW c \in Sessions,
             CommitContent(c) \/ CommitTransition(c) \/ CommitDelete(c),
             c \in Committing(s), request[c] \in Request,
             Faithful(request[c]), Current(request[c])
      PROVE  \E d \in Committing(s) : CommitOn(request[d], s)
  <2> WITNESS c \in Committing(s)
  <2>1. request[c].sid = s
    BY <1>5 DEF Committing
  <2> QED BY <1>5, <2>1 DEF CommitContent, CommitTransition, CommitDelete, Written, CommitOn
<1> QED BY <1>2, <1>3, <1>4, <1>5, NextCases

\* What a step of Next can do to the row and the trail of one submission.
LEMMA StepFacts ==
    ASSUME IInv, Next, NEW s \in SubmissionIds
    PROVE  MovesInTable(s) /\ ContentFrozen(s) /\ TrailKept(s)
<1>1. /\ TypeOK /\ RequestsSound
      /\ Deleted \notin Row
  BY SplitIInv, ConstantsOK
<1>2. CASE submissions[s] = Deleted
  <2>1. submissions'[s] = Deleted
    <3>1. CASE \E u \in Users, t \in SubmissionIds, v \in ActiveVersions, f \in Forms :
                 CreateSubmission(u, t, v, f)
      BY <1>1, <1>2, <3>1, ConstantsOK DEF CreateSubmission, TypeOK
    <3>2. ASSUME NEW c \in Sessions, Begin(c) \/ Rollback(c) PROVE submissions'[s] = Deleted
      BY <1>1, <1>2, <3>2, BeginFacts DEF Rollback
    <3>3. ASSUME NEW c \in Sessions,
                 CommitContent(c) \/ CommitTransition(c) \/ CommitDelete(c)
          PROVE  submissions'[s] = Deleted
      <4>1. request[c].sid \in SubmissionIds
        BY <1>1, <3>3 DEF CommitContent, CommitTransition, CommitDelete, TypeOK,
                          Idle, Request
      <4> QED BY <1>1, <1>2, <3>3, <4>1
             DEF CommitContent, CommitTransition, CommitDelete, Written, TypeOK, Live
    <3> QED BY <3>1, <3>2, <3>3, NextCases
  <2> QED BY <1>2, <2>1 DEF MovesInTable, ContentFrozen, TrailKept, Live
<1>3. CASE submissions[s] = None
  BY <1>3, ConstantsOK DEF MovesInTable, ContentFrozen, TrailKept, Live
<1>4. CASE Live(s)
  <2>1. CASE submissions'[s] = submissions[s]
    BY <1>4, <2>1 DEF MovesInTable, ContentFrozen, TrailKept, Live
  <2>2. CASE submissions'[s] # submissions[s]
    <3>1. PICK c \in Committing(s) : CommitOn(request[c], s)
      BY <1>4, <2>2, RowSteps
    <3> DEFINE r == request[c]
               row == submissions[s]
               new == Flush(row, r.base, r.mine)
    <3>2. /\ r.sid = s /\ row \in Row /\ r.base \in Row /\ r.mine \in Row
          /\ Faithful(r)
      BY <1>1, <1>4, <3>1 DEF Committing, CommitOn, Request, Live, TypeOK
    <3>3. r.base.status = row.status \/ Raced(s)
      BY <3>1 DEF Raced
    <3>4. CASE r.op = "delete"
      <4>1. submissions'[s] = Deleted
        BY <1>1, <3>1, <3>4 DEF CommitOn, TypeOK
      <4> QED BY <1>4, <3>2, <3>3, <3>4, <4>1
             DEF MovesInTable, ContentFrozen, TrailKept, Live, Faithful
    <3>5. CASE r.op # "delete"
      <4>1. submissions'[s] = new
        BY <1>1, <3>1, <3>5 DEF CommitOn, TypeOK
      <4>2. /\ new \in Row
            /\ new.status = IF r.mine.status # r.base.status
                              THEN r.mine.status ELSE row.status
            /\ r.mine.form_data = r.base.form_data => new.form_data = row.form_data
            /\ r.mine.template_version_id = r.base.template_version_id
                 => new.template_version_id = row.template_version_id
        BY <3>2, FlushFacts
      <4>3. MovesInTable(s)
        BY <3>2, <3>3, <4>1, <4>2 DEF MovesInTable, Faithful
      <4>4. ContentFrozen(s)
        <5> HIDE DEF new
        <5> QED BY <3>2, <3>3, <4>1, <4>2 DEF ContentFrozen, Faithful
      <4>5. TrailKept(s)
        <5>1. Live(s)'
          BY <1>1, <4>1, <4>2, ConstantsOK DEF Live
        <5> QED BY <1>4, <5>1 DEF TrailKept, Live
      <4> QED BY <4>3, <4>4, <4>5
    <3> QED BY <3>4, <3>5
  <2> QED BY <2>1, <2>2
<1> QED BY <1>2, <1>3, <1>4 DEF Live

\* The status leaves the table only by a request that acted on an outdated read.
THEOREM RacesOnly == Spec => OnlyRacesLeaveTheTable
<1>1. IInv /\ [Next]_vars => [\A s \in SubmissionIds : MovesInTable(s)]_vars
  BY StepFacts
<1> QED BY <1>1, Invariance, PTL DEF Spec, OnlyRacesLeaveTheTable

\* Form and template version change only where the code checks they may, unless
\* the check was made on an outdated read.
THEOREM ContentIsFrozen == Spec => ContentFrozenUnlessRaced
<1>1. IInv /\ [Next]_vars => [\A s \in SubmissionIds : ContentFrozen(s)]_vars
  BY StepFacts
<1> QED BY <1>1, Invariance, PTL DEF Spec, ContentFrozenUnlessRaced

\* A trail disappears only with a draft or cancelled submission, unless the
\* delete acted on an outdated read, and what is deleted stays deleted.
THEOREM TrailIsKept == Spec => TrailKeptUnlessRaced
<1>1. IInv /\ [Next]_vars => [\A s \in SubmissionIds : TrailKept(s)]_vars
  BY StepFacts
<1> QED BY <1>1, Invariance, PTL DEF Spec, TrailKeptUnlessRaced

-----------------------------------------------------------------------------
(* The workflow implements SubmissionLifecycle.                            *)

\* The refinement mapping of the status column.
StatusOf == [s \in SubmissionIds |->
               IF Live(s) THEN submissions[s].status ELSE submissions[s]]

\* Both modules take the table from SubmissionStatus.
LEMMA SameTable ==
    /\ Lifecycle!ReviewStatuses = ReviewStatuses
    /\ Lifecycle!ValidTransitions = ValidTransitions
  BY DEF Lifecycle!ReviewStatuses, ReviewStatuses, Lifecycle!ValidTransitions,
         ValidTransitions

\* A step that leaves statuses and trails alone is a stutter.
LEMMA ContentStutters ==
    ASSUME NEW s \in SubmissionIds, TypeOK, Live(s), NEW row \in Row,
           row.status = submissions[s].status,
           submissions' = [submissions EXCEPT ![s] = row]
    PROVE  StatusOf' = StatusOf
<1>1. ASSUME NEW t \in SubmissionIds
      PROVE  (IF Live(t) THEN submissions[t].status ELSE submissions[t])'
               = IF Live(t) THEN submissions[t].status ELSE submissions[t]
  BY ConstantsOK DEF TypeOK, Live
<1> QED BY <1>1 DEF StatusOf

\* The tables are empty in both.
LEMMA RefinesInit == Init => Lifecycle!Init
  BY DEF Init, Lifecycle!Init, Live

\* Creating a submission is Create of the lifecycle.
LEMMA CreateRefines ==
    ASSUME IInv, NEW u \in Users, NEW s \in SubmissionIds,
           NEW v \in ActiveVersions, NEW f \in Forms, CreateSubmission(u, s, v, f)
    PROVE  Lifecycle!Create(s, u)
<1> DEFINE row == [status |-> "draft", created_by |-> u, template_version_id |-> v,
                   form_data |-> f, reviewed_by |-> None]
<1>1. row \in Row /\ row \notin {None, Deleted}
  BY ConstantsOK DEF Row, Statuses
<1>2. /\ submissions \in [SubmissionIds -> Row \cup {None, Deleted}]
      /\ submissions[s] = None
      /\ submissions' = [submissions EXCEPT ![s] = row]
  BY SplitIInv DEF TypeOK, CreateSubmission
<1>3. StatusOf[s] = None
  BY <1>2 DEF StatusOf, Live
<1>4. StatusOf' = [StatusOf EXCEPT ![s] = "draft"]
  BY <1>1, <1>2 DEF StatusOf, Live
<1> QED BY <1>3, <1>4 DEF Lifecycle!Create, StatusOf, CreateSubmission

\* A committed delete is Remove of the lifecycle.
LEMMA DeleteRefines ==
    ASSUME IInv, NEW s \in SubmissionIds, Live(s),
           submissions' = [submissions EXCEPT ![s] = Deleted],
           history' = [history EXCEPT ![s] = <<>>]
    PROVE  Lifecycle!Remove(s)
<1>1. submissions \in [SubmissionIds -> Row \cup {None, Deleted}]
  BY SplitIInv DEF TypeOK
<1>2. StatusOf[s] \notin {None, Deleted}
  BY <1>1, ConstantsOK DEF StatusOf, Live, Row
<1>3. StatusOf' = [StatusOf EXCEPT ![s] = Deleted]
  BY <1>1 DEF StatusOf, Live
<1> QED BY <1>2, <1>3 DEF Lifecycle!Remove, StatusOf

\* A committed transition is Transition of the lifecycle.
LEMMA TransitionRefines ==
    ASSUME IInv, NEW s \in SubmissionIds, Live(s), NEW r \in Request,
           r.op = "transition", r.sid = s, CommitOn(r, s)
    PROVE  /\ r.base.status \in Lifecycle!Logged(s)
           /\ r.user \in Users
           /\ r.mine.status \in ValidTransitions[r.base.status]
           /\ Lifecycle!Transition(s, r.user, r.base.status, r.mine.status)
<1> DEFINE new == Flush(submissions[s], r.base, r.mine)
<1>1. /\ submissions \in [SubmissionIds -> Row \cup {None, Deleted}]
      /\ submissions[s] \in Row
      /\ Faithful(r) /\ Current(r)
      /\ r.base \in Row /\ r.mine \in Row /\ r.user \in Users
      /\ submissions' = [submissions EXCEPT ![s] = new]
      /\ history' = [history EXCEPT ![s] =
           Append(@, [from |-> r.base.status, to |-> r.mine.status, by |-> r.user])]
  BY SplitIInv DEF TypeOK, CommitOn, Live, Request
<1>2. new \in Row /\ new.status = r.mine.status /\ new \notin {None, Deleted}
  BY <1>1, FlushFacts, TableFacts, ConstantsOK DEF Faithful, Row
<1>3. r.base.status \in Lifecycle!Logged(s)
  BY <1>1 DEF Current, Logged, Lifecycle!Logged
<1>4. history[s][1].by = r.base.created_by
  <2>1. Sound(submissions[s], history[s]) /\ history[s] \in Seq(Entry)
    BY SplitIInv DEF TypeOK
  <2>2. history[s] # <<>> /\ 1 \in 1..Len(history[s])
    BY <2>1 DEF Sound, Live
  <2>3. history[s][1].by = submissions[s].created_by
    BY <2>1, <2>2 DEF Sound
  <2> QED BY <1>1, <2>3 DEF Current
<1>5. StatusOf[s] \notin {None, Deleted}
  BY <1>1, ConstantsOK DEF StatusOf, Live, Row
<1>6. StatusOf' = [StatusOf EXCEPT ![s] = r.mine.status]
  <2> HIDE DEF new
  <2> QED BY <1>1, <1>2 DEF StatusOf, Live
<1>7. r.mine.status \in ReviewStatuses =>
        r.user \in SuperAdmins \/ r.user # Lifecycle!Maker(s)
  BY <1>1, <1>4 DEF Faithful, Lifecycle!Maker
<1>8. Lifecycle!Transition(s, r.user, r.base.status, r.mine.status)
  BY <1>1, <1>5, <1>6, <1>7, SameTable DEF Lifecycle!Transition, StatusOf
<1> QED BY <1>1, <1>3, <1>8 DEF Faithful

\* Every step of the workflow is a step of the lifecycle or leaves it alone.
LEMMA RefinesNext == IInv /\ [Next]_vars => [Lifecycle!Next]_(Lifecycle!lifecycleVars)
<1> SUFFICES ASSUME IInv, [Next]_vars
             PROVE  Lifecycle!Next \/ (StatusOf' = StatusOf /\ history' = history)
  BY DEF Lifecycle!lifecycleVars, StatusOf
<1>1. TypeOK
  BY SplitIInv
<1>2. CASE UNCHANGED vars
  BY <1>2 DEF vars, StatusOf, Live
<1>3. CASE \E u \in Users, s \in SubmissionIds, v \in ActiveVersions, f \in Forms :
             CreateSubmission(u, s, v, f)
  BY <1>3, CreateRefines DEF Lifecycle!Next
<1>4. ASSUME NEW c \in Sessions, Begin(c) \/ Rollback(c)
      PROVE  StatusOf' = StatusOf /\ history' = history
  BY <1>1, <1>4, BeginFacts DEF Rollback, StatusOf, Live
<1>5. ASSUME NEW c \in Sessions, CommitDelete(c)
      PROVE  Lifecycle!Next \/ (StatusOf' = StatusOf /\ history' = history)
  <2> DEFINE s == request[c].sid
  <2>1. /\ s \in SubmissionIds /\ submissions[s] # None
        /\ submissions' = [submissions EXCEPT ![s] = Deleted]
        /\ history' = [history EXCEPT ![s] = <<>>]
    BY <1>1, <1>5, SplitIInv
       DEF CommitDelete, TypeOK, Idle, Request, RequestsSound, Current
  <2>2. CASE Live(s)
    BY <2>1, <2>2, DeleteRefines DEF Lifecycle!Next
  <2>3. CASE submissions[s] = Deleted
    <3>1. history[s] = <<>>
      BY <2>1, <2>3, SplitIInv DEF Sound
    <3> QED BY <1>1, <2>1, <2>3, <3>1 DEF StatusOf, Live, TypeOK
  <2> QED BY <2>1, <2>2, <2>3 DEF Live
<1>6. ASSUME NEW c \in Sessions, CommitContent(c)
      PROVE  StatusOf' = StatusOf /\ history' = history
  <2> DEFINE r == request[c]
             row == Flush(submissions[r.sid], r.base, r.mine)
  <2>1. /\ ~Idle(c) /\ Live(r.sid) /\ r.op # "transition" /\ history' = history
        /\ submissions' = [submissions EXCEPT ![r.sid] = row]
    BY <1>6 DEF CommitContent, Written
  <2>2. /\ r.sid \in SubmissionIds /\ submissions[r.sid] \in Row
        /\ r.base \in Row /\ r.mine \in Row /\ Faithful(r) /\ row \in Row
    BY <2>1, CommitFacts
  <2>3. row.status = submissions[r.sid].status
    BY <2>1, <2>2, FlushFacts DEF Faithful
  <2> HIDE DEF row
  <2> QED BY <1>1, <2>1, <2>2, <2>3, ContentStutters
<1>7. ASSUME NEW c \in Sessions, CommitTransition(c)
      PROVE  Lifecycle!Next
  <2> DEFINE r == request[c]
  <2>1. /\ ~Idle(c) /\ Live(r.sid) /\ r.op = "transition"
        /\ r \in Request /\ r.sid \in SubmissionIds
        /\ Faithful(r) /\ Current(r)
    BY <1>7, CommitFacts DEF CommitTransition
  <2>2. CommitOn(r, r.sid)
    BY <1>7, <2>1 DEF CommitOn, CommitTransition, Written
  <2> QED BY <2>1, <2>2, TransitionRefines, SameTable DEF Lifecycle!Next
<1> QED BY <1>2, <1>3, <1>4, <1>5, <1>6, <1>7, NextCases

\* Whatever requests overlap, callers see the behaviour SubmissionLifecycle
\* describes.
THEOREM WorkflowImplementsLifecycle == Spec => ImplementsLifecycle
  BY RefinesInit, RefinesNext, Invariance, PTL DEF Spec, ImplementsLifecycle, Lifecycle!Spec
=============================================================================
