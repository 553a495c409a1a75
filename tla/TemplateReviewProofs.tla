------------------------- MODULE TemplateReviewProofs -------------------------
(***************************************************************************)
(* What TemplateReview guarantees for every set of users, definitions,     *)
(* questions and rules, for histories of any length and for any number of  *)
(* overlapping requests.                                                   *)
(*                                                                         *)
(* The argument.  A definition only moves onwards (Onwards): from nothing  *)
(* to a row to Deleted, from draft to published, from one entry of its     *)
(* history to the next.  What a handler checked and cannot be undone       *)
(* therefore still holds when it commits (Current).  What can be undone is *)
(* matched by what its copy differs in from the row it read (Faithful),    *)
(* which decides the columns its commit writes: a review always writes the *)
(* status, an edit never writes one but "draft", and only publishing       *)
(* writes is_draft.                                                        *)
(***************************************************************************)
EXTENDS TemplateReview, TLAPS

\* The user is in the history as a submitter of the definition.
Submitted(d, u) ==
    \E j \in 1..Len(reviews[d]) : /\ reviews[d][j].action = "pending_review"
                                  /\ reviews[d][j].by = u

\* How what a request means to write differs from what it read.
Faithful(r) ==
    /\ r.op # "activate" =>
         r.id \in Definitions /\ r.base \in Row /\ r.mine \in Row /\ r.base.is_draft
    /\ r.op = "update" =>
         /\ Editable(r.base)
         /\ \E config \in Configs : r.mine = Edited(r.base, config)
    /\ r.op = "review" =>
         /\ r.user \in Users
         /\ r.mine.is_draft = r.base.is_draft
         /\ r.mine.rules_config = r.base.rules_config
         /\ r.mine.review_status \in ReviewStatuses \ {"draft", r.base.review_status}
         /\ IF r.mine.review_status = "pending_review"
              THEN r.mine.submitted_by = r.user
              ELSE r.mine.submitted_by = r.base.submitted_by
         /\ r.mine.review_status = "approved" => r.user # r.base.submitted_by
    /\ r.op \in {"publish", "generate"} =>
         /\ r.base.review_status = "approved"
         /\ r.mine = [r.base EXCEPT !.is_draft = FALSE]
         /\ r.was \in TemplateRow
         /\ r.becomes \in {r.was, [active_version_id |-> r.id]}
    /\ r.op = "generate" => r.was.active_version_id \in Definitions
    /\ r.op = "activate" =>
         r.was \in TemplateRow /\ r.becomes = [active_version_id |-> r.id]

\* A definition that was active when it was read, if it is there.
WasActive(d) ==
    d # None => /\ definitions[d] # None
                /\ (Live(d) /\ d # First) => ~definitions[d].is_draft

\* What still holds of the definitions a request is about.
Current(r) ==
    r.id # None =>
        /\ definitions[r.id] # None
        /\ r.op \in {"publish", "generate"} => WasActive(r.was.active_version_id)
        /\ (Live(r.id) /\ r.op \in {"generate", "activate"}) =>
             ~definitions[r.id].is_draft
        /\ (Live(r.id) /\ r.op = "review" /\ r.base.submitted_by # None) =>
             Submitted(r.id, r.base.submitted_by)

RequestsSound ==
    \A c \in Sessions : ~Idle(c) => Faithful(request[c]) /\ Current(request[c])

\* Definitions are part of a template.
Rooted ==
    \A d \in Definitions : /\ definitions[d] # None => template # None
                           /\ Live(d) => TemplateLives

\* The submitter a definition shows is in its history.
SubmittersAreLogged ==
    \A d \in Definitions :
        (Live(d) /\ definitions[d].submitted_by # None) =>
            Submitted(d, definitions[d].submitted_by)

IInv ==
    /\ TypeOK
    /\ Rooted
    /\ ReviewStatusIsLogged
    /\ SubmittersAreLogged
    /\ ActiveIsPublished
    /\ RulesLinkPublished
    /\ RequestsSound

\* No step takes a definition back.
Onwards ==
    \A d \in Definitions : definitions[d] # None =>
        /\ definitions'[d] # None
        /\ Live(d)' => /\ Live(d)
                       /\ ~definitions[d].is_draft => ~definitions'[d].is_draft
                       /\ \A u \in Users : Submitted(d, u) => Submitted(d, u)'

-----------------------------------------------------------------------------
(* Facts about the data.                                                   *)

\* A flush keeps a row a row and decides each column on its own.
LEMMA FlushFacts ==
    ASSUME NEW row \in Row, NEW base \in Row, NEW mine \in Row
    PROVE  LET new == Flush(row, base, mine) IN
           /\ new \in Row
           /\ new.is_draft =
                IF mine.is_draft # base.is_draft THEN mine.is_draft ELSE row.is_draft
           /\ new.review_status = IF mine.review_status # base.review_status
                                    THEN mine.review_status ELSE row.review_status
           /\ new.submitted_by = IF mine.submitted_by # base.submitted_by
                                   THEN mine.submitted_by ELSE row.submitted_by
           /\ new.rules_config = IF mine.rules_config # base.rules_config
                                   THEN mine.rules_config ELSE row.rules_config
  BY DEF Flush, Row

\* A flush over the row that was read writes the changed copy.
LEMMA FlushCurrent ==
    ASSUME NEW row \in Row, NEW mine \in Row
    PROVE  Flush(row, row, mine) = mine
  BY DEF Flush, Row

\* A flush of the template points it where it pointed or where the request did.
LEMMA FlushTemplate ==
    ASSUME NEW row \in TemplateRow, NEW was \in TemplateRow, NEW becomes \in TemplateRow
    PROVE  /\ Flush(row, was, becomes) \in TemplateRow
           /\ Flush(row, was, becomes).active_version_id =
                IF becomes # was THEN becomes.active_version_id ELSE row.active_version_id
  BY DEF Flush, TemplateRow

\* An edit keeps a draft a draft that is not under review, and takes an approval away.
LEMMA EditedFacts ==
    ASSUME NEW row \in Row, NEW config \in Configs, Editable(row)
    PROVE  LET new == Edited(row, config) IN
           /\ new \in Row /\ new.is_draft
           /\ new.review_status = "draft"
           /\ new.submitted_by \in {None, row.submitted_by}
  BY DEF Edited, Editable, Row, NewDefinition, ReviewStatuses

\* Logging adds one entry at the end.
LEMMA AppendFacts ==
    ASSUME NEW log \in Seq(Event), NEW event \in Event
    PROVE  /\ Append(log, event) \in Seq(Event)
           /\ Append(log, event) # <<>>
           /\ Len(log) \in Nat
           /\ Len(Append(log, event)) = Len(log) + 1
           /\ \A i \in 1..Len(log) : Append(log, event)[i] = log[i]
           /\ Append(log, event)[Len(log) + 1] = event
  OBVIOUS

\* None, Deleted, rows and requests are not taken for one another.
LEMMA Markers ==
    /\ None # Deleted
    /\ None \notin Row /\ Deleted \notin Row
    /\ None \notin TemplateRow /\ Deleted \notin TemplateRow
    /\ None \notin Definitions /\ None \notin Users /\ None \notin Request
  BY ConstantsOK

\* Definitions, templates and requests that are there are of their types.
LEMMA Typed ==
    ASSUME TypeOK
    PROVE  /\ \A d \in Definitions : Live(d) <=> definitions[d] \in Row
           /\ TemplateLives <=> template \in TemplateRow
           /\ \A c \in Sessions : ~Idle(c) <=> request[c] \in Request
  BY Markers DEF TypeOK, Live, TemplateLives, Idle

-----------------------------------------------------------------------------
(* The requests.                                                           *)

\* The ways to begin a request.
Begin(c) ==
    \/ \E d \in Definitions :
         \/ \E config \in Configs : UpdateBegin(c, d, config)
         \/ DeleteBegin(c, d)
         \/ \E u \in Users : SubmitBegin(c, u, d)
         \/ \E u \in SuperAdmins, verdict \in {"approved", "changes_requested"} :
              ReviewBegin(c, u, d, verdict)
         \/ \E set_as_active \in BOOLEAN : PublishBegin(c, d, set_as_active)
         \/ \E q \in Questions : AddBegin(c, d, q)
         \/ \E touched \in SUBSET Questions : RemoveBegin(c, d, touched)
    \/ \E d \in Definitions \cup {None} : ActivateBegin(c, d)

\* What requests do to rule sets only.
RulesAsked ==
    \/ \E source, target \in Definitions : AskForRuleSet(source, target)
    \/ \E p \in rule_sets : DeleteRuleSet(p)

\* Next, its beginnings folded into Begin.
LEMMA NextCases ==
    ASSUME Next
    PROVE  \/ \E config \in Configs, own \in SUBSET (Questions \ Locked) :
                \/ CreateTemplate(config, own)
                \/ \E d \in Definitions : CreateDefinition(d, config, own)
           \/ DeleteTemplate
           \/ RulesAsked
           \/ \E c \in Sessions :
                \/ Begin(c)
                \/ CommitUpdate(c) \/ CommitReview(c) \/ CommitPublish(c) \/ Generate(c)
                \/ CommitQuestions(c) \/ CommitDelete(c) \/ CommitActivate(c) \/ GiveUp(c)
  BY DEF Next, Begin, RulesAsked

\* However a request begins, it has read the definition as it is and means to write
\* what its checks allow, and touches nothing else.
LEMMA BeginFacts ==
    ASSUME TypeOK, Rooted, SubmittersAreLogged, ActiveIsPublished,
           NEW c \in Sessions, Begin(c)
    PROVE  /\ Idle(c)
           /\ UNCHANGED tables
           /\ \E r \in Request : /\ request' = [request EXCEPT ![c] = r]
                                 /\ Faithful(r) /\ Current(r)
<1> DEFINE Begun(r) == /\ r \in Request
                       /\ request' = [request EXCEPT ![c] = r]
                       /\ Faithful(r) /\ Current(r)
<1>1. ASSUME NEW d \in Definitions, Live(d), definitions[d].is_draft,
             NEW op \in {"delete", "add", "remove"}, NEW touched \in SUBSET Questions,
             request' = [request EXCEPT ![c] = [Reading(op, d) EXCEPT !.touched = touched]]
      PROVE  \E r : Begun(r)
  <2> DEFINE r == [Reading(op, d) EXCEPT !.touched = touched]
  <2>1. definitions[d] \in Row /\ definitions[d] # None
    BY <1>1, Typed, Markers
  <2>2. /\ r \in Request /\ r.op = op /\ r.id = d
        /\ r.base = definitions[d] /\ r.mine = definitions[d]
    BY <1>1, <2>1 DEF Reading, Request, Operations
  <2>3. Faithful(r) /\ Current(r)
    BY <1>1, <2>1, <2>2 DEF Faithful, Current
  <2> QED BY <1>1, <2>2, <2>3
<1>2. ASSUME NEW d \in Definitions, NEW config \in Configs, UpdateBegin(c, d, config)
      PROVE  \E r : Begun(r)
  <2> DEFINE row == definitions[d]
             r == [Reading("update", d) EXCEPT !.mine = Edited(row, config)]
  <2>1. Editable(row) /\ row \in Row /\ row # None /\ row.is_draft
    BY <1>2, Typed, Markers DEF UpdateBegin, Editable
  <2>2. /\ r \in Request /\ r.op = "update" /\ r.id = d /\ r.base = row
        /\ r.mine = Edited(row, config) /\ r.mine \in Row
    BY <2>1, EditedFacts DEF Reading, Request, Operations
  <2>3. request' = [request EXCEPT ![c] = r]
    BY <1>2 DEF UpdateBegin, Open, Reading
  <2>4. Faithful(r) /\ Current(r)
    BY <2>1, <2>2 DEF Faithful, Current
  <2> QED BY <2>2, <2>3, <2>4
<1>3. ASSUME NEW d \in Definitions, Live(d), NEW u \in Users,
             NEW status \in ReviewStatuses \ {"draft"}, NEW mine \in Row,
             LET row == definitions[d] IN
               /\ row.is_draft /\ row.review_status # status
               /\ mine.is_draft = row.is_draft
               /\ mine.rules_config = row.rules_config
               /\ mine.review_status = status
               /\ IF status = "pending_review" THEN mine.submitted_by = u
                    ELSE mine.submitted_by = row.submitted_by
               /\ status = "approved" => u # row.submitted_by,
             request' = [request EXCEPT ![c] =
                           [Reading("review", d) EXCEPT !.user = u, !.mine = mine]]
      PROVE  \E r : Begun(r)
  <2> DEFINE row == definitions[d]
             r == [Reading("review", d) EXCEPT !.user = u, !.mine = mine]
  <2>1. row \in Row /\ row # None
    BY <1>3, Typed, Markers
  <2>2. /\ r \in Request /\ r.op = "review" /\ r.id = d /\ r.base = row /\ r.mine = mine
        /\ r.user = u
    BY <2>1, <1>3 DEF Reading, Request, Operations
  <2>3. Faithful(r)
    BY <1>3, <2>1, <2>2 DEF Faithful
  <2>4. Current(r)
    BY <1>3, <2>1, <2>2 DEF Current, SubmittersAreLogged
  <2> QED BY <1>3, <2>2, <2>3, <2>4
<1> HIDE DEF Begun
<1>4. ASSUME NEW d \in Definitions,
             \/ DeleteBegin(c, d)
             \/ \E q \in Questions : AddBegin(c, d, q)
             \/ \E touched \in SUBSET Questions : RemoveBegin(c, d, touched)
      PROVE  \E r : Begun(r)
  <2>1. Live(d) /\ definitions[d].is_draft
    BY <1>4 DEF DeleteBegin, AddBegin, RemoveBegin, Editable, QuestionsOpen
  <2>2. CASE DeleteBegin(c, d)
    <3>1. request' = [request EXCEPT ![c] = [Reading("delete", d) EXCEPT !.touched = {}]]
      BY <2>2 DEF DeleteBegin, Open, Reading
    <3>2. {} \in SUBSET Questions /\ "delete" \in {"delete", "add", "remove"}
      OBVIOUS
    <3> QED BY <1>1, <2>1, <3>1, <3>2
  <2>3. CASE \E q \in Questions : AddBegin(c, d, q)
    <3>1. PICK q \in Questions : AddBegin(c, d, q)
      BY <2>3
    <3>2. request' = [request EXCEPT ![c] = [Reading("add", d) EXCEPT !.touched = {q}]]
      BY <3>1 DEF AddBegin, Open, Reading
    <3>3. {q} \in SUBSET Questions /\ "add" \in {"delete", "add", "remove"}
      OBVIOUS
    <3> QED BY <1>1, <2>1, <3>2, <3>3
  <2>4. CASE \E touched \in SUBSET Questions : RemoveBegin(c, d, touched)
    <3>1. PICK touched \in SUBSET Questions : RemoveBegin(c, d, touched)
      BY <2>4
    <3>2. request' = [request EXCEPT ![c] = [Reading("remove", d) EXCEPT !.touched = touched]]
      BY <3>1 DEF RemoveBegin, Open, Reading
    <3> QED BY <1>1, <2>1, <3>2
  <2> QED BY <1>4, <2>2, <2>3, <2>4
<1>5. ASSUME NEW d \in Definitions, NEW u \in Users, SubmitBegin(c, u, d)
      PROVE  \E r : Begun(r)
  <2> DEFINE row == definitions[d]
             mine == [row EXCEPT !.review_status = "pending_review", !.submitted_by = u,
                                 !.reviewed_by = None]
  <2>1. Live(d) /\ Editable(row) /\ row \in Row
    BY <1>5, Typed DEF SubmitBegin
  <2>2. /\ mine \in Row /\ mine.is_draft = row.is_draft
        /\ mine.rules_config = row.rules_config
        /\ mine.review_status = "pending_review" /\ mine.submitted_by = u
    BY <2>1 DEF Row, ReviewStatuses
  <2>3. request' = [request EXCEPT ![c] =
                      [Reading("review", d) EXCEPT !.user = u, !.mine = mine]]
    BY <1>5 DEF SubmitBegin, Open, Reading
  <2> QED BY <1>3, <2>1, <2>2, <2>3 DEF Editable, ReviewStatuses
<1>6. ASSUME NEW d \in Definitions, NEW u \in SuperAdmins,
             NEW verdict \in {"approved", "changes_requested"},
             ReviewBegin(c, u, d, verdict)
      PROVE  \E r : Begun(r)
  <2> DEFINE row == definitions[d]
             mine == [row EXCEPT !.review_status = verdict, !.reviewed_by = u]
  <2>1. /\ Live(d) /\ Reviewable(row) /\ row \in Row /\ u \in Users
        /\ verdict = "approved" => u # row.submitted_by
    BY <1>6, Typed DEF ReviewBegin, MayApprove, Users
  <2>2. /\ mine \in Row /\ mine.is_draft = row.is_draft
        /\ mine.rules_config = row.rules_config
        /\ mine.review_status = verdict /\ mine.submitted_by = row.submitted_by
    BY <2>1 DEF Row, ReviewStatuses
  <2>3. request' = [request EXCEPT ![c] =
                      [Reading("review", d) EXCEPT !.user = u, !.mine = mine]]
    BY <1>6 DEF ReviewBegin, Open, Reading
  <2>4. verdict \in ReviewStatuses \ {"draft"} /\ row.review_status # verdict /\ row.is_draft
        /\ verdict # "pending_review"
    BY <2>1 DEF Reviewable, ReviewStatuses
  <2> HIDE DEF mine
  <2> QED BY <1>3, <2>1, <2>2, <2>3, <2>4
<1>7. ASSUME NEW d \in Definitions, NEW set_as_active \in BOOLEAN,
             PublishBegin(c, d, set_as_active)
      PROVE  \E r : Begun(r)
  <2> DEFINE row == definitions[d]
             becomes == IF set_as_active THEN [active_version_id |-> d] ELSE template
             mine == [row EXCEPT !.is_draft = FALSE]
             r == [Reading("publish", d) EXCEPT !.mine = mine, !.was = template,
                                                !.becomes = becomes]
  <2>1. /\ Live(d) /\ Publishable(row) /\ row \in Row /\ row # None
        /\ template \in TemplateRow
    BY <1>7, Typed, Markers DEF PublishBegin, Rooted
  <2>2. becomes \in TemplateRow /\ mine \in Row
    BY <2>1 DEF TemplateRow, Row
  <2>3. request' = [request EXCEPT ![c] = r]
    BY <1>7 DEF PublishBegin, Open, Reading
  <2> HIDE DEF mine, becomes
  <2>4. /\ r \in Request /\ r.op = "publish" /\ r.id = d /\ r.base = row
        /\ r.mine = mine /\ r.was = template /\ r.becomes = becomes
    BY <2>1, <2>2 DEF Reading, Request, Operations
  <2>5. Faithful(r)
    BY <2>1, <2>2, <2>4 DEF Faithful, Publishable, mine, becomes
  <2>6. WasActive(template.active_version_id)
    BY <2>1, Typed, Markers DEF ActiveIsPublished, WasActive, TemplateLives, TemplateRow, Live
  <2>7. Current(r)
    BY <2>1, <2>4, <2>6 DEF Current
  <2> QED BY <2>3, <2>4, <2>5, <2>7 DEF Begun
<1>8. ASSUME NEW d \in Definitions \cup {None}, ActivateBegin(c, d)
      PROVE  \E r : Begun(r)
  <2> DEFINE r == [op |-> "activate", id |-> d, user |-> None, base |-> None,
                   mine |-> None, was |-> template,
                   becomes |-> [active_version_id |-> d], touched |-> {}]
  <2>1. template \in TemplateRow
    BY <1>8, Typed DEF ActivateBegin
  <2>2. r \in Request
    BY <2>1 DEF Request, Operations, TemplateRow
  <2>3. request' = [request EXCEPT ![c] = r]
    BY <1>8 DEF ActivateBegin, Open
  <2>4. Faithful(r)
    BY <2>1 DEF Faithful
  <2>5. Current(r)
    BY <1>8, Markers DEF Current, ActivateBegin, Activatable, Live
  <2> QED BY <2>2, <2>3, <2>4, <2>5 DEF Begun
<1>9. Idle(c) /\ UNCHANGED tables
  BY DEF Begin, UpdateBegin, DeleteBegin, SubmitBegin, ReviewBegin, PublishBegin,
         AddBegin, RemoveBegin, ActivateBegin, Open
<1>10. \E r : Begun(r)
  BY <1>2, <1>4, <1>5, <1>6, <1>7, <1>8 DEF Begin
<1> QED BY <1>9, <1>10 DEF Begun

-----------------------------------------------------------------------------
(* IInv is inductive: one lemma per kind of step.                          *)

\* There is nothing to begin with.
LEMMA InitEstablishes == Init => IInv
<1> SUFFICES ASSUME Init PROVE IInv
  OBVIOUS
<1>1. TypeOK
  BY DEF Init, TypeOK
<1>2. \A d \in Definitions : definitions[d] = None /\ ~Live(d)
  BY DEF Init, Live
<1>3. ActiveIsPublished /\ RulesLinkPublished /\ RequestsSound
  BY DEF Init, ActiveIsPublished, TemplateLives, RulesLinkPublished, RequestsSound,
         Idle
<1> QED BY <1>1, <1>2, <1>3 DEF IInv, Rooted, ReviewStatusIsLogged, SubmittersAreLogged

\* What was active stays so as definitions move onwards.
LEMMA WasActiveStays ==
    ASSUME Onwards, NEW d \in Definitions \cup {None}, WasActive(d)
    PROVE  WasActive(d)'
  BY DEF Onwards, WasActive

\* What still holds of a request holds on as definitions move onwards.
LEMMA CurrentStays ==
    ASSUME TypeOK, Onwards, NEW r \in Request, Faithful(r), Current(r)
    PROVE  Current(r)'
<1>1. (r.op = "review" /\ r.base.submitted_by # None) => r.base.submitted_by \in Users
  BY DEF Faithful, Row
<1>2. r.id \in Definitions \cup {None}
  BY DEF Request
<1>3. r.op \in {"publish", "generate"} =>
        r.was.active_version_id \in Definitions \cup {None}
  BY DEF Faithful, TemplateRow
<1>4. (r.id # None /\ r.op \in {"publish", "generate"}) =>
        WasActive(r.was.active_version_id)'
  BY <1>3, WasActiveStays DEF Current
<1> QED BY <1>1, <1>2, <1>4 DEF Current, Onwards

\* As definitions move onwards, requests that stay or end stay sound.
LEMMA RequestsStaySound ==
    ASSUME TypeOK, RequestsSound, Onwards,
           \A c \in Sessions : request'[c] \in {request[c], None}
    PROVE  RequestsSound'
<1> SUFFICES ASSUME NEW c \in Sessions, ~Idle(c)'
             PROVE  Faithful(request[c])' /\ Current(request[c])'
  BY DEF RequestsSound
<1> DEFINE r == request[c]
<1>1. request'[c] = r /\ ~Idle(c) /\ r \in Request
  BY Typed DEF Idle
<1>2. Faithful(r) /\ Current(r)
  BY <1>1 DEF RequestsSound
<1>3. Faithful(request'[c])
  BY <1>1, <1>2
<1>4. Current(r)'
  <2>1. PICK q \in Request : q = r
    BY <1>1
  <2>2. Current(q)'
    BY <1>2, <2>1, CurrentStays
  <2> QED BY <1>1, <2>1, <2>2 DEF Current
<1> QED BY <1>1, <1>3, <1>4 DEF Faithful

\* A step that leaves the tables alone leaves alone what is only about them.
LEMMA TablesAlone ==
    ASSUME IInv, UNCHANGED tables
    PROVE  /\ Rooted' /\ ReviewStatusIsLogged' /\ SubmittersAreLogged'
           /\ ActiveIsPublished' /\ RulesLinkPublished'
           /\ Onwards
  BY DEF IInv, tables, Rooted, ReviewStatusIsLogged, SubmittersAreLogged, Submitted,
         ActiveIsPublished, RulesLinkPublished, Onwards, Live, TemplateLives

\* A request that begins is sound.
LEMMA BeginPreserves ==
    ASSUME IInv, NEW c \in Sessions, Begin(c)
    PROVE  IInv'
<1>1. TypeOK /\ Rooted /\ SubmittersAreLogged /\ ActiveIsPublished /\ RequestsSound
  BY DEF IInv
<1>2. Idle(c) /\ UNCHANGED tables
  BY <1>1, BeginFacts
<1>3. PICK r \in Request : /\ request' = [request EXCEPT ![c] = r]
                           /\ Faithful(r) /\ Current(r)
  BY <1>1, BeginFacts
<1>4. TypeOK'
  BY <1>1, <1>2, <1>3 DEF TypeOK, tables
<1>5. RequestsSound'
  <2> SUFFICES ASSUME NEW s \in Sessions, ~Idle(s)'
               PROVE  Faithful(request'[s]) /\ Current(request[s])'
    BY DEF RequestsSound, Faithful
  <2>1. request'[s] = r \/ (request'[s] = request[s] /\ ~Idle(s))
    BY <1>1, <1>3 DEF TypeOK, Idle
  <2>2. Faithful(request'[s]) /\ Current(request'[s])
    <3>1. CASE request'[s] = r
      BY <1>3, <3>1
    <3>2. CASE request'[s] = request[s] /\ ~Idle(s)
      <4>1. Faithful(request[s]) /\ Current(request[s])
        BY <1>1, <3>2 DEF RequestsSound
      <4> QED BY <3>2, <4>1
    <3> QED BY <2>1, <3>1, <3>2
  <2>3. Current(request'[s]) <=> Current(request[s])'
    BY <1>2 DEF tables, Current, WasActive, Live, Submitted
  <2> QED BY <2>2, <2>3
<1> QED BY <1>2, <1>4, <1>5, TablesAlone DEF IInv

\* A request that gives up is no more.
LEMMA GiveUpPreserves ==
    ASSUME IInv, NEW c \in Sessions, GiveUp(c)
    PROVE  IInv'
<1>1. TypeOK /\ RequestsSound /\ UNCHANGED tables
  BY DEF IInv, GiveUp
<1>2. \A s \in Sessions : request'[s] \in {request[s], None}
  BY <1>1 DEF TypeOK, GiveUp, Close
<1>3. TypeOK'
  BY <1>1 DEF TypeOK, GiveUp, Close, tables
<1> QED BY <1>1, <1>2, <1>3, TablesAlone, RequestsStaySound DEF IInv

\* A definition is new only if it was never there.
LEMMA NewPreserves ==
    ASSUME IInv, NEW d \in Definitions, NEW config \in Configs,
           NEW asked \in SUBSET Questions,
           definitions[d] = None, template' \in TemplateRow,
           \/ template' = template
           \/ template = None /\ template'.active_version_id \in {d, None},
           definitions' = [definitions EXCEPT ![d] = NewDefinition(config)],
           questions' = [questions EXCEPT ![d] = asked],
           template'.active_version_id = d => d = First,
           UNCHANGED <<reviews, rule_sets, request>>
    PROVE  IInv'
<1> DEFINE new == NewDefinition(config)
<1>1. TypeOK /\ RequestsSound
  BY DEF IInv
<1>2. /\ new \in Row /\ new # None /\ new # Deleted
      /\ new.review_status = "draft" /\ new.submitted_by = None
  <2>1. new \in Row
    BY DEF NewDefinition, Row, ReviewStatuses
  <2> QED BY <2>1, Markers DEF NewDefinition
<1>3. /\ definitions'[d] = new
      /\ \A e \in Definitions \ {d} : definitions'[e] = definitions[e]
  BY <1>1 DEF TypeOK
<1>4. TypeOK'
  BY <1>1, <1>2 DEF TypeOK
<1>5. \A e \in Definitions : Live(e)' <=> Live(e) \/ e = d
  BY <1>2, <1>3 DEF Live
<1>6. TemplateLives'
  BY Markers DEF TemplateLives
<1>7. Rooted'
  BY <1>6 DEF Rooted, TemplateLives
<1> HIDE DEF new
<1>8. ReviewStatusIsLogged' /\ SubmittersAreLogged'
  BY <1>2, <1>3, <1>5 DEF IInv, ReviewStatusIsLogged, SubmittersAreLogged, Submitted
<1>9. ActiveIsPublished'
  <2>1. CASE template' = template
    <3>1. TemplateLives
      BY <2>1, <1>6 DEF TemplateLives
    <3> QED BY <1>3, <1>5, <2>1, <3>1, Markers
            DEF IInv, ActiveIsPublished, TypeOK, TemplateRow, Live
  <2>2. CASE template = None /\ template'.active_version_id \in {d, None}
    BY <1>5, <2>2 DEF ActiveIsPublished
  <2> QED BY <2>1, <2>2
<1>10. RulesLinkPublished'
  BY <1>1, <1>3, <1>5 DEF IInv, RulesLinkPublished, Live, TypeOK, RuleSet
<1>11. Onwards
  BY <1>2, <1>3, <1>5 DEF Onwards, Submitted
<1> QED BY <1>1, <1>4, <1>7, <1>8, <1>9, <1>10, <1>11, RequestsStaySound DEF IInv

\* A template and its first definition, which is active at once, or none.
LEMMA CreateTemplatePreserves ==
    ASSUME IInv, NEW config \in Configs, NEW own \in SUBSET (Questions \ Locked),
           CreateTemplate(config, own)
    PROVE  IInv'
<1>1. TypeOK /\ Rooted /\ RequestsSound
  BY DEF IInv
<1>2. template = None /\ \A d \in Definitions : definitions[d] = None /\ ~Live(d)
  BY <1>1 DEF CreateTemplate, Rooted, Live
<1>3. CASE /\ template' = [active_version_id |-> First]
           /\ definitions' = [definitions EXCEPT ![First] = NewDefinition(config)]
           /\ questions' = [questions EXCEPT ![First] = Locked \cup own]
  <2>1. /\ First \in Definitions /\ template' \in TemplateRow
        /\ Locked \cup own \in SUBSET Questions
    BY <1>3, ConstantsOK DEF TemplateRow
  <2> QED BY <1>2, <1>3, <2>1, NewPreserves DEF CreateTemplate
<1>4. CASE /\ template' = [active_version_id |-> None]
           /\ UNCHANGED <<definitions, questions>>
  <2>1. template' \in TemplateRow
    BY <1>4 DEF TemplateRow
  <2>2. TypeOK'
    BY <1>1, <1>4, <2>1 DEF TypeOK, CreateTemplate
  <2>3. Rooted' /\ ReviewStatusIsLogged' /\ SubmittersAreLogged' /\ Onwards
    BY <1>2, <1>4 DEF Rooted, ReviewStatusIsLogged, SubmittersAreLogged, Onwards, Live
  <2>4. ActiveIsPublished' /\ RulesLinkPublished'
    BY <1>1, <1>2, <1>4 DEF IInv, ActiveIsPublished, RulesLinkPublished, TypeOK,
                            RuleSet, CreateTemplate
  <2>5. \A c \in Sessions : request'[c] \in {request[c], None}
    BY DEF CreateTemplate
  <2> QED BY <1>1, <2>2, <2>3, <2>4, <2>5, RequestsStaySound DEF IInv
<1> QED BY <1>3, <1>4 DEF CreateTemplate

\* A further definition.
LEMMA CreateDefinitionPreserves ==
    ASSUME IInv, NEW d \in Definitions, NEW config \in Configs,
           NEW own \in SUBSET (Questions \ Locked), CreateDefinition(d, config, own)
    PROVE  IInv'
<1>1. /\ TypeOK /\ ActiveIsPublished /\ definitions[d] = None
      /\ TemplateLives /\ template' = template
  BY DEF IInv, CreateDefinition
<1>2. template \in TemplateRow /\ template.active_version_id # d
  BY <1>1, Typed, Markers DEF ActiveIsPublished, Live
<1>3. Locked \cup own \in SUBSET Questions
  BY ConstantsOK
<1> QED BY <1>1, <1>2, <1>3, NewPreserves DEF CreateDefinition

\* Everything goes with the template.
LEMMA DeleteTemplatePreserves ==
    ASSUME IInv, DeleteTemplate
    PROVE  IInv'
<1>1. TypeOK /\ RequestsSound
  BY DEF IInv
<1>2. /\ \A d \in Definitions : ~Live(d)' /\ (definitions[d] # None => definitions'[d] # None)
      /\ ~TemplateLives' /\ template' # None /\ rule_sets' = {}
  BY Markers DEF DeleteTemplate, Live, TemplateLives
<1>3. TypeOK'
  BY <1>1 DEF TypeOK, DeleteTemplate, Live
<1>4. Onwards
  BY <1>2 DEF Onwards
<1>5. /\ Rooted' /\ ReviewStatusIsLogged' /\ SubmittersAreLogged'
      /\ ActiveIsPublished' /\ RulesLinkPublished'
  BY <1>2 DEF Rooted, ReviewStatusIsLogged, SubmittersAreLogged, ActiveIsPublished,
              RulesLinkPublished
<1>6. \A c \in Sessions : request'[c] \in {request[c], None}
  BY DEF DeleteTemplate
<1> QED BY <1>1, <1>3, <1>4, <1>5, <1>6, RequestsStaySound DEF IInv

\* What a commit of a definition's columns makes of its row.
LEMMA WrittenFacts ==
    ASSUME IInv, NEW c \in Sessions, ~Idle(c),
           request[c].op \in {"update", "review", "publish"}, Live(request[c].id)
    PROVE  LET r == request[c]
               row == definitions[r.id]
               new == Flush(row, r.base, r.mine)
           IN  /\ r \in Request /\ Faithful(r) /\ Current(r)
               /\ r.id \in Definitions /\ r.base \in Row /\ r.mine \in Row
               /\ row \in Row /\ new \in Row
               /\ Written(c)[r.id] = new
               /\ Written(c) \in [Definitions -> Row \cup {None, Deleted}]
               /\ \A d \in Definitions \ {r.id} : Written(c)[d] = definitions[d]
               /\ r.op = "publish" =>
                    /\ ~new.is_draft
                    /\ new.review_status = row.review_status
                    /\ new.submitted_by = row.submitted_by
               /\ r.op # "publish" => new.is_draft = row.is_draft
               /\ r.op = "update" =>
                    /\ new.review_status \in {row.review_status, "draft"}
                    /\ new.submitted_by \in {row.submitted_by, None}
               /\ r.op = "review" =>
                    /\ new.review_status = r.mine.review_status
                    /\ IF r.mine.review_status = "pending_review"
                         THEN new.submitted_by \in {row.submitted_by, r.user}
                         ELSE new.submitted_by = row.submitted_by
<1> DEFINE r == request[c]
           row == definitions[r.id]
           new == Flush(row, r.base, r.mine)
<1>1. TypeOK /\ r \in Request /\ Faithful(r) /\ Current(r)
  BY Typed DEF IInv, RequestsSound
<1>2. r.id \in Definitions /\ r.base \in Row /\ r.mine \in Row
  BY <1>1 DEF Faithful
<1>3. row \in Row
  BY <1>1, <1>2, Typed
<1>4. /\ new \in Row
      /\ new.is_draft =
           IF r.mine.is_draft # r.base.is_draft THEN r.mine.is_draft ELSE row.is_draft
      /\ new.review_status = IF r.mine.review_status # r.base.review_status
                               THEN r.mine.review_status ELSE row.review_status
      /\ new.submitted_by = IF r.mine.submitted_by # r.base.submitted_by
                              THEN r.mine.submitted_by ELSE row.submitted_by
  BY <1>2, <1>3, FlushFacts
<1>5. /\ Written(c)[r.id] = new
      /\ Written(c) \in [Definitions -> Row \cup {None, Deleted}]
      /\ \A d \in Definitions \ {r.id} : Written(c)[d] = definitions[d]
  BY <1>1, <1>2, <1>4 DEF Written, TypeOK
<1>6. CASE r.op = "update"
  <2>1. PICK config \in Configs : r.mine = Edited(r.base, config)
    BY <1>1, <1>6 DEF Faithful
  <2>2. /\ r.mine.is_draft /\ r.mine.review_status = "draft"
        /\ r.mine.submitted_by \in {None, r.base.submitted_by}
        /\ r.base.is_draft /\ Editable(r.base)
    BY <1>1, <1>2, <1>6, <2>1, EditedFacts DEF Faithful
  <2>3. r.mine.is_draft = r.base.is_draft
    BY <1>2, <2>2 DEF Row
  <2> HIDE DEF r, row, new
  <2>4. /\ new.is_draft = row.is_draft
        /\ new.review_status \in {row.review_status, "draft"}
        /\ new.submitted_by \in {row.submitted_by, None}
    BY <1>4, <2>2, <2>3
  <2> QED BY <1>1, <1>2, <1>3, <1>4, <1>5, <1>6, <2>4 DEF r, row, new
<1>7. CASE r.op = "review"
  <2>1. /\ r.mine.is_draft = r.base.is_draft
        /\ r.mine.review_status # r.base.review_status
        /\ IF r.mine.review_status = "pending_review"
             THEN r.mine.submitted_by = r.user
             ELSE r.mine.submitted_by = r.base.submitted_by
    BY <1>1, <1>7 DEF Faithful
  <2> HIDE DEF r, row, new
  <2>2. /\ new.is_draft = row.is_draft
        /\ new.review_status = r.mine.review_status
        /\ IF r.mine.review_status = "pending_review"
             THEN new.submitted_by \in {row.submitted_by, r.user}
             ELSE new.submitted_by = row.submitted_by
    BY <1>4, <2>1
  <2> QED BY <1>1, <1>2, <1>3, <1>4, <1>5, <1>7, <2>2 DEF r, row, new
<1>8. CASE r.op = "publish"
  <2>1. r.base.is_draft /\ r.mine = [r.base EXCEPT !.is_draft = FALSE]
    BY <1>1, <1>8 DEF Faithful
  <2>2. /\ ~r.mine.is_draft
        /\ r.mine.review_status = r.base.review_status
        /\ r.mine.submitted_by = r.base.submitted_by
    BY <1>2, <2>1 DEF Row
  <2> HIDE DEF r, row, new
  <2>3. /\ ~new.is_draft
        /\ new.review_status = row.review_status
        /\ new.submitted_by = row.submitted_by
    BY <1>4, <2>1, <2>2
  <2> QED BY <1>1, <1>2, <1>3, <1>4, <1>5, <1>8, <2>3 DEF r, row, new
<1> QED BY <1>6, <1>7, <1>8

\* A commit of a definition's columns takes nothing back.
LEMMA WrittenIsOnwards ==
    ASSUME IInv, NEW c \in Sessions, ~Idle(c),
           request[c].op \in {"update", "review", "publish"}, Live(request[c].id),
           definitions' = Written(c), rule_sets' = rule_sets,
           TemplateLives', template' # None,
           \A d \in Definitions, u \in Users : Submitted(d, u) => Submitted(d, u)'
    PROVE  /\ \A d \in Definitions : Live(d)' <=> Live(d)
           /\ \A d \in Definitions : ~definitions[d].is_draft /\ Live(d)
                                       => ~definitions'[d].is_draft
           /\ Rooted' /\ RulesLinkPublished' /\ Onwards
<1> DEFINE r == request[c]
           row == definitions[r.id]
           new == Flush(row, r.base, r.mine)
<1>1. /\ r.id \in Definitions /\ row \in Row /\ new \in Row
      /\ definitions'[r.id] = new
      /\ \A d \in Definitions \ {r.id} : definitions'[d] = definitions[d]
      /\ ~row.is_draft => ~new.is_draft
  BY WrittenFacts
<1> HIDE DEF r, row, new
<1>2. row # None /\ row # Deleted /\ new # None /\ new # Deleted
  BY <1>1, Markers
<1>3. \A d \in Definitions : Live(d)' <=> Live(d)
  BY <1>1, <1>2 DEF Live, row
<1>4. \A d \in Definitions : ~definitions[d].is_draft /\ Live(d)
                               => ~definitions'[d].is_draft
  BY <1>1 DEF row
<1>5. \A d \in Definitions : definitions[d] # None => definitions'[d] # None
  BY <1>1, <1>2 DEF row
<1>6. Rooted'
  BY DEF Rooted
<1>7. RulesLinkPublished'
  BY <1>3, <1>4 DEF IInv, RulesLinkPublished, TypeOK, RuleSet
<1>8. Onwards
  BY <1>3, <1>4, <1>5 DEF Onwards
<1> QED BY <1>3, <1>4, <1>6, <1>7, <1>8

\* An edit writes no status but "draft".
LEMMA CommitUpdatePreserves ==
    ASSUME IInv, NEW c \in Sessions, CommitUpdate(c)
    PROVE  IInv'
<1> DEFINE r == request[c]
           row == definitions[r.id]
           new == Flush(row, r.base, r.mine)
<1>1. /\ TypeOK /\ RequestsSound /\ Rooted
      /\ ~Idle(c) /\ r.op = "update" /\ Live(r.id) /\ definitions' = Written(c)
      /\ UNCHANGED <<template, questions, reviews, rule_sets>>
      /\ \A s \in Sessions : request'[s] \in {request[s], None}
  BY DEF IInv, CommitUpdate, Close, TypeOK
<1>2. /\ r.id \in Definitions /\ new \in Row /\ row \in Row
      /\ Written(c) \in [Definitions -> Row \cup {None, Deleted}]
      /\ definitions'[r.id] = new
      /\ \A d \in Definitions \ {r.id} : definitions'[d] = definitions[d]
      /\ new.is_draft = row.is_draft
      /\ new.review_status \in {row.review_status, "draft"}
      /\ new.submitted_by \in {row.submitted_by, None}
  BY <1>1, WrittenFacts
<1> HIDE DEF r, row, new
<1>3. TemplateLives' /\ template' # None
  BY <1>1, <1>2 DEF Rooted, TemplateLives
<1>4. \A d \in Definitions, u \in Users : Submitted(d, u) => Submitted(d, u)'
  BY <1>1 DEF Submitted
<1>5. /\ \A d \in Definitions : Live(d)' <=> Live(d)
      /\ \A d \in Definitions : ~definitions[d].is_draft /\ Live(d)
                                  => ~definitions'[d].is_draft
      /\ Rooted' /\ RulesLinkPublished' /\ Onwards
  BY <1>1, <1>3, <1>4, WrittenIsOnwards DEF r
<1>6. TypeOK'
  BY <1>1, <1>2 DEF TypeOK, CommitUpdate, Close
<1>7. ReviewStatusIsLogged' /\ SubmittersAreLogged'
  BY <1>1, <1>2, <1>5 DEF IInv, ReviewStatusIsLogged, SubmittersAreLogged, Submitted, row
<1>8. ActiveIsPublished'
  <2>1. TemplateLives
    BY <1>1, <1>3 DEF TemplateLives
  <2> QED BY <1>1, <1>5, <2>1, Typed DEF IInv, ActiveIsPublished, TemplateRow
<1> QED BY <1>1, <1>5, <1>6, <1>7, <1>8, RequestsStaySound DEF IInv

\* A submission or a verdict logs what it writes.
LEMMA CommitReviewPreserves ==
    ASSUME IInv, NEW c \in Sessions, CommitReview(c)
    PROVE  IInv'
<1> DEFINE r == request[c]
           row == definitions[r.id]
           new == Flush(row, r.base, r.mine)
           log == reviews[r.id]
           event == [action |-> r.mine.review_status, by |-> r.user]
<1>1. /\ TypeOK /\ RequestsSound /\ Rooted
      /\ ~Idle(c) /\ r.op = "review" /\ Live(r.id) /\ definitions' = Written(c)
      /\ reviews' = [reviews EXCEPT ![r.id] = Append(log, event)]
      /\ UNCHANGED <<template, questions, rule_sets>>
      /\ \A s \in Sessions : request'[s] \in {request[s], None}
  BY DEF IInv, CommitReview, Close, TypeOK
<1>2. /\ r.id \in Definitions /\ new \in Row /\ row \in Row /\ Faithful(r)
      /\ Written(c) \in [Definitions -> Row \cup {None, Deleted}]
      /\ definitions'[r.id] = new
      /\ \A d \in Definitions \ {r.id} : definitions'[d] = definitions[d]
      /\ new.review_status = r.mine.review_status
      /\ IF r.mine.review_status = "pending_review"
           THEN new.submitted_by \in {row.submitted_by, r.user}
           ELSE new.submitted_by = row.submitted_by
  BY <1>1, WrittenFacts
<1>3. log \in Seq(Event) /\ event \in Event
  BY <1>1, <1>2 DEF TypeOK, Event, Faithful
<1>4. /\ Append(log, event) \in Seq(Event)
      /\ Append(log, event) # <<>>
      /\ Len(log) \in Nat
      /\ Len(Append(log, event)) = Len(log) + 1
      /\ \A i \in 1..Len(log) : Append(log, event)[i] = log[i]
      /\ Append(log, event)[Len(log) + 1] = event
  BY <1>3, AppendFacts
<1>5. /\ reviews'[r.id] = Append(log, event)
      /\ \A d \in Definitions \ {r.id} : reviews'[d] = reviews[d]
  BY <1>1, <1>2 DEF TypeOK
<1> HIDE DEF r, row, new, log, event
<1>6. \A d \in Definitions, u \in Users : Submitted(d, u) => Submitted(d, u)'
  <2> SUFFICES ASSUME NEW d \in Definitions, NEW u \in Users, Submitted(d, u)
               PROVE  Submitted(d, u)'
    OBVIOUS
  <2>1. CASE d = r.id
    <3>1. PICK j \in 1..Len(log) : log[j].action = "pending_review" /\ log[j].by = u
      BY <2>1 DEF Submitted, log
    <3>2. j \in 1..Len(reviews'[d]) /\ reviews'[d][j] = log[j]
      BY <1>4, <1>5, <2>1, <3>1
    <3> QED BY <3>1, <3>2 DEF Submitted
  <2>2. CASE d # r.id
    BY <1>5, <2>2 DEF Submitted
  <2> QED BY <2>1, <2>2
<1>7. TemplateLives' /\ template' # None
  BY <1>1, <1>2 DEF Rooted, TemplateLives
<1>8. /\ \A d \in Definitions : Live(d)' <=> Live(d)
      /\ \A d \in Definitions : ~definitions[d].is_draft /\ Live(d)
                                  => ~definitions'[d].is_draft
      /\ Rooted' /\ RulesLinkPublished' /\ Onwards
  BY <1>1, <1>6, <1>7, WrittenIsOnwards DEF r
<1>9. TypeOK'
  BY <1>1, <1>2, <1>4 DEF TypeOK, CommitReview, Close
<1>10. ReviewStatusIsLogged'
  <2> SUFFICES ASSUME NEW d \in Definitions, Live(d)', definitions'[d].review_status # "draft"
               PROVE  /\ reviews'[d] # <<>>
                      /\ reviews'[d][Len(reviews'[d])].action = definitions'[d].review_status
    BY DEF ReviewStatusIsLogged
  <2>1. CASE d = r.id
    BY <1>2, <1>4, <1>5, <2>1 DEF event
  <2>2. CASE d # r.id
    BY <1>2, <1>5, <1>8, <2>2 DEF IInv, ReviewStatusIsLogged
  <2> QED BY <2>1, <2>2
<1>11. SubmittersAreLogged'
  <2> SUFFICES ASSUME NEW d \in Definitions, Live(d)', definitions'[d].submitted_by # None
               PROVE  Submitted(d, definitions[d].submitted_by)'
    BY DEF SubmittersAreLogged
  <2>1. definitions'[d].submitted_by \in Users
    BY <1>1, <1>2, <1>8, Typed DEF Row
  <2>2. CASE definitions'[d].submitted_by = definitions[d].submitted_by
    <3>1. Submitted(d, definitions[d].submitted_by)
      BY <1>8, <2>2 DEF IInv, SubmittersAreLogged
    <3> QED BY <1>6, <2>1, <2>2, <3>1 DEF Submitted
  <2>3. CASE definitions'[d].submitted_by # definitions[d].submitted_by
    <3>1. /\ d = r.id /\ definitions'[d].submitted_by = r.user
          /\ r.mine.review_status = "pending_review"
      BY <1>2, <2>3 DEF row
    <3>2. /\ Len(log) + 1 \in 1..Len(reviews'[d])
          /\ reviews'[d][Len(log) + 1].action = "pending_review"
          /\ reviews'[d][Len(log) + 1].by = r.user
      BY <1>4, <1>5, <3>1 DEF event
    <3> QED BY <3>1, <3>2 DEF Submitted
  <2> QED BY <2>2, <2>3
<1>12. ActiveIsPublished'
  <2>1. TemplateLives
    BY <1>1, <1>7 DEF TemplateLives
  <2> QED BY <1>1, <1>8, <2>1, Typed DEF IInv, ActiveIsPublished, TemplateRow
<1> QED BY <1>1, <1>8, <1>9, <1>10, <1>11, <1>12, RequestsStaySound DEF IInv

\* Publishing takes is_draft away, and makes nothing active that it has not published.
LEMMA CommitPublishPreserves ==
    ASSUME IInv, NEW c \in Sessions, CommitPublish(c)
    PROVE  IInv'
<1> DEFINE r == request[c]
           row == definitions[r.id]
           new == Flush(row, r.base, r.mine)
<1>1. /\ TypeOK /\ RequestsSound /\ Rooted
      /\ ~Idle(c) /\ r.op = "publish" /\ Live(r.id) /\ definitions' = Written(c)
      /\ template' = Flush(template, r.was, r.becomes)
      /\ UNCHANGED <<questions, reviews, rule_sets>>
  BY DEF IInv, CommitPublish
<1>2. /\ r \in Request /\ Faithful(r)
      /\ r.id \in Definitions /\ new \in Row /\ row \in Row
      /\ Written(c) \in [Definitions -> Row \cup {None, Deleted}]
      /\ definitions'[r.id] = new
      /\ \A d \in Definitions \ {r.id} : definitions'[d] = definitions[d]
      /\ ~new.is_draft
      /\ new.review_status = row.review_status
      /\ new.submitted_by = row.submitted_by
  BY <1>1, WrittenFacts
<1>3. /\ r.was \in TemplateRow /\ r.becomes \in TemplateRow
      /\ r.becomes # r.was => r.becomes.active_version_id = r.id
  BY <1>1, <1>2 DEF Faithful, TemplateRow
<1>4. TemplateLives /\ template \in TemplateRow
  BY <1>1, <1>2, Typed DEF Rooted
<1>5. /\ template' \in TemplateRow
      /\ template'.active_version_id =
           IF r.becomes # r.was THEN r.id ELSE template.active_version_id
  BY <1>1, <1>3, <1>4, FlushTemplate
<1>6. TemplateLives' /\ template' # None
  BY <1>5, Markers DEF TemplateLives
<1>7. \A d \in Definitions, u \in Users : Submitted(d, u) => Submitted(d, u)'
  BY <1>1 DEF Submitted
<1>8. /\ \A d \in Definitions : Live(d)' <=> Live(d)
      /\ \A d \in Definitions : ~definitions[d].is_draft /\ Live(d)
                                  => ~definitions'[d].is_draft
      /\ Rooted' /\ RulesLinkPublished' /\ Onwards
  BY <1>1, <1>6, <1>7, WrittenIsOnwards
<1>9. TypeOK' /\ RequestsSound'
  <2>1. CASE r.was.active_version_id = None
    <3>1. request' = [request EXCEPT ![c] = None]
      BY <2>1 DEF CommitPublish, Close
    <3>2. TypeOK'
      BY <1>1, <1>2, <1>5, <3>1 DEF TypeOK
    <3>3. \A s \in Sessions : request'[s] \in {request[s], None}
      BY <1>1, <3>1 DEF TypeOK
    <3> QED BY <1>1, <1>8, <3>2, <3>3, RequestsStaySound
  <2>2. CASE r.was.active_version_id # None
    <3> DEFINE next == [r EXCEPT !.op = "generate"]
    <3>1. request' = [request EXCEPT ![c] = next]
      BY <2>2 DEF CommitPublish
    <3>2. /\ next \in Request /\ next.op = "generate" /\ next.id = r.id
          /\ next.base = r.base /\ next.mine = r.mine
          /\ next.was = r.was /\ next.becomes = r.becomes
      BY <1>2 DEF Request, Operations
    <3>3. TypeOK'
      BY <1>1, <1>2, <1>5, <3>1, <3>2 DEF TypeOK
    <3>4. Faithful(next)
      BY <1>1, <1>2, <1>3, <2>2, <3>2 DEF Faithful, TemplateRow
    <3>5. request'[c] = next /\ \A s \in Sessions \ {c} : request'[s] = request[s]
      BY <1>1, <3>1 DEF TypeOK
    <3>11. r.was.active_version_id \in Definitions \cup {None}
      BY <1>3 DEF TemplateRow
    <3>12. WasActive(r.was.active_version_id)
      BY <1>1, <1>2, Markers DEF Current, RequestsSound
    <3>13. PICK d \in Definitions \cup {None} : d = r.was.active_version_id
      BY <3>11
    <3>14. WasActive(d)'
      BY <1>8, <3>12, <3>13, WasActiveStays
    <3> HIDE DEF r, row, new, next
    <3>6. Current(request[c])'
      <4>1. request'[c].was.active_version_id = d
        BY <3>2, <3>5, <3>13
      <4>2. WasActive(request[c].was.active_version_id)'
        BY <3>14, <4>1 DEF WasActive
      <4> QED BY <1>1, <1>2, <1>8, <3>2, <3>5, <4>2 DEF Current, Live
    <3>7. ASSUME NEW s \in Sessions \ {c}, ~Idle(s)'
          PROVE  Faithful(request[s])' /\ Current(request[s])'
      <4>1. /\ request'[s] = request[s] /\ ~Idle(s)
            /\ Faithful(request[s]) /\ Current(request[s]) /\ request[s] \in Request
        BY <1>1, <3>5, <3>7, Typed DEF RequestsSound, Idle
      <4>2. Faithful(request[s])'
        BY <4>1 DEF Faithful
      <4>3. Current(request[s])'
        <5>1. PICK q \in Request : q = request[s]
          BY <4>1
        <5>2. Current(q)'
          BY <1>1, <1>8, <4>1, <5>1, CurrentStays
        <5> QED BY <4>1, <5>1, <5>2 DEF Current
      <4> QED BY <4>2, <4>3
    <3>8. Faithful(request[c])'
      BY <3>4, <3>5 DEF Faithful
    <3>9. ASSUME NEW s \in Sessions, ~Idle(s)'
          PROVE  Faithful(request[s])' /\ Current(request[s])'
      BY <3>6, <3>7, <3>8, <3>9
    <3>10. RequestsSound'
      BY <3>9 DEF RequestsSound
    <3> QED BY <3>3, <3>10
  <2> QED BY <2>1, <2>2
<1> HIDE DEF r, row, new
<1>10. ReviewStatusIsLogged' /\ SubmittersAreLogged'
  <2>1. \A d \in Definitions :
          /\ definitions'[d].review_status = definitions[d].review_status
          /\ definitions'[d].submitted_by = definitions[d].submitted_by
    BY <1>2 DEF row
  <2>2. ReviewStatusIsLogged'
    BY <1>1, <1>8, <2>1 DEF IInv, ReviewStatusIsLogged
  <2>3. SubmittersAreLogged'
    BY <1>1, <1>8, <2>1 DEF IInv, SubmittersAreLogged, Submitted
  <2> QED BY <2>2, <2>3
<1>11. ActiveIsPublished'
  <2>1. PICK d \in Definitions : d = r.id
    BY <1>2
  <2>2. CASE r.becomes # r.was
    <3>1. template'.active_version_id = d /\ Live(d)' /\ ~definitions'[d].is_draft
      BY <1>1, <1>2, <1>5, <1>8, <2>1, <2>2
    <3> QED BY <3>1 DEF ActiveIsPublished
  <2>3. CASE r.becomes = r.was
    BY <1>4, <1>5, <1>8, <2>3 DEF IInv, ActiveIsPublished, TemplateRow
  <2> QED BY <2>2, <2>3
<1> QED BY <1>8, <1>9, <1>10, <1>11 DEF IInv

\* Generated rules lead from what was active to what was published, if both are there.
LEMMA GeneratePreserves ==
    ASSUME IInv, NEW c \in Sessions, Generate(c)
    PROVE  IInv'
<1> DEFINE r == request[c]
<1>1. /\ TypeOK /\ RequestsSound
      /\ ~Idle(c) /\ r.op = "generate" /\ Insertable(Generated(r))
      /\ rule_sets' = rule_sets \cup {Generated(r)}
      /\ UNCHANGED <<template, definitions, questions, reviews>>
      /\ \A s \in Sessions : request'[s] \in {request[s], None}
  BY DEF IInv, Generate, Close, TypeOK
<1>2. /\ r.id \in Definitions /\ r.was.active_version_id \in Definitions
      /\ ~definitions[r.id].is_draft
      /\ \/ r.was.active_version_id = First
         \/ ~definitions[r.was.active_version_id].is_draft
      /\ Live(r.id) /\ Live(r.was.active_version_id)
  BY <1>1, Markers DEF RequestsSound, Faithful, Current, WasActive, Insertable, Generated
<1>3. Generated(r) \in RuleSet
  BY <1>2 DEF Generated, RuleSet
<1>4. TypeOK'
  BY <1>1, <1>3 DEF TypeOK, Generate, Close
<1>5. /\ Rooted' /\ ReviewStatusIsLogged' /\ SubmittersAreLogged' /\ ActiveIsPublished'
      /\ Onwards
  BY <1>1 DEF IInv, Rooted, ReviewStatusIsLogged, SubmittersAreLogged, Submitted,
              ActiveIsPublished, Onwards, Live, TemplateLives
<1>6. RulesLinkPublished'
  BY <1>1, <1>2 DEF IInv, RulesLinkPublished, Generated, Live
<1> QED BY <1>1, <1>4, <1>5, <1>6, RequestsStaySound DEF IInv

\* Rules asked for, or deleted, change no definition, and lead between definitions that
\* are there.
LEMMA RulesAskedPreserves ==
    ASSUME IInv, RulesAsked
    PROVE  IInv'
<1>1. /\ TypeOK /\ RequestsSound
      /\ UNCHANGED <<template, definitions, questions, reviews, request>>
      /\ \A s \in Sessions : request'[s] \in {request[s], None}
  BY DEF IInv, RulesAsked, AskForRuleSet, DeleteRuleSet
<1>2. \A p \in rule_sets' : \/ p \in rule_sets
                           \/ /\ p \in RuleSet /\ p.by = "request"
                              /\ Live(p.source) /\ Live(p.target)
  <2>1. ASSUME NEW source \in Definitions, NEW target \in Definitions,
               AskForRuleSet(source, target)
        PROVE  \E p \in RuleSet : /\ p.by = "request" /\ Live(p.source) /\ Live(p.target)
                                 /\ rule_sets' = rule_sets \cup {p}
    <3> DEFINE p == [source |-> source, target |-> target, by |-> "request"]
    <3>1. p \in RuleSet /\ p.by = "request" /\ p.source = source /\ p.target = target
      BY DEF RuleSet
    <3>2. Insertable(p) /\ rule_sets' = rule_sets \cup {p}
      BY <2>1 DEF AskForRuleSet
    <3> HIDE DEF p
    <3> QED BY <3>1, <3>2 DEF Insertable
  <2>2. CASE \E p \in rule_sets : DeleteRuleSet(p)
    BY <2>2 DEF DeleteRuleSet
  <2> QED BY <2>1, <2>2 DEF RulesAsked
<1>3. TypeOK'
  BY <1>1, <1>2 DEF TypeOK
<1>4. /\ Rooted' /\ ReviewStatusIsLogged' /\ SubmittersAreLogged' /\ ActiveIsPublished'
      /\ Onwards
  BY <1>1 DEF IInv, Rooted, ReviewStatusIsLogged, SubmittersAreLogged, Submitted,
              ActiveIsPublished, Onwards, Live, TemplateLives
<1>5. RulesLinkPublished'
  BY <1>1, <1>2 DEF IInv, RulesLinkPublished, Live
<1> QED BY <1>1, <1>3, <1>4, <1>5, RequestsStaySound DEF IInv

\* Questions are none of the invariant's business.
LEMMA CommitQuestionsPreserves ==
    ASSUME IInv, NEW c \in Sessions, CommitQuestions(c)
    PROVE  IInv'
<1> DEFINE r == request[c]
<1>1. /\ TypeOK /\ RequestsSound /\ r \in Request
      /\ UNCHANGED <<template, definitions, reviews, rule_sets>>
      /\ \A s \in Sessions : request'[s] \in {request[s], None}
  BY Typed DEF IInv, CommitQuestions, Close, TypeOK
<1>2. TypeOK'
  <2>1. r.touched \in SUBSET Questions
    BY <1>1 DEF Request
  <2> QED BY <1>1, <2>1 DEF TypeOK, CommitQuestions, Close
<1>3. /\ Rooted' /\ ReviewStatusIsLogged' /\ SubmittersAreLogged'
      /\ ActiveIsPublished' /\ RulesLinkPublished' /\ Onwards
  BY <1>1 DEF IInv, Rooted, ReviewStatusIsLogged, SubmittersAreLogged, Submitted,
              ActiveIsPublished, RulesLinkPublished, Onwards, Live, TemplateLives
<1> QED BY <1>1, <1>2, <1>3, RequestsStaySound DEF IInv

\* What refers to a definition goes with it.
LEMMA CommitDeletePreserves ==
    ASSUME IInv, NEW c \in Sessions, CommitDelete(c)
    PROVE  IInv'
<1>0. PICK d \in Definitions : d = request[c].id
  BY DEF IInv, CommitDelete, RequestsSound, Faithful
<1>1. /\ TypeOK /\ RequestsSound /\ Rooted /\ definitions[d] # None
      /\ \A s \in Sessions : request'[s] \in {request[s], None}
  BY <1>0, Markers DEF IInv, CommitDelete, Close, TypeOK, RequestsSound, Current
<1>2. /\ definitions'[d] = Deleted /\ ~Live(d)'
      /\ \A e \in Definitions \ {d} : /\ definitions'[e] = definitions[e]
                                      /\ reviews'[e] = reviews[e]
                                      /\ Live(e)' <=> Live(e)
  BY <1>0, <1>1 DEF CommitDelete, TypeOK, Live
<1>3. template' \in TemplateRow \cup {None, Deleted}
  <2>1. CASE TemplateLives /\ template.active_version_id = d
    BY <1>0, <1>1, <2>1, Typed DEF CommitDelete, TemplateRow
  <2> QED BY <1>0, <1>1, <2>1 DEF CommitDelete, TypeOK
<1>4. TypeOK'
  BY <1>0, <1>1, <1>3 DEF TypeOK, CommitDelete, Close
<1>5. /\ TemplateLives' <=> TemplateLives
      /\ template' # None <=> template # None
      /\ TemplateLives /\ template'.active_version_id # None =>
           /\ template' = template
           /\ template.active_version_id # d
  <2>1. CASE TemplateLives /\ template.active_version_id = d
    <3>1. template' \in TemplateRow /\ template'.active_version_id = None
      BY <1>0, <1>1, <2>1, Typed DEF CommitDelete, TemplateRow
    <3> QED BY <2>1, <3>1, Markers DEF TemplateLives
  <2>2. CASE ~(TemplateLives /\ template.active_version_id = d)
    BY <1>0, <2>2 DEF CommitDelete, TemplateLives
  <2> QED BY <2>1, <2>2
<1>6. Rooted' /\ Onwards
  BY <1>1, <1>2, <1>5, Markers DEF Rooted, Onwards, Submitted
<1>7. ReviewStatusIsLogged' /\ SubmittersAreLogged'
  BY <1>1, <1>2 DEF IInv, ReviewStatusIsLogged, SubmittersAreLogged, Submitted
<1>8. ActiveIsPublished'
  BY <1>1, <1>2, <1>4, <1>5, Typed DEF IInv, ActiveIsPublished, TemplateRow
<1>9. RulesLinkPublished'
  <2>1. \A p \in rule_sets' : p \in rule_sets /\ p.source # d /\ p.target # d
    BY <1>0 DEF CommitDelete
  <2> QED BY <1>1, <1>2, <2>1 DEF IInv, RulesLinkPublished, TypeOK, RuleSet
<1> QED BY <1>1, <1>4, <1>6, <1>7, <1>8, <1>9, RequestsStaySound DEF IInv

\* A version that was published when it was read can be made active if it still exists.
LEMMA CommitActivatePreserves ==
    ASSUME IInv, NEW c \in Sessions, CommitActivate(c)
    PROVE  IInv'
<1> DEFINE r == request[c]
<1>1. /\ TypeOK /\ RequestsSound /\ ~Idle(c) /\ r \in Request /\ r.op = "activate"
      /\ TemplateLives
      /\ (r.id # None /\ r.becomes # r.was) => Live(r.id)
      /\ template' = Flush(template, r.was, r.becomes)
      /\ UNCHANGED <<definitions, questions, reviews, rule_sets>>
      /\ \A s \in Sessions : request'[s] \in {request[s], None}
  BY Typed DEF IInv, CommitActivate, Close, TypeOK
<1>2. /\ r.id \in Definitions \cup {None}
      /\ r.was \in TemplateRow /\ r.becomes = [active_version_id |-> r.id]
      /\ r.becomes \in TemplateRow
      /\ (r.id # None /\ Live(r.id)) => ~definitions[r.id].is_draft
  <2>1. Faithful(r) /\ Current(r)
    BY <1>1 DEF RequestsSound
  <2>2. r.id \in Definitions \cup {None}
    BY <1>1 DEF Request
  <2>3. r.was \in TemplateRow /\ r.becomes = [active_version_id |-> r.id]
    BY <1>1, <2>1 DEF Faithful
  <2>4. (r.id # None /\ Live(r.id)) => ~definitions[r.id].is_draft
    BY <1>1, <2>1 DEF Current
  <2> QED BY <2>2, <2>3, <2>4 DEF TemplateRow
<1>3. template \in TemplateRow
  BY <1>1, Typed
<1>4. /\ template' \in TemplateRow
      /\ template'.active_version_id =
           IF r.becomes # r.was THEN r.id ELSE template.active_version_id
  BY <1>1, <1>2, <1>3, FlushTemplate
<1>5. TemplateLives' /\ template' # None
  BY <1>4, Markers DEF TemplateLives
<1>6. TypeOK'
  BY <1>1, <1>4 DEF TypeOK, CommitActivate, Close
<1> HIDE DEF r
<1>7. /\ Rooted' /\ ReviewStatusIsLogged' /\ SubmittersAreLogged'
      /\ RulesLinkPublished' /\ Onwards
  BY <1>1, <1>5 DEF IInv, Rooted, ReviewStatusIsLogged, SubmittersAreLogged, Submitted,
              RulesLinkPublished, Onwards, Live
<1>8. ActiveIsPublished'
  BY <1>1, <1>2, <1>4 DEF IInv, ActiveIsPublished, Live
<1> QED BY <1>1, <1>6, <1>7, <1>8, RequestsStaySound DEF IInv

\* Every step keeps the invariant.
LEMMA NextPreserves ==
    ASSUME IInv, Next
    PROVE  IInv'
<1>1. ASSUME NEW config \in Configs, NEW own \in SUBSET (Questions \ Locked),
             CreateTemplate(config, own)
      PROVE  IInv'
  BY <1>1, CreateTemplatePreserves
<1>2. ASSUME NEW config \in Configs, NEW own \in SUBSET (Questions \ Locked),
             NEW d \in Definitions, CreateDefinition(d, config, own)
      PROVE  IInv'
  BY <1>2, CreateDefinitionPreserves
<1>3. CASE DeleteTemplate \/ RulesAsked
  BY <1>3, DeleteTemplatePreserves, RulesAskedPreserves
<1>4. ASSUME NEW c \in Sessions,
             \/ Begin(c)
             \/ CommitUpdate(c) \/ CommitReview(c) \/ CommitPublish(c) \/ Generate(c)
             \/ CommitQuestions(c) \/ CommitDelete(c) \/ CommitActivate(c) \/ GiveUp(c)
      PROVE  IInv'
  BY <1>4, BeginPreserves, CommitUpdatePreserves, CommitReviewPreserves,
     CommitPublishPreserves, GeneratePreserves, CommitQuestionsPreserves,
     CommitDeletePreserves, CommitActivatePreserves, GiveUpPreserves
<1> QED BY <1>1, <1>2, <1>3, <1>4, NextCases

-----------------------------------------------------------------------------
(* The theorems.                                                           *)

\* The inductive invariant holds in every reachable state.
THEOREM Invariance == Spec => []IInv
<1>1. Init => IInv
  BY InitEstablishes
<1>2. IInv /\ [Next]_vars => IInv'
  <2> SUFFICES ASSUME IInv, [Next]_vars PROVE IInv'
    OBVIOUS
  <2>1. CASE Next
    BY <2>1, NextPreserves
  <2>2. CASE UNCHANGED vars
    <3>1. UNCHANGED tables /\ UNCHANGED request
      BY <2>2 DEF vars, tables
    <3>2. TypeOK' /\ \A c \in Sessions : request'[c] \in {request[c], None}
      BY <3>1 DEF IInv, TypeOK, tables
    <3>3. TypeOK /\ RequestsSound
      BY DEF IInv
    <3> QED BY <3>1, <3>2, <3>3, TablesAlone, RequestsStaySound DEF IInv
  <2> QED BY <2>1, <2>2
<1> QED BY <1>1, <1>2, PTL DEF Spec

\* The state of the tables and of the requests is of its type.
THEOREM TypeCorrect == Spec => []TypeOK
<1>1. IInv => TypeOK
  BY DEF IInv
<1> QED BY <1>1, Invariance, PTL

\* Whatever overlaps, a review status that is not draft is the last entry of the
\* definition's history.
THEOREM StatusIsLogged == Spec => []ReviewStatusIsLogged
<1>1. IInv => ReviewStatusIsLogged
  BY DEF IInv
<1> QED BY <1>1, Invariance, PTL

\* However deletions, publications and activations overlap, the active version is
\* there and published, but for the one the template was created with.
THEOREM ActiveVersionIsPublished == Spec => []ActiveIsPublished
<1>1. IInv => ActiveIsPublished
  BY DEF IInv
<1> QED BY <1>1, Invariance, PTL

\* Rule sets have both their ends, and one that a publication generated leads from a
\* definition that is published, or the first, to one that is published, whatever the
\* requests that ask for rules of their own, delete rules, or overlap it do.
THEOREM RulesLinkThePublished == Spec => []RulesLinkPublished
<1>1. IInv => RulesLinkPublished
  BY DEF IInv
<1> QED BY <1>1, Invariance, PTL

-----------------------------------------------------------------------------
(* What a step does to a definition.                                       *)

\* A definition that is there changes, questions included, only with its template or
\* by the commit of a request about it.
LEMMA OneCommits ==
    ASSUME IInv, Next, NEW d \in Definitions, Live(d), template' # Deleted,
           definitions'[d] # definitions[d] \/ questions'[d] # questions[d]
    PROVE  \E c \in Committing(d) :
             LET r == request[c] IN
             /\ r \in Request /\ Faithful(r) /\ r.op # "activate"
             /\ \/ /\ r.op \in {"update", "review", "publish"}
                   /\ definitions'[d] = Flush(definitions[d], r.base, r.mine)
                \/ r.op = "delete" /\ definitions'[d] = Deleted
                \/ definitions'[d] = definitions[d]
<1>1. /\ TypeOK /\ Rooted /\ RequestsSound
      /\ definitions[d] # None /\ template # None
  BY DEF IInv, Rooted, Live
<1>2. ASSUME NEW c \in Sessions, ~Idle(c), request'[c] # request[c], request[c].id = d
      PROVE  c \in Committing(d) /\ request[c] \in Request /\ Faithful(request[c])
  BY <1>1, <1>2, Typed DEF Committing, RequestsSound
<1>3. \A c \in Sessions : ~Idle(c) /\ Close(c) => request'[c] # request[c]
  BY <1>1 DEF Close, TypeOK, Idle
<1>4. ASSUME NEW config \in Configs, NEW own \in SUBSET (Questions \ Locked),
             \/ CreateTemplate(config, own)
             \/ \E e \in Definitions : CreateDefinition(e, config, own)
      PROVE  FALSE
  BY <1>1, <1>4 DEF CreateTemplate, CreateDefinition, TypeOK
<1>5. ASSUME NEW c \in Sessions,
             \/ Begin(c) \/ Generate(c) \/ CommitActivate(c) \/ GiveUp(c)
      PROVE  FALSE
  <2>1. ~Begin(c)
    BY <1>1, BeginFacts DEF IInv, tables
  <2> QED BY <1>5, <2>1 DEF Generate, CommitActivate, GiveUp, tables
<1>6. ASSUME NEW c \in Sessions, \/ CommitUpdate(c) \/ CommitReview(c) \/ CommitPublish(c)
      PROVE  /\ ~Idle(c) /\ request'[c] # request[c] /\ request[c].id = d
             /\ request[c].op \in {"update", "review", "publish"}
             /\ definitions'[d] = Flush(definitions[d], request[c].base, request[c].mine)
  <2> DEFINE r == request[c]
  <2>1. /\ ~Idle(c) /\ r.op \in {"update", "review", "publish"} /\ Live(r.id)
        /\ definitions' = Written(c) /\ questions' = questions
    BY <1>6 DEF CommitUpdate, CommitReview, CommitPublish
  <2>2. /\ Written(c)[r.id] = Flush(definitions[r.id], r.base, r.mine)
        /\ \A e \in Definitions \ {r.id} : Written(c)[e] = definitions[e]
        /\ r \in Request
    BY <2>1, WrittenFacts
  <2>3. r.id = d
    BY <2>1, <2>2
  <2>4. request'[c] # r
    <3>1. CASE Close(c)
      BY <1>3, <2>1, <3>1
    <3>2. CASE request' = [request EXCEPT ![c].op = "generate"] /\ r.op = "publish"
      <4>1. request'[c] = [r EXCEPT !.op = "generate"]
        BY <1>1, <3>2 DEF TypeOK
      <4>2. request'[c].op = "generate"
        BY <2>2, <4>1 DEF Request
      <4> QED BY <3>2, <4>2
    <3> QED BY <1>6, <3>1, <3>2 DEF CommitUpdate, CommitReview, CommitPublish
  <2> QED BY <2>1, <2>2, <2>3, <2>4
<1>7. ASSUME NEW c \in Sessions, CommitQuestions(c)
      PROVE  /\ ~Idle(c) /\ request'[c] # request[c] /\ request[c].id = d
             /\ request[c].op # "activate"
             /\ definitions'[d] = definitions[d]
  BY <1>1, <1>3, <1>7 DEF CommitQuestions, TypeOK
<1>8. ASSUME NEW c \in Sessions, CommitDelete(c)
      PROVE  /\ ~Idle(c) /\ request'[c] # request[c] /\ request[c].id = d
             /\ request[c].op = "delete" /\ definitions'[d] = Deleted
  BY <1>1, <1>3, <1>8 DEF CommitDelete, TypeOK
<1>9. ~DeleteTemplate /\ ~RulesAsked
  BY DEF DeleteTemplate, RulesAsked, AskForRuleSet, DeleteRuleSet
<1>10. PICK c \in Sessions : \/ CommitUpdate(c) \/ CommitReview(c) \/ CommitPublish(c)
                             \/ CommitQuestions(c) \/ CommitDelete(c)
  BY <1>4, <1>5, <1>9, NextCases
<1> QED BY <1>2, <1>6, <1>7, <1>8, <1>10

\* What becomes a definition in a step is new, a draft.
LEMMA NewIsDraft ==
    ASSUME IInv, IInv', Next, NEW d \in Definitions, ~Live(d), Live(d)'
    PROVE  definitions'[d].review_status = "draft"
<1>1. TypeOK /\ Rooted /\ definitions'[d] # definitions[d]
  BY DEF IInv, Live
<1>2. ASSUME NEW c \in Sessions,
             \/ Begin(c)
             \/ CommitUpdate(c) \/ CommitReview(c) \/ CommitPublish(c) \/ Generate(c)
             \/ CommitQuestions(c) \/ CommitDelete(c) \/ CommitActivate(c) \/ GiveUp(c)
      PROVE  FALSE
  <2>1. ~Begin(c)
    BY <1>1, BeginFacts DEF IInv, tables
  <2>2. CASE CommitUpdate(c) \/ CommitReview(c) \/ CommitPublish(c)
    <3>1. /\ ~Idle(c) /\ request[c].op \in {"update", "review", "publish"}
          /\ Live(request[c].id) /\ definitions' = Written(c)
      BY <2>2 DEF CommitUpdate, CommitReview, CommitPublish
    <3>2. \A e \in Definitions \ {request[c].id} : definitions'[e] = definitions[e]
      BY <3>1, WrittenFacts
    <3> QED BY <1>1, <3>1, <3>2
  <2>3. CASE CommitDelete(c)
    BY <1>1, <2>3 DEF CommitDelete, TypeOK, Live
  <2> QED BY <1>1, <1>2, <2>1, <2>2, <2>3
          DEF Generate, CommitQuestions, CommitActivate, GiveUp, tables
<1>3. ~DeleteTemplate /\ ~RulesAsked
  BY <1>1, Markers DEF DeleteTemplate, Live, TypeOK, RulesAsked, AskForRuleSet, DeleteRuleSet
<1>4. PICK config \in Configs, own \in SUBSET (Questions \ Locked) :
        \/ CreateTemplate(config, own)
        \/ \E e \in Definitions : CreateDefinition(e, config, own)
  BY <1>2, <1>3, NextCases
<1>5. \E e \in Definitions : definitions' = [definitions EXCEPT ![e] = NewDefinition(config)]
  BY <1>1, <1>4, ConstantsOK DEF CreateTemplate, CreateDefinition
<1> QED BY <1>1, <1>5 DEF TypeOK, NewDefinition

-----------------------------------------------------------------------------
(* What no step does.                                                      *)

\* A step of requests that had read the present row leaves a published definition
\* and its questions as they are.
LEMMA PublishedStays ==
    ASSUME IInv, Next, NEW d \in Definitions
    PROVE  PublishedIsFrozen(d)
<1> SUFFICES ASSUME Live(d), ~definitions[d].is_draft, ~Raced(d), template' # Deleted,
                    definitions'[d] # definitions[d] \/ questions'[d] # questions[d]
             PROVE  FALSE
  BY DEF PublishedIsFrozen
<1>1. PICK c \in Committing(d) : Faithful(request[c]) /\ request[c].op # "activate"
  BY OneCommits
<1>2. request[c].base.is_draft
  BY <1>1 DEF Faithful
<1>3. request[c].base = definitions[d]
  BY <1>1 DEF Raced
<1> QED BY <1>2, <1>3

\* A step of requests that had read the present row changes no rules under review and
\* no approved rules without voiding the approval.
LEMMA ConfigStays ==
    ASSUME IInv, Next, NEW d \in Definitions
    PROVE  ConfigReviewed(d)
<1> DEFINE row == definitions[d]
<1> SUFFICES ASSUME Live(d), Live(d)', ~Raced(d),
                    definitions'[d].rules_config # row.rules_config
             PROVE  row.review_status # "pending_review"
                    /\ definitions'[d].review_status = "draft"
  BY DEF ConfigReviewed
<1>1. template' # Deleted
  <2>1. IInv'
    BY NextPreserves
  <2> QED BY <2>1 DEF IInv, Rooted, TemplateLives
<1>2. PICK c \in Committing(d) :
        LET r == request[c] IN
        /\ r \in Request /\ Faithful(r)
        /\ r.op \in {"update", "review", "publish"}
        /\ definitions'[d] = Flush(row, r.base, r.mine)
  BY <1>1, OneCommits DEF Live
<1> DEFINE r == request[c]
<1>3. r.base = row /\ r.base \in Row /\ r.mine \in Row
  BY <1>2 DEF Raced, Faithful
<1>4. definitions'[d] = r.mine
  BY <1>2, <1>3, FlushCurrent
<1>5. r.op = "update"
  BY <1>2, <1>3, <1>4 DEF Faithful, Row
<1>6. PICK config \in Configs : r.mine = Edited(r.base, config) /\ Editable(r.base)
  BY <1>2, <1>5 DEF Faithful
<1> QED BY <1>3, <1>4, <1>6, EditedFacts DEF Editable

\* A step of requests that had read the present row brings no definition under review
\* without its submitter.
LEMMA SubmitterStays ==
    ASSUME IInv, Next, NEW d \in Definitions
    PROVE  SubmitterIsKept(d)
<1> DEFINE row == definitions[d]
<1> SUFFICES ASSUME Live(d)', definitions'[d].review_status = "pending_review",
                    definitions'[d].submitted_by = None, ~Raced(d),
                    definitions'[d] # row
             PROVE  FALSE
  BY DEF SubmitterIsKept
<1>1. IInv' /\ template' # Deleted
  BY NextPreserves DEF IInv, Rooted, TemplateLives
<1>2. Live(d)
  BY <1>1, NewIsDraft
<1>3. PICK c \in Committing(d) :
        LET r == request[c] IN
        /\ r \in Request /\ Faithful(r)
        /\ r.op \in {"update", "review", "publish"}
        /\ definitions'[d] = Flush(row, r.base, r.mine)
  BY <1>1, <1>2, OneCommits DEF Live
<1> DEFINE r == request[c]
<1>4. r.base = row /\ r.base \in Row /\ r.mine \in Row
  BY <1>3 DEF Raced, Faithful
<1>5. definitions'[d] = r.mine
  BY <1>3, <1>4, FlushCurrent
<1>6. CASE r.op = "update"
  <2>1. PICK config \in Configs : r.mine = Edited(r.base, config) /\ Editable(r.base)
    BY <1>3, <1>6 DEF Faithful
  <2> QED BY <1>4, <1>5, <2>1, EditedFacts
<1>7. CASE r.op = "review"
  BY <1>3, <1>5, <1>7, Markers DEF Faithful
<1>8. CASE r.op = "publish"
  <2>1. r.mine.review_status = "approved"
    BY <1>3, <1>4, <1>8 DEF Faithful, Row
  <2> QED BY <1>5, <2>1
<1> QED BY <1>3, <1>6, <1>7, <1>8

\* An approval that is logged is by another than the submitter its request read, who is
\* in the history.
LEMMA ApproverDiffers ==
    ASSUME IInv, Next, NEW d \in Definitions
    PROVE  ApproverIsAnother(d)
<1> SUFFICES ASSUME NEW c \in Committing(d), request[c].op = "review",
                    request[c].mine.review_status = "approved",
                    reviews'[d] # reviews[d], request[c].base.submitted_by # None
             PROVE  \E j \in 1..Len(reviews[d]) :
                       /\ reviews[d][j].action = "pending_review"
                       /\ reviews[d][j].by # request[c].user
  BY DEF ApproverIsAnother
<1> DEFINE r == request[c]
<1>1. /\ TypeOK /\ c \in Sessions /\ ~Idle(c) /\ request'[c] # r /\ r.id = d
      /\ Faithful(r) /\ Current(r) /\ r \in Request
  BY Typed DEF IInv, Committing, RequestsSound
<1>2. r.id # None /\ d \in Definitions /\ r.base.submitted_by \in Users
  BY <1>1, Markers DEF Faithful, Row
<1>3. Live(d)
  <2>1. ~DeleteTemplate /\ ~RulesAsked
    BY <1>1 DEF DeleteTemplate, RulesAsked, AskForRuleSet, DeleteRuleSet
  <2>2. \A s \in Sessions : ~CommitDelete(s) \/ request[s].id # d
    BY <1>1 DEF CommitDelete, Close, TypeOK
  <2>3. \A s \in Sessions : CommitDelete(s) => reviews'[d] = reviews[d]
    BY <1>1, <2>2 DEF CommitDelete, TypeOK
  <2>4. PICK s \in Sessions : CommitReview(s)
    <3>1. \A s \in Sessions : ~Begin(s)
      BY BeginFacts DEF IInv, tables
    <3>2. \A s \in Sessions :
            /\ ~CommitUpdate(s) /\ ~CommitPublish(s) /\ ~Generate(s)
            /\ ~CommitQuestions(s) /\ ~CommitActivate(s) /\ ~GiveUp(s)
      BY DEF CommitUpdate, CommitPublish, Generate, CommitQuestions, CommitActivate,
             GiveUp, tables
    <3>3. \A config \in Configs, own \in SUBSET (Questions \ Locked) :
            /\ ~CreateTemplate(config, own)
            /\ \A e \in Definitions : ~CreateDefinition(e, config, own)
      BY DEF CreateTemplate, CreateDefinition
    <3> QED BY <2>1, <2>3, <3>1, <3>2, <3>3, NextCases
  <2>5. s = c
    BY <1>1, <2>4 DEF CommitReview, Close, TypeOK
  <2> QED BY <1>1, <2>4, <2>5 DEF CommitReview
<1>4. Submitted(d, r.base.submitted_by)
  BY <1>1, <1>2, <1>3 DEF Current
<1>5. r.user # r.base.submitted_by
  BY <1>1 DEF Faithful
<1> QED BY <1>4, <1>5 DEF Submitted

\* A published definition stays as it is, questions included, but for requests that had
\* read another state of it, and until its template is deleted.
THEOREM PublishedIsKept == Spec => PublishedFrozenUnlessRaced
<1>1. IInv /\ [Next]_vars => [\A d \in Definitions : PublishedIsFrozen(d)]_vars
  BY PublishedStays
<1> QED BY <1>1, Invariance, PTL DEF Spec, PublishedFrozenUnlessRaced

\* Rules stay as they are while a review is pending, and a change after it takes the
\* approval away, but for requests that had read another state of the definition.
THEOREM ConfigIsReviewed == Spec => ConfigReviewedUnlessRaced
<1>1. IInv /\ [Next]_vars => [\A d \in Definitions : ConfigReviewed(d)]_vars
  BY ConfigStays
<1> QED BY <1>1, Invariance, PTL DEF Spec, ConfigReviewedUnlessRaced

\* Whoever approves a definition that shows its submitter is not the only one who
\* submitted it, and only a submission that raced leaves it without one to show.
THEOREM FourEyesHold == Spec => FourEyesUnlessRaced
<1>1. IInv /\ [Next]_vars =>
        [\A d \in Definitions : SubmitterIsKept(d) /\ ApproverIsAnother(d)]_vars
  BY SubmitterStays, ApproverDiffers
<1> QED BY <1>1, Invariance, PTL DEF Spec, FourEyesUnlessRaced
=============================================================================
