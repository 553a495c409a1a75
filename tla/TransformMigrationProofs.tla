----------------------- MODULE TransformMigrationProofs -----------------------
(***************************************************************************)
(* What TransformMigration promises, for any versions, rules, submissions  *)
(* and requests.  A request acts on what it read: the inductive invariant  *)
(* says what it can have read (Sound), and that no draft has a verdict.    *)
(* The action properties follow step by step: a request that acts on what  *)
(* still is so keeps its promise.                                          *)
(***************************************************************************)
EXTENDS TransformMigration, TLAPS

\* A form has a verdict only once it was handed in.
NoVerdictYet(row) == row.status = "draft" => "valid" \notin row.validation_results

Edits(r) ==
    r.base.status = "draft" /\ \E form \in Forms : r.mine = [r.base EXCEPT !.form_data = form]
HandsIn(r) ==
    /\ r.base.status = "draft"
    /\ \/ FormFits(r.base) /\ r.mine = [r.base EXCEPT !.status = "submitted",
                                                      !.validation_results = {"valid"}]
       \/ r.mine = [r.base EXCEPT !.status = "submitted"]
Decides(r) == r.mine = [r.base EXCEPT !.validation_results = @ \cup {"decision"}]

\* What a handler that writes a submission has read and made of it.
WriteSound(r) ==
    /\ r.written \in Submissions
    /\ r.base \in SubmissionRow /\ NoVerdictYet(r.base)
    /\ Edits(r) \/ HandsIn(r) \/ Decides(r)

\* What a migration has read, and the answers it is about to commit.
ApplySound(r) ==
    /\ DOMAIN r = {"op", "set", "todo", "rows", "rules", "at", "wiped", "new"}
    /\ r.op = "apply" /\ r.set \in RuleSets
    /\ r.todo \subseteq Submissions /\ r.todo \subseteq DOMAIN r.rows
    /\ \A s \in DOMAIN r.rows : r.rows[s] \in SubmissionRow /\ r.rows[s].status = "draft"
    /\ r.at \in r.todo \cup {None}
    /\ r.at # None => \A q \in DOMAIN r.new : q[1] = r.set.target

\* What an administrator's request has read; a publication has tried the rules.
AdminSound(r) ==
    /\ r.op \in {"add", "status", "drop"} => r.set \in RuleSets
    /\ r.op \in {"update", "delete"} => r.row \in RuleIds
    /\ r.op \in {"add", "update"} => r.rule \in NewRules
    /\ r.op = "status" =>
           /\ r.mine \in {"published", "archived"}
           /\ r.mine = "published" =>
                  SandboxValid(r.read, QuestionsOf[r.set.source], QuestionsOf[r.set.target])

Sound(r) ==
    /\ AdminSound(r)
    /\ r.op = "apply" => ApplySound(r)
    /\ r.op = "write" => WriteSound(r)

\* What was handed in stays so.
StaysIn(c) ==
    ~Idle(c) /\ request[c].op = "write" /\ request[c].base.status = "submitted"
        => submissions[request[c].written].status = "submitted"

TablesSound ==
    /\ TypeOK /\ DOMAIN rules = RuleIds
    /\ \A s \in Submissions : NoVerdictYet(submissions[s])
RequestsSound == \A c \in Sessions : (~Idle(c) => Sound(request[c])) /\ StaysIn(c)

IInv == TablesSound /\ RequestsSound

-----------------------------------------------------------------------------
(* Rows and what commits do to them.                                       *)

\* A commit of a row writes the columns that were changed (Flush of UnitOfWork).
LEMMA FlushFacts ==
    ASSUME NEW row \in SubmissionRow, NEW base \in SubmissionRow, NEW mine \in SubmissionRow
    PROVE  /\ Flush(row, base, mine) \in SubmissionRow
           /\ Flush(row, base, mine).version =
                  IF mine.version # base.version THEN mine.version ELSE row.version
           /\ Flush(row, base, mine).status =
                  IF mine.status # base.status THEN mine.status ELSE row.status
           /\ Flush(row, base, mine).form_data =
                  IF mine.form_data # base.form_data THEN mine.form_data ELSE row.form_data
           /\ Flush(row, base, mine).validation_results =
                  IF mine.validation_results # base.validation_results
                  THEN mine.validation_results ELSE row.validation_results
<1>1. DOMAIN row = {"version", "status", "form_data", "validation_results"}
  BY DEF SubmissionRow
<1>2. Flush(row, base, mine) =
          [version |-> IF mine.version # base.version THEN mine.version ELSE row.version,
           status |-> IF mine.status # base.status THEN mine.status ELSE row.status,
           form_data |-> IF mine.form_data # base.form_data THEN mine.form_data ELSE row.form_data,
           validation_results |-> IF mine.validation_results # base.validation_results
                                  THEN mine.validation_results ELSE row.validation_results]
  BY <1>1 DEF Flush, SubmissionRow
<1> QED BY <1>2 DEF SubmissionRow

\* What a handler makes of a row is a row (update_submission, submit_submission, _finalize_run).
LEMMA MineIsRow ==
    ASSUME NEW r, WriteSound(r)
    PROVE  /\ r.mine \in SubmissionRow
           /\ r.mine.version = r.base.version
           /\ r.mine.status \in {r.base.status, "submitted"}
<1>1. CASE Edits(r)
  BY <1>1 DEF Edits, WriteSound, SubmissionRow
<1>2. CASE HandsIn(r)
  BY <1>2 DEF HandsIn, WriteSound, SubmissionRow
<1>3. CASE Decides(r)
  BY <1>3 DEF Decides, WriteSound, SubmissionRow
<1> QED BY <1>1, <1>2, <1>3 DEF WriteSound

\* What a commit of such a handler leaves of a row.
LEMMA WriteFacts ==
    ASSUME NEW r, WriteSound(r), NEW row \in SubmissionRow, NoVerdictYet(row),
           r.base.status = "submitted" => row.status = "submitted"
    PROVE  LET after == Flush(row, r.base, r.mine)
           IN  /\ after \in SubmissionRow
               /\ after.version = row.version
               /\ row.status = "submitted" => after.status = "submitted"
               /\ NoVerdictYet(after)
<1> DEFINE after == Flush(row, r.base, r.mine)
<1>1. /\ r.base \in SubmissionRow /\ r.mine \in SubmissionRow
      /\ r.mine.version = r.base.version /\ r.mine.status \in {r.base.status, "submitted"}
  BY MineIsRow DEF WriteSound
<1>2. after \in SubmissionRow /\ after.version = row.version
  BY <1>1, FlushFacts
<1>3. row.status = "submitted" => after.status = "submitted"
  BY <1>1, FlushFacts
<1>4. NoVerdictYet(after)
  <2>1. SUFFICES ASSUME after.status = "draft", "valid" \in after.validation_results
                 PROVE  FALSE
    BY DEF NoVerdictYet
  <2>2. row.status = "draft" /\ "valid" \notin row.validation_results
    BY <2>1, <1>2, <1>3 DEF SubmissionRow, NoVerdictYet
  <2>3. r.base.status = "draft" /\ "valid" \notin r.base.validation_results
    BY <2>2, <1>1 DEF WriteSound, NoVerdictYet, SubmissionRow
  <2>4. r.mine.status = "draft"
    BY <2>1, <2>2, <2>3, <1>1, FlushFacts
  <2>5. "valid" \notin r.mine.validation_results
    <3>1. CASE Edits(r)
      BY <3>1, <2>3, <1>1 DEF Edits, SubmissionRow
    <3>2. CASE HandsIn(r)
      BY <3>2, <2>4, <1>1 DEF HandsIn, SubmissionRow
    <3>3. CASE Decides(r)
      BY <3>3, <2>3, <1>1 DEF Decides, SubmissionRow
    <3> QED BY <3>1, <3>2, <3>3 DEF WriteSound
  <2> QED BY <2>1, <2>2, <2>5, <1>1, FlushFacts
<1> QED BY <1>2, <1>3, <1>4

\* A migration changes the version and nothing else (apply_rule_set).
LEMMA MoveFacts ==
    ASSUME NEW row \in SubmissionRow, NEW base \in SubmissionRow, NEW set \in RuleSets
    PROVE  LET after == Flush(row, base, Moved(base, set))
           IN  /\ after \in SubmissionRow
               /\ after.status = row.status /\ after.form_data = row.form_data
               /\ after.validation_results = row.validation_results
               /\ after.version = set.target \/ (after.version = row.version
                                                 /\ base.version = set.target)
<1>1. set.target \in Versions
  BY ConstantsOK DEF ConstantsOK
<1>2. Moved(base, set) \in SubmissionRow
  BY <1>1 DEF Moved, SubmissionRow
<1>3. /\ Moved(base, set).version = set.target /\ Moved(base, set).status = base.status
      /\ Moved(base, set).form_data = base.form_data
      /\ Moved(base, set).validation_results = base.validation_results
  BY DEF Moved, SubmissionRow
<1> QED BY <1>2, <1>3, FlushFacts

-----------------------------------------------------------------------------
(* The beginnings of requests, which change no table.                      *)

\* At first the requests are idle and every submission is a draft without a verdict.
LEMMA InitSound == Init => IInv
<1> SUFFICES ASSUME Init PROVE IInv
  OBVIOUS
<1> USE DEF Init
<1>1. rule_sets \in [RuleSets -> Statuses \cup {None, Deleted}]
  BY DEF Statuses
<1>2. \A id \in RuleIds : rules[id] \in RuleRow \cup {None, Deleted}
  BY ConstantsOK DEF ConstantsOK
<1>3. (CHOOSE form \in Forms : TRUE) \in Forms
  BY ConstantsOK DEF ConstantsOK
<1>4. submissions \in [Submissions -> SubmissionRow]
      /\ \A s \in Submissions : submissions[s].validation_results = {}
  BY <1>3, ConstantsOK DEF SubmissionRow, ConstantsOK
<1>5. TablesSound
  BY <1>1, <1>2, <1>4 DEF TablesSound, TypeOK, NoVerdictYet
<1>6. RequestsSound
  BY DEF RequestsSound, Idle, StaysIn
<1> QED BY <1>5, <1>6 DEF IInv

\* Tables that are as they were leave everything else as it was.
LEMMA TablesStay ==
    ASSUME TablesSound, UNCHANGED tables, DOMAIN request' = Sessions
    PROVE  TablesSound'
BY DEF TablesSound, TypeOK, tables, NoVerdictYet

\* A request in flight keeps what it has read as long as what was handed in stays so.
LEMMA RequestStays ==
    ASSUME RequestsSound, NEW c \in Sessions, request'[c] = request[c],
           ~Idle(c) /\ request[c].op = "write" /\ submissions[request[c].written].status = "submitted"
               => submissions'[request[c].written].status = "submitted"
    PROVE  (~Idle(c)' => Sound(request[c])') /\ StaysIn(c)'
<1>1. Idle(c)' <=> Idle(c)
  BY DEF Idle
<1>2. Sound(request[c])' <=> Sound(request[c])
  <2>1. PICK r : r = request[c]
    OBVIOUS
  <2> QED BY <2>1
<1> QED BY <1>1, <1>2 DEF RequestsSound, StaysIn

\* A request that opens with what it may have read.
LEMMA OpenSound ==
    ASSUME IInv, NEW c \in Sessions, NEW r, Open(c, r), Sound(r),
           r.op = "write" /\ r.base.status = "submitted" => submissions[r.written].status = "submitted"
    PROVE  IInv'
<1> USE DEF Open
<1>1. DOMAIN request = Sessions /\ DOMAIN request' = Sessions /\ request'[c] = r
  BY DEF IInv, TablesSound, TypeOK
<1>2. TablesSound'
  BY <1>1, TablesStay DEF IInv
<1>3. submissions' = submissions
  BY DEF tables
<1>4. ASSUME NEW d \in Sessions
      PROVE  (~Idle(d)' => Sound(request[d])') /\ StaysIn(d)'
  <2>1. CASE d = c
    <3>1. Sound(request[d])'
      BY <2>1, <1>1
    <3> QED BY <3>1, <2>1, <1>1, <1>3 DEF StaysIn
  <2>2. CASE d # c
    <3>1. request'[d] = request[d]
      BY <2>2, <1>1
    <3> QED BY <3>1, <1>3, RequestStays DEF IInv
  <2> QED BY <2>1, <2>2
<1> QED BY <1>2, <1>4 DEF IInv, RequestsSound

\* The requests of administrators (add_rule, update_rule, delete_rule, publish_rule_set,
\* archive_rule_set, delete_rule_set, apply_rule_set, bulk_migrate).
LEMMA AdministerSound ==
    ASSUME IInv, NEW c \in Sessions, Administer(c)
    PROVE  IInv'
<1> USE DEF Sound
<1>1. ASSUME NEW set \in RuleSets, NEW new \in NewRules, AddRuleBegin(c, set, new)
      PROVE  IInv'
  BY <1>1, OpenSound DEF AddRuleBegin, AdminSound
<1>2. ASSUME NEW set \in RuleSets, SetStatusBegin(c, set)
      PROVE  IInv'
  <2>1. PICK status \in {"published", "archived"} :
            /\ status = "published" => Publishable(set)
            /\ Open(c, [op |-> "status", set |-> set, mine |-> status, read |-> RulesOf(set)])
    BY <1>2 DEF SetStatusBegin
  <2> DEFINE r == [op |-> "status", set |-> set, mine |-> status, read |-> RulesOf(set)]
  <2>2. AdminSound(r)
    BY <2>1 DEF AdminSound, Publishable
  <2> QED BY <2>1, <2>2, OpenSound
<1>3. ASSUME NEW set \in RuleSets, DeleteSetBegin(c, set)
      PROVE  IInv'
  BY <1>3, OpenSound DEF DeleteSetBegin, AdminSound
<1>4. ASSUME NEW set \in RuleSets, NEW todo \in SUBSET Submissions, NEW loaded,
             \A s \in todo : submissions[s].status = "draft",
             Open(c, Applying(set, todo, loaded))
      PROVE  IInv'
  <2> DEFINE r == Applying(set, todo, loaded)
  <2>1. \A s \in todo : submissions[s] \in SubmissionRow
    BY DEF IInv, TablesSound, TypeOK
  <2>2. ApplySound(r)
    BY <1>4, <2>1 DEF ApplySound, Applying
  <2>3. AdminSound(r) /\ r.op = "apply"
    BY DEF AdminSound, Applying
  <2> HIDE DEF r
  <2> QED BY <1>4, <2>2, <2>3, OpenSound DEF r
<1>5. ASSUME NEW set \in RuleSets, NEW s \in Submissions, ApplyBegin(c, set, s)
      PROVE  IInv'
  BY <1>5, <1>4 DEF ApplyBegin
<1>6. ASSUME NEW set \in RuleSets, BulkBegin(c, set)
      PROVE  IInv'
  <2>1. Eligible(set) \in SUBSET Submissions /\ \A s \in Eligible(set) : submissions[s].status = "draft"
    BY DEF Eligible
  <2> QED BY <1>6, <2>1, <1>4 DEF BulkBegin
<1>7. ASSUME NEW id \in RuleIds, NEW new \in NewRules, UpdateRuleBegin(c, id, new)
      PROVE  IInv'
  BY <1>7, OpenSound DEF UpdateRuleBegin, AdminSound
<1>8. ASSUME NEW id \in RuleIds, DeleteRuleBegin(c, id)
      PROVE  IInv'
  BY <1>8, OpenSound DEF DeleteRuleBegin, AdminSound
<1> QED BY <1>1, <1>2, <1>3, <1>5, <1>6, <1>7, <1>8 DEF Administer

\* The requests of those who write submissions.
LEMMA WorkSound ==
    ASSUME IInv, NEW c \in Sessions, Work(c)
    PROVE  IInv'
<1>1. ASSUME NEW s \in Submissions, NEW mine, Writing(c, s, mine),
             LET r == [op |-> "write", written |-> s, base |-> submissions[s], mine |-> mine]
             IN  Edits(r) \/ HandsIn(r) \/ Decides(r)
      PROVE  IInv'
  <2> DEFINE r == [op |-> "write", written |-> s, base |-> submissions[s], mine |-> mine]
  <2>1. submissions[s] \in SubmissionRow /\ NoVerdictYet(submissions[s])
    BY DEF IInv, TablesSound, TypeOK
  <2>2. r.written = s /\ r.base = submissions[s] /\ r.op = "write"
    OBVIOUS
  <2>3. Edits(r) \/ HandsIn(r) \/ Decides(r)
    BY <1>1
  <2>4. Open(c, r)
    BY <1>1 DEF Writing
  <2> HIDE DEF r
  <2>5. WriteSound(r)
    BY <2>1, <2>2, <2>3 DEF WriteSound
  <2>6. Sound(r)
    BY <2>2, <2>5 DEF Sound, AdminSound
  <2> QED BY <2>2, <2>4, <2>6, OpenSound
<1>2. ASSUME NEW s \in Submissions, NEW form \in Forms, EditBegin(c, s, form)
      PROVE  IInv'
  BY <1>2, <1>1 DEF EditBegin, Edits
<1>3. ASSUME NEW s \in Submissions, SubmitBegin(c, s)
      PROVE  IInv'
  <2>1. CASE /\ submissions[s].status = "draft" /\ FormFits(submissions[s])
             /\ Writing(c, s, [submissions[s] EXCEPT !.status = "submitted",
                                                     !.validation_results = {"valid"}])
    BY <2>1, <1>1 DEF HandsIn
  <2>2. CASE /\ submissions[s].status = "draft"
             /\ Writing(c, s, [submissions[s] EXCEPT !.status = "submitted"])
    BY <2>2, <1>1 DEF HandsIn
  <2> QED BY <1>3, <2>1, <2>2 DEF SubmitBegin
<1>4. ASSUME NEW s \in Submissions, FinalizeBegin(c, s)
      PROVE  IInv'
  BY <1>4, <1>1 DEF FinalizeBegin, Decides
<1> QED BY <1>2, <1>3, <1>4 DEF Work

-----------------------------------------------------------------------------
(* The steps that change tables, or go on with a request.                  *)

\* New rules take the place of nothing (create_rule_set, add_rule, generate_rule_set).
LEMMA InsertedFacts ==
    ASSUME TablesSound, NEW set \in RuleSets, NEW new,
           \A i \in DOMAIN new : [set |-> set, rule |-> new[i]] \in RuleRow
    PROVE  /\ DOMAIN Inserted(set, new) = RuleIds
           /\ \A id \in RuleIds : /\ Inserted(set, new)[id] \in RuleRow \cup {None, Deleted}
                                  /\ \/ Inserted(set, new)[id] = rules[id]
                                     \/ rules[id] = None /\ Inserted(set, new)[id].set = set
<1> DEFINE place(id) == Cardinality({other \in RuleIds : rules[other] = None /\ other <= id})
           after == [id \in RuleIds |-> IF rules[id] = None /\ place(id) \in DOMAIN new
                                        THEN [set |-> set, rule |-> new[place(id)]] ELSE rules[id]]
<1>1. Inserted(set, new) = after
  BY DEF Inserted
<1>2. DOMAIN after = RuleIds
  OBVIOUS
<1>3. ASSUME NEW id \in RuleIds
      PROVE  /\ after[id] \in RuleRow \cup {None, Deleted}
             /\ \/ after[id] = rules[id]
                \/ rules[id] = None /\ after[id].set = set
  <2>1. CASE rules[id] = None /\ place(id) \in DOMAIN new
    <3>1. after[id] = [set |-> set, rule |-> new[place(id)]]
      BY <2>1
    <3> HIDE DEF place, after
    <3>2. [set |-> set, rule |-> new[place(id)]] \in RuleRow
      BY <2>1
    <3> QED BY <2>1, <3>1, <3>2
  <2>2. CASE ~(rules[id] = None /\ place(id) \in DOMAIN new)
    <3>1. after[id] = rules[id]
      BY <2>2
    <3> HIDE DEF place, after
    <3>2. rules[id] \in RuleRow \cup {None, Deleted}
      BY DEF TablesSound, TypeOK
    <3> QED BY <3>1, <3>2
  <2> QED BY <2>1, <2>2
<1> QED BY <1>1, <1>2, <1>3

\* A request ends, and submissions that were handed in stay so.
LEMMA CloseSound ==
    ASSUME IInv, NEW c \in Sessions, Close(c), TablesSound',
           \A s \in Submissions : submissions[s].status = "submitted" => submissions'[s].status = "submitted"
    PROVE  IInv'
<1>1. DOMAIN request = Sessions /\ request' = [request EXCEPT ![c] = None]
  BY DEF IInv, TablesSound, TypeOK, Close
<1>2. ASSUME NEW d \in Sessions
      PROVE  (~Idle(d)' => Sound(request[d])') /\ StaysIn(d)'
  <2>1. CASE d = c
    BY <2>1, <1>1 DEF Idle, StaysIn
  <2>2. CASE d # c
    <3>1. request'[d] = request[d]
      BY <2>2, <1>1
    <3>2. ~Idle(d) /\ request[d].op = "write" => request[d].written \in Submissions
      BY DEF IInv, RequestsSound, Sound, WriteSound
    <3> QED BY <3>1, <3>2, RequestStays DEF IInv
  <2> QED BY <2>1, <2>2
<1> QED BY <1>2 DEF IInv, RequestsSound

\* Rules that change, to rules, with the statuses of their sets, and nothing else.
LEMMA RulesChange ==
    ASSUME TablesSound, DOMAIN rules' = RuleIds, DOMAIN request' = Sessions,
           \A id \in RuleIds : rules'[id] \in RuleRow \cup {None, Deleted},
           rule_sets' \in [RuleSets -> Statuses \cup {None, Deleted}],
           UNCHANGED <<submissions, answers>>
    PROVE  TablesSound'
BY DEF TablesSound, TypeOK, NoVerdictYet

\* A rule is inserted, rewritten or deleted.
LEMMA CommitRuleSound ==
    ASSUME IInv, NEW c \in Sessions, CommitRule(c)
    PROVE  IInv'
<1> DEFINE r == request[c]
<1> USE DEF CommitRule
<1>1. /\ TablesSound /\ Sound(r) /\ Close(c)
      /\ UNCHANGED <<rule_sets, submissions, answers>> /\ DOMAIN request' = Sessions
  BY DEF IInv, RequestsSound, TablesSound, TypeOK, Close
<1>2. DOMAIN rules' = RuleIds /\ \A id \in RuleIds : rules'[id] \in RuleRow \cup {None, Deleted}
  <2>1. CASE r.op = "add" /\ rules' = Inserted(r.set, <<r.rule>>)
    <3>1. r.set \in RuleSets /\ r.rule \in NewRules
      BY <1>1, <2>1 DEF Sound, AdminSound
    <3>2. \A i \in DOMAIN <<r.rule>> : [set |-> r.set, rule |-> <<r.rule>>[i]] \in RuleRow
      BY <3>1 DEF RuleRow
    <3> HIDE DEF r
    <3> QED BY <1>1, <2>1, <3>1, <3>2, InsertedFacts
  <2>2. CASE r.op = "update" /\ Live(r.row) /\ rules' = [rules EXCEPT ![r.row].rule = r.rule]
    <3>1. r.row \in RuleIds /\ r.rule \in NewRules
      BY <1>1, <2>2 DEF Sound, AdminSound
    <3>2. rules[r.row] \in RuleRow
      BY <1>1, <2>2, <3>1 DEF TablesSound, TypeOK, Live
    <3>3. [rules[r.row] EXCEPT !.rule = r.rule] \in RuleRow
      BY <3>1, <3>2 DEF RuleRow
    <3> HIDE DEF r
    <3> QED BY <1>1, <2>2, <3>1, <3>3 DEF TablesSound, TypeOK
  <2>3. CASE r.op = "delete" /\ rules' = [rules EXCEPT ![r.row] = Deleted]
    BY <1>1, <2>3 DEF TablesSound, TypeOK
  <2>4. CASE rules' = rules
    BY <1>1, <2>4 DEF TablesSound, TypeOK
  <2> QED BY <2>1, <2>2, <2>3, <2>4
<1>3. TablesSound'
  <2>1. rule_sets' \in [RuleSets -> Statuses \cup {None, Deleted}]
    BY <1>1 DEF TablesSound, TypeOK
  <2> QED BY <1>1, <1>2, <2>1, RulesChange
<1> QED BY <1>1, <1>3, CloseSound

\* A rule set is published, archived or deleted, with its rules if deleted.
LEMMA CommitSetSound ==
    ASSUME IInv, NEW c \in Sessions, CommitSet(c)
    PROVE  IInv'
<1> DEFINE r == request[c]
<1> USE DEF CommitSet
<1>1. /\ TablesSound /\ Sound(r) /\ Close(c)
      /\ UNCHANGED <<submissions, answers>> /\ DOMAIN request' = Sessions
  BY DEF IInv, RequestsSound, TablesSound, TypeOK, Close
<1>2. /\ DOMAIN rules' = RuleIds /\ \A id \in RuleIds : rules'[id] \in RuleRow \cup {None, Deleted}
      /\ rule_sets' \in [RuleSets -> Statuses \cup {None, Deleted}]
  <2>1. CASE r.op = "status"
    <3>1. r.mine \in Statuses
      BY <1>1, <2>1 DEF Sound, AdminSound, Statuses
    <3> QED BY <1>1, <2>1, <3>1 DEF TablesSound, TypeOK
  <2>2. CASE r.op = "drop"
    BY <1>1, <2>2 DEF TablesSound, TypeOK
  <2> QED BY <2>1, <2>2
<1>3. TablesSound'
  BY <1>1, <1>2, RulesChange
<1> QED BY <1>1, <1>3, CloseSound

\* A rule set and its first rules come at once, whoever thought of them.
LEMMA CreateSound ==
    ASSUME IInv, NEW set \in RuleSets, NEW new,
           \A i \in DOMAIN new : [set |-> set, rule |-> new[i]] \in RuleRow,
           rule_sets' = [rule_sets EXCEPT ![set] = "draft"], rules' = Inserted(set, new),
           UNCHANGED <<submissions, answers, request>>
    PROVE  IInv'
<1>1. TablesSound /\ DOMAIN request' = Sessions
  BY DEF IInv, TablesSound, TypeOK
<1>2. rule_sets' \in [RuleSets -> Statuses \cup {None, Deleted}]
  BY <1>1 DEF TablesSound, TypeOK, Statuses
<1>3. DOMAIN rules' = RuleIds /\ \A id \in RuleIds : rules'[id] \in RuleRow \cup {None, Deleted}
  BY <1>1, InsertedFacts
<1>4. TablesSound'
  BY <1>1, <1>2, <1>3, RulesChange
<1>5. RequestsSound'
  BY RequestStays DEF IInv, RequestsSound
<1> QED BY <1>4, <1>5 DEF IInv

\* The rules a set is created with, asked for or suggested, are rules (create_rule_set,
\* generate_rule_set).
LEMMA NewRulesAreRows ==
    ASSUME NEW set \in RuleSets
    PROVE  /\ \A new \in {<<>>} \cup {<<rule>> : rule \in NewRules} :
                  \A i \in DOMAIN new : [set |-> set, rule |-> new[i]] \in RuleRow
           /\ LET new == GeneratedRules(QuestionsOf[set.source], QuestionsOf[set.target])
              IN  new # None =>
                      \A i \in DOMAIN new : [set |-> set, rule |-> new[i]] \in RuleRow
<1>1. ASSUME NEW new \in {<<>>} \cup {<<rule>> : rule \in NewRules}, NEW i \in DOMAIN new
      PROVE  [set |-> set, rule |-> new[i]] \in RuleRow
  BY DEF RuleRow
<1> DEFINE new == GeneratedRules(QuestionsOf[set.source], QuestionsOf[set.target])
<1>2. ASSUME new # None, NEW i \in DOMAIN new
      PROVE  [set |-> set, rule |-> new[i]] \in RuleRow
  <2>1. set.source \in Versions /\ set.target \in Versions
    BY ConstantsOK DEF ConstantsOK
  <2>2. new[i] \in Range(new)
    BY DEF Range
  <2>3. new \in Suggested
    BY <1>2, <2>1 DEF Suggested
  <2> HIDE DEF new
  <2> QED BY <2>2, <2>3 DEF RuleRow
<1> QED BY <1>1, <1>2

\* A rule set is created by hand or generated, with its rules.
LEMMA RuleSetSound ==
    ASSUME IInv, NEW set \in RuleSets,
           \/ \E new \in {<<>>} \cup {<<rule>> : rule \in NewRules} : CreateRuleSet(set, new)
           \/ GenerateRuleSet(set)
    PROVE  IInv'
<1>1. ASSUME NEW new \in {<<>>} \cup {<<rule>> : rule \in NewRules}, CreateRuleSet(set, new)
      PROVE  IInv'
  BY <1>1, NewRulesAreRows, CreateSound DEF CreateRuleSet
<1>2. CASE GenerateRuleSet(set)
  BY <1>2, NewRulesAreRows, CreateSound DEF GenerateRuleSet
<1> QED BY <1>1, <1>2

\* A migration goes on with a record of the same kind, or ends.
LEMMA GoesOnSound ==
    ASSUME IInv, NEW c \in Sessions, NEW r, ApplySound(r), r.op = "apply",
           request' = [request EXCEPT ![c] = r], TablesSound',
           \A s \in Submissions : submissions[s].status = "submitted" => submissions'[s].status = "submitted"
    PROVE  IInv'
<1>1. DOMAIN request = Sessions
  BY DEF IInv, TablesSound, TypeOK
<1>2. Sound(r)
  BY DEF Sound, AdminSound
<1>3. ASSUME NEW d \in Sessions
      PROVE  (~Idle(d)' => Sound(request[d])') /\ StaysIn(d)'
  <2>1. CASE d = c
    <3>1. request'[d] = r
      BY <2>1, <1>1
    <3>2. Sound(request[d])'
      BY <3>1, <1>2
    <3> QED BY <3>1, <3>2 DEF StaysIn
  <2>2. CASE d # c
    <3>1. request'[d] = request[d]
      BY <2>2, <1>1
    <3>2. ~Idle(d) /\ request[d].op = "write" => request[d].written \in Submissions
      BY DEF IInv, RequestsSound, Sound, WriteSound
    <3> QED BY <3>1, <3>2, RequestStays DEF IInv
  <2> QED BY <2>1, <2>2
<1> QED BY <1>3 DEF IInv, RequestsSound

\* The rules are run for the next submission (apply_rule_set, bulk_migrate).
LEMMA ApplyStepSound ==
    ASSUME IInv, NEW c \in Sessions, ApplyStep(c)
    PROVE  IInv'
<1> DEFINE r == request[c]
<1>2. r.op = "apply" /\ ApplySound(r)
  BY DEF IInv, RequestsSound, ApplyStep, Sound
<1> DEFINE loaded == IF r.rules = None THEN RulesOf(r.set) ELSE r.rules
<1>3. PICK s, new :
          /\ s \in r.todo
          /\ UNCHANGED tables
          /\ \/ \E old : /\ request' = [request EXCEPT ![c] =
                              [r EXCEPT !.rules = loaded, !.at = s, !.wiped = old, !.new = new]]
                         /\ \A q \in DOMAIN new : q[1] = r.set.target
             \/ Close(c)
             \/ request' = [request EXCEPT ![c] = [r EXCEPT !.rules = loaded, !.todo = @ \ {s}]]
                /\ r.at = None
  <2>0. ApplyNext(c)
    BY DEF ApplyStep
  <2>1. PICK s \in r.todo :
            LET before == AnswersFor(r.set, s)
                target == QuestionsOf[r.set.target]
                after == NewAnswers(RunRules(loaded, before).after, target)
            IN  /\ r.at = None
                /\ request' = [request EXCEPT ![c] =
                       IF SetLives(r.set) /\ Migrates(loaded, before, target)
                       THEN [r EXCEPT !.rules = loaded, !.at = s, !.wiped = DOMAIN answers[s],
                                      !.new = [q \in {<<r.set.target, key>> : key \in DOMAIN after}
                                                  |-> after[q[2]]]]
                       ELSE IF r.todo = {s} THEN None
                       ELSE [r EXCEPT !.rules = loaded, !.todo = @ \ {s}]]
                /\ UNCHANGED tables
    BY <2>0, Zenon DEF ApplyNext
  <2> DEFINE before == AnswersFor(r.set, s)
             target == QuestionsOf[r.set.target]
             after == NewAnswers(RunRules(loaded, before).after, target)
             new == [q \in {<<r.set.target, key>> : key \in DOMAIN after} |-> after[q[2]]]
             migrates == SetLives(r.set) /\ Migrates(loaded, before, target)
  <2>2. /\ r.at = None /\ UNCHANGED tables
        /\ request' = [request EXCEPT ![c] =
               IF migrates
               THEN [r EXCEPT !.rules = loaded, !.at = s, !.wiped = DOMAIN answers[s], !.new = new]
               ELSE IF r.todo = {s} THEN None
               ELSE [r EXCEPT !.rules = loaded, !.todo = @ \ {s}]]
    BY <2>1
  <2>3. \A q \in DOMAIN new : q[1] = r.set.target
    OBVIOUS
  <2>4. s \in r.todo
    OBVIOUS
  <2> HIDE DEF r, loaded, migrates, new
  <2>5. CASE migrates
    BY <2>2, <2>3, <2>4, <2>5
  <2>6. CASE ~migrates /\ r.todo = {s}
    BY <2>2, <2>4, <2>6 DEF Close
  <2>7. CASE ~migrates /\ r.todo # {s}
    BY <2>2, <2>4, <2>7
  <2> QED BY <2>5, <2>6, <2>7
<1> HIDE DEF r, loaded
<1>4. DOMAIN request' = Sessions
  BY <1>3 DEF Close, IInv, TablesSound, TypeOK
<1>5. TablesSound'
  BY <1>3, <1>4, TablesStay DEF IInv
<1>6. submissions' = submissions
  BY <1>3 DEF tables
<1>7. CASE Close(c)
  BY <1>5, <1>6, <1>7, CloseSound
<1>8. ASSUME NEW q, request' = [request EXCEPT ![c] = q],
             \/ \E old : /\ q = [r EXCEPT !.rules = loaded, !.at = s, !.wiped = old, !.new = new]
                         /\ \A place \in DOMAIN new : place[1] = r.set.target
             \/ q = [r EXCEPT !.rules = loaded, !.todo = @ \ {s}] /\ r.at = None
      PROVE  IInv'
  <2>1. /\ DOMAIN q = DOMAIN r /\ q.op = "apply" /\ q.set = r.set /\ q.rows = r.rows
        /\ q.todo \subseteq r.todo
        /\ q.at \in q.todo \cup {None}
        /\ q.at # None => \A place \in DOMAIN q.new : place[1] = r.set.target
    <3>1. CASE \E old : /\ q = [r EXCEPT !.rules = loaded, !.at = s, !.wiped = old, !.new = new]
                        /\ \A place \in DOMAIN new : place[1] = r.set.target
      BY <3>1, <1>2, <1>3 DEF ApplySound
    <3>2. CASE q = [r EXCEPT !.rules = loaded, !.todo = @ \ {s}] /\ r.at = None
      BY <3>2, <1>2, <1>3 DEF ApplySound
    <3> QED BY <3>1, <3>2, <1>8
  <2>2. ApplySound(q) /\ q.op = "apply"
    BY <2>1, <1>2 DEF ApplySound
  <2> QED BY <2>2, <1>5, <1>6, <1>8, GoesOnSound
<1> QED BY <1>3, <1>7, <1>8

\* The tables after the commit of a migration: one row and its answers, if any.
MovesOne(c, r, s) ==
    /\ UNCHANGED <<rule_sets, rules>>
    /\ \/ UNCHANGED tables /\ Close(c)
       \/ /\ submissions' = [submissions EXCEPT ![s] =
                                Flush(@, r.rows[s], Moved(r.rows[s], r.set))]
          /\ answers' = [answers EXCEPT ![s] =
                 [q \in DOMAIN r.new \cup (DOMAIN answers[s] \ r.wiped) |->
                     IF q \in DOMAIN r.new THEN r.new[q] ELSE Kept(r, s)[q]]]
          /\ \/ Close(c)
             \/ request' = [request EXCEPT ![c] =
                   [r EXCEPT !.todo = @ \ {s}, !.at = None, !.wiped = {}, !.new = <<>>]]

\* What a commit of a migration does: it moves one submission of its list, or nothing.
LEMMA ApplyCommitFacts ==
    ASSUME IInv, NEW c \in Sessions, ApplyCommit(c),
           NEW r, r = request[c], NEW s, s = r.at
    PROVE  /\ r.op = "apply" /\ ApplySound(r) /\ s \in r.todo /\ s \in Submissions
           /\ MovesOne(c, r, s)
<1>1. r.op = "apply" /\ r.at # None /\ CommitApply(c) /\ ApplySound(r)
  BY DEF ApplyCommit, IInv, RequestsSound, Sound
<1>2. s \in r.todo /\ s \in Submissions
  BY <1>1 DEF ApplySound
<1>3. DOMAIN Kept(r, s) = DOMAIN answers[s] \ r.wiped
  BY DEF Kept
<1>4. CASE DOMAIN Kept(r, s) \cap DOMAIN r.new # {} \/ ~SetLives(r.set)
  BY <1>1, <1>2, <1>4 DEF CommitApply, tables, MovesOne
<1>5. CASE ~(DOMAIN Kept(r, s) \cap DOMAIN r.new # {} \/ ~SetLives(r.set))
  <2>1. /\ submissions' = [submissions EXCEPT ![s] =
                              Flush(@, r.rows[s], Moved(r.rows[s], r.set))]
        /\ answers' = [answers EXCEPT ![s] =
               [q \in DOMAIN r.new \cup DOMAIN Kept(r, s) |->
                   IF q \in DOMAIN r.new THEN r.new[q] ELSE Kept(r, s)[q]]]
        /\ request' = [request EXCEPT ![c] = IF r.todo = {s} THEN None
               ELSE [r EXCEPT !.todo = @ \ {s}, !.at = None, !.wiped = {}, !.new = <<>>]]
        /\ UNCHANGED <<rule_sets, rules>>
    BY <1>1, <1>5 DEF CommitApply
  <2>2. \/ Close(c)
        \/ request' = [request EXCEPT ![c] =
              [r EXCEPT !.todo = @ \ {s}, !.at = None, !.wiped = {}, !.new = <<>>]]
    BY <2>1 DEF Close
  <2>3. MovesOne(c, r, s)
    BY <1>3, <2>1, <2>2 DEF MovesOne
  <2> QED BY <1>1, <1>2, <2>3
<1> QED BY <1>4, <1>5

\* The commit of a migration, after which a bulk run goes on to the next submission.
LEMMA ApplyCommitSound ==
    ASSUME IInv, NEW c \in Sessions, ApplyCommit(c)
    PROVE  IInv'
<1>1. PICK r, s : r = request[c] /\ s = r.at
  OBVIOUS
<1>2. /\ r.op = "apply" /\ ApplySound(r) /\ s \in r.todo /\ s \in Submissions
      /\ MovesOne(c, r, s)
  BY <1>1, ApplyCommitFacts
<1>3. CASE UNCHANGED tables /\ Close(c)
  <2>1. DOMAIN request' = Sessions
    BY <1>3 DEF Close, IInv, TablesSound, TypeOK
  <2>2. TablesSound' /\ submissions' = submissions
    BY <1>3, <2>1, TablesStay DEF IInv, tables
  <2> QED BY <1>3, <2>2, CloseSound
<1>4. CASE /\ submissions' = [submissions EXCEPT ![s] =
                                 Flush(@, r.rows[s], Moved(r.rows[s], r.set))]
           /\ answers' = [answers EXCEPT ![s] =
                  [q \in DOMAIN r.new \cup (DOMAIN answers[s] \ r.wiped) |->
                      IF q \in DOMAIN r.new THEN r.new[q] ELSE Kept(r, s)[q]]]
           /\ \/ Close(c)
              \/ request' = [request EXCEPT ![c] =
                    [r EXCEPT !.todo = @ \ {s}, !.at = None, !.wiped = {}, !.new = <<>>]]
  <2>1. /\ submissions \in [Submissions -> SubmissionRow] /\ DOMAIN answers = Submissions
        /\ DOMAIN request = Sessions /\ r.rows[s] \in SubmissionRow /\ r.set \in RuleSets
    BY <1>2 DEF IInv, TablesSound, TypeOK, ApplySound
  <2> DEFINE after == Flush(submissions[s], r.rows[s], Moved(r.rows[s], r.set))
  <2>2. /\ after \in SubmissionRow /\ after.status = submissions[s].status
        /\ after.validation_results = submissions[s].validation_results
    BY <2>1, <1>2, MoveFacts
  <2>3. submissions' = [submissions EXCEPT ![s] = after]
    BY <1>4
  <2> HIDE DEF after
  <2>4. \A t \in Submissions : /\ submissions'[t].status = submissions[t].status
                               /\ submissions'[t].validation_results = submissions[t].validation_results
    BY <2>1, <2>2, <2>3
  <2>5. submissions' \in [Submissions -> SubmissionRow]
    BY <2>1, <2>2, <2>3
  <2>6. DOMAIN answers' = Submissions /\ DOMAIN request' = Sessions
    BY <2>1, <1>4 DEF Close
  <2>7. TablesSound'
    BY <2>4, <2>5, <2>6, <1>2 DEF MovesOne, IInv, TablesSound, TypeOK, NoVerdictYet
  <2>8. CASE Close(c)
    BY <2>4, <2>7, <2>8, CloseSound
  <2>9. CASE request' = [request EXCEPT ![c] =
                 [r EXCEPT !.todo = @ \ {s}, !.at = None, !.wiped = {}, !.new = <<>>]]
    <3>0. PICK q : q = [r EXCEPT !.todo = @ \ {s}, !.at = None, !.wiped = {}, !.new = <<>>]
      OBVIOUS
    <3>1. /\ DOMAIN q = DOMAIN r /\ q.op = "apply" /\ q.set = r.set /\ q.rows = r.rows
          /\ q.todo \subseteq r.todo /\ q.at = None
      BY <3>0, <1>2 DEF ApplySound
    <3>2. request' = [request EXCEPT ![c] = q]
      BY <2>9, <3>0
    <3>3. ApplySound(q) /\ q.op = "apply"
      BY <3>1, <1>2 DEF ApplySound
    <3> QED BY <3>2, <3>3, <2>4, <2>7, GoesOnSound
  <2> QED BY <1>4, <2>8, <2>9
<1> QED BY <1>2, <1>3, <1>4, Zenon DEF MovesOne

\* The commit of a handler that writes a submission.
LEMMA CommitWriteSound ==
    ASSUME IInv, NEW c \in Sessions, CommitWrite(c)
    PROVE  IInv'
<1>1. PICK r : r = request[c]
  OBVIOUS
<1> DEFINE s == r.written
           after == Flush(submissions[s], r.base, r.mine)
<1>2. /\ WriteSound(r) /\ Close(c) /\ UNCHANGED <<rule_sets, rules, answers>>
      /\ submissions' = [submissions EXCEPT ![s] = after]
      /\ r.base.status = "submitted" => submissions[s].status = "submitted"
  BY <1>1 DEF CommitWrite, IInv, RequestsSound, Sound, StaysIn
<1>3. /\ s \in Submissions /\ submissions \in [Submissions -> SubmissionRow]
      /\ \A t \in Submissions : NoVerdictYet(submissions[t])
  BY <1>2 DEF WriteSound, IInv, TablesSound, TypeOK
<1>4. /\ after \in SubmissionRow /\ NoVerdictYet(after)
      /\ submissions[s].status = "submitted" => after.status = "submitted"
  BY <1>2, <1>3, WriteFacts
<1> HIDE DEF after, s
<1>5. submissions' \in [Submissions -> SubmissionRow]
  BY <1>2, <1>3, <1>4
<1>6. \A t \in Submissions : /\ NoVerdictYet(submissions'[t])
                             /\ submissions[t].status = "submitted" => submissions'[t].status = "submitted"
  BY <1>2, <1>3, <1>4
<1>7. DOMAIN request' = Sessions
  BY <1>2 DEF Close, IInv, TablesSound, TypeOK
<1>8. TablesSound'
  BY <1>2, <1>5, <1>6, <1>7 DEF IInv, TablesSound, TypeOK
<1> QED BY <1>2, <1>6, <1>8, CloseSound

\* A request ends without a commit.
LEMMA GiveUpSound ==
    ASSUME IInv, NEW c \in Sessions, GiveUp(c)
    PROVE  IInv'
<1>1. DOMAIN request' = Sessions /\ submissions' = submissions
  BY DEF GiveUp, Close, IInv, TablesSound, TypeOK, tables
<1>2. TablesSound'
  BY <1>1, TablesStay DEF GiveUp, IInv
<1> QED BY <1>1, <1>2, CloseSound DEF GiveUp

-----------------------------------------------------------------------------
(* The theorems.                                                           *)

\* The inductive invariant, of which the other theorems are consequences.
THEOREM Invariance == Spec => []IInv
<1>1. IInv /\ [Next]_vars => IInv'
  <2> SUFFICES ASSUME IInv, [Next]_vars PROVE IInv'
    OBVIOUS
  <2>1. CASE UNCHANGED vars
    <3>1. DOMAIN request' = Sessions /\ UNCHANGED tables
      BY <2>1 DEF vars, tables, IInv, TablesSound, TypeOK
    <3>2. TablesSound'
      BY <3>1, TablesStay DEF IInv
    <3>3. RequestsSound'
      BY <2>1, RequestStays DEF vars, IInv, RequestsSound
    <3> QED BY <3>2, <3>3 DEF IInv
  <2>2. CASE Next
    <3>1. ASSUME NEW set \in RuleSets,
                 \/ \E new \in {<<>>} \cup {<<rule>> : rule \in NewRules} : CreateRuleSet(set, new)
                 \/ GenerateRuleSet(set)
          PROVE  IInv'
      BY <3>1, RuleSetSound
    <3>2. ASSUME NEW c \in Sessions, Administer(c) \/ Work(c)
          PROVE  IInv'
      BY <3>2, AdministerSound, WorkSound
    <3>3. ASSUME NEW c \in Sessions, CommitRule(c) \/ CommitSet(c) \/ CommitWrite(c) \/ GiveUp(c)
          PROVE  IInv'
      BY <3>3, CommitRuleSound, CommitSetSound, CommitWriteSound, GiveUpSound
    <3>4. ASSUME NEW c \in Sessions, ApplyStep(c) \/ ApplyCommit(c)
          PROVE  IInv'
      BY <3>4, ApplyStepSound, ApplyCommitSound
    <3> QED BY <2>2, <3>1, <3>2, <3>3, <3>4 DEF Next
  <2> QED BY <2>1, <2>2
<1> QED BY <1>1, InitSound, PTL DEF Spec

\* Every table has the types it should have, generated rules included.
THEOREM TypeCorrect == Spec => []TypeOK
<1>1. IInv => TypeOK
  BY DEF IInv, TablesSound
<1> QED BY <1>1, Invariance, PTL

\* A step leaves what it does not touch: the rules of a set are what they were if no rule
\* of it comes, goes or changes.
LEMMA RulesStay ==
    ASSUME NEW set, \A id \in RuleIds : \/ rules'[id] = rules[id]
                                        \/ id \notin IdsOf(set) /\ id \notin IdsOf(set)'
    PROVE  RulesOf(set)' = RulesOf(set)
<1>1. IdsOf(set)' = IdsOf(set)
  BY DEF IdsOf, Live
<1>2. \A id \in IdsOf(set) : rules'[id] = rules[id]
  BY <1>1 DEF IdsOf
<1> DEFINE before == [id \in IdsOf(set) |-> rules[id].rule]
<1>3. [id \in IdsOf(set) |-> rules[id].rule]' = before
  BY <1>1, <1>2
<1>4. RulesOf(set) = InOrder(before) /\ RulesOf(set)' = InOrder(before')
  BY DEF RulesOf
<1> QED BY <1>3, <1>4

\* Steps that write neither sets nor rules.
LEMMA AdministrationStays ==
    ASSUME UNCHANGED <<rule_sets, rules>>, NEW set
    PROVE  Tried(set)' = Tried(set)
BY RulesStay DEF Tried

\* A new rule set is a draft, and its rules are of no other set.
LEMMA CreatedSetsAreDrafts ==
    ASSUME IInv, NEW set \in RuleSets, NEW made \in RuleSets, NEW new,
           \A i \in DOMAIN new : [set |-> made, rule |-> new[i]] \in RuleRow,
           rule_sets' = [rule_sets EXCEPT ![made] = "draft"], rules' = Inserted(made, new),
           Tried(set)
    PROVE  Tried(set)'
<1>1. TablesSound /\ rule_sets \in [RuleSets -> Statuses \cup {None, Deleted}]
  BY DEF IInv, TablesSound, TypeOK
<1>2. CASE set = made
  BY <1>1, <1>2 DEF Tried
<1>3. CASE set # made
  <2>1. rule_sets'[set] = rule_sets[set]
    BY <1>1, <1>3
  <2>2. RulesOf(set)' = RulesOf(set)
    <3>1. ASSUME NEW id \in RuleIds
          PROVE  \/ rules'[id] = rules[id]
                 \/ id \notin IdsOf(set) /\ id \notin IdsOf(set)'
      <4>1. \/ rules'[id] = rules[id]
            \/ rules[id] = None /\ rules'[id].set = made
        BY <1>1, InsertedFacts
      <4> QED BY <4>1, <1>3 DEF IdsOf, Live
    <3> QED BY <3>1, RulesStay
  <2> QED BY <2>1, <2>2 DEF Tried
<1> QED BY <1>2, <1>3

\* A published set has no rule that the sandbox refuses, unless a request acts on a set or
\* on rules that are no longer what it read (publish_rule_set, add_rule, update_rule).
THEOREM PublishedRulesAreTried == Spec => PublishedRulesTriedUnlessRaced
<1>1. IInv /\ [Next]_vars =>
          [\A set \in RuleSets : Tried(set) /\ ~Tried(set)' =>
               \E c \in Sessions : Moves(c) /\ RulesRaced(c, set)]_vars
  <2> SUFFICES ASSUME IInv, [Next]_vars, NEW set \in RuleSets, Tried(set), ~Tried(set)'
               PROVE  \E c \in Sessions : Moves(c) /\ RulesRaced(c, set)
    OBVIOUS
  <2>1. ~UNCHANGED <<rule_sets, rules>>
    BY AdministrationStays
  <2>2. ASSUME NEW c \in Sessions, Close(c), ~Idle(c)
        PROVE  Moves(c)
    BY <2>2 DEF Moves, Close, Idle, IInv, TablesSound, TypeOK
  <2>3. ASSUME NEW c \in Sessions, CommitRule(c)
        PROVE  Moves(c) /\ RulesRaced(c, set)
    <3>1. /\ ~Idle(c) /\ Close(c) /\ rule_sets' = rule_sets
          /\ request[c].op # "status"
      BY <2>3 DEF CommitRule
    <3>2. rule_sets[set] # "draft"
      BY <3>1 DEF Tried
    <3> QED BY <2>2, <3>1, <3>2 DEF RulesRaced
  <2>4. ASSUME NEW c \in Sessions, CommitSet(c)
        PROVE  Moves(c) /\ RulesRaced(c, set)
    <3> DEFINE r == request[c]
    <3>1. Moves(c) /\ Sound(r)
      BY <2>2, <2>4 DEF CommitSet, IInv, RequestsSound
    <3>2. rule_sets \in [RuleSets -> Statuses \cup {None, Deleted}]
      BY DEF IInv, TablesSound, TypeOK
    <3>3. CASE r.op = "status"
      <4>1. /\ rules' = rules /\ SetLives(r.set)
            /\ rule_sets' = [rule_sets EXCEPT ![r.set] = r.mine]
        BY <2>1, <2>4, <3>3 DEF CommitSet
      <4>2. RulesOf(set)' = RulesOf(set)
        BY <4>1, RulesStay
      <4>3. set = r.set
        BY <3>2, <4>1, <4>2 DEF Tried
      <4>4. r.mine = "published" /\ ~SandboxValid(RulesOf(set), QuestionsOf[set.source], QuestionsOf[set.target])
        BY <3>2, <4>1, <4>2, <4>3 DEF Tried
      <4>5. SandboxValid(r.read, QuestionsOf[set.source], QuestionsOf[set.target])
        BY <3>1, <3>3, <4>3, <4>4 DEF Sound, AdminSound
      <4> QED BY <3>1, <3>3, <4>4, <4>5 DEF RulesRaced
    <3>4. CASE r.op = "drop"
      <4>1. /\ rule_sets' = [rule_sets EXCEPT ![r.set] = Deleted]
            /\ rules' = [id \in RuleIds |-> IF id \in IdsOf(r.set) THEN Deleted ELSE rules[id]]
        BY <2>4, <3>4 DEF CommitSet
      <4>2. set # r.set
        BY <3>2, <4>1, ConstantsOK DEF Tried, ConstantsOK, Statuses
      <4>3. RulesOf(set)' = RulesOf(set)
        <5>1. ASSUME NEW id \in RuleIds
              PROVE  \/ rules'[id] = rules[id]
                     \/ id \notin IdsOf(set) /\ id \notin IdsOf(set)'
          BY <4>1, <4>2 DEF IdsOf, Live
        <5> QED BY <5>1, RulesStay
      <4> QED BY <3>2, <4>1, <4>2, <4>3 DEF Tried
    <3> QED BY <2>4, <3>3, <3>4 DEF CommitSet
  <2>5. ASSUME NEW made \in RuleSets,
               \/ \E new \in {<<>>} \cup {<<rule>> : rule \in NewRules} : CreateRuleSet(made, new)
               \/ GenerateRuleSet(made)
        PROVE  FALSE
    <3>1. PICK new : /\ \A i \in DOMAIN new : [set |-> made, rule |-> new[i]] \in RuleRow
                     /\ rule_sets' = [rule_sets EXCEPT ![made] = "draft"]
                     /\ rules' = Inserted(made, new)
      BY <2>5, NewRulesAreRows DEF CreateRuleSet, GenerateRuleSet
    <3> QED BY <3>1, CreatedSetsAreDrafts
  <2>6. ASSUME NEW c \in Sessions,
               Administer(c) \/ Work(c) \/ CommitWrite(c) \/ GiveUp(c) \/ ApplyStep(c)
        PROVE  FALSE
    BY <2>1, <2>6 DEF Administer, Work, CommitWrite, GiveUp, ApplyStep, AddRuleBegin, UpdateRuleBegin,
       DeleteRuleBegin, SetStatusBegin, DeleteSetBegin, ApplyBegin, BulkBegin, EditBegin, SubmitBegin,
       FinalizeBegin, Writing, Open, ApplyNext, tables
  <2>7. ASSUME NEW c \in Sessions, ApplyCommit(c)
        PROVE  FALSE
    BY <2>1, <2>7 DEF ApplyCommit, CommitApply, tables
  <2>8. CASE UNCHANGED vars
    BY <2>1, <2>8 DEF vars
  <2>9. CASE Next
    BY <2>3, <2>4, <2>5, <2>6, <2>7, <2>9 DEF Next
  <2> QED BY <2>8, <2>9
<1> QED BY <1>1, Invariance, PTL DEF Spec, PublishedRulesTriedUnlessRaced

-----------------------------------------------------------------------------
(* The promises to those who hand in submissions.                          *)

\* Only two commits write submissions and their answers.
LEMMA OtherStepsWriteNothing ==
    ASSUME [Next]_vars,
           \A c \in Sessions : ~ApplyCommit(c) /\ ~CommitWrite(c)
    PROVE  UNCHANGED <<submissions, answers>>
<1>1. ASSUME NEW set \in RuleSets,
             \/ \E new \in {<<>>} \cup {<<rule>> : rule \in NewRules} : CreateRuleSet(set, new)
             \/ GenerateRuleSet(set)
      PROVE  UNCHANGED <<submissions, answers>>
  BY <1>1 DEF CreateRuleSet, GenerateRuleSet
<1>2. ASSUME NEW c \in Sessions,
             \/ Administer(c) \/ Work(c) \/ GiveUp(c) \/ ApplyStep(c)
             \/ CommitRule(c) \/ CommitSet(c)
      PROVE  UNCHANGED <<submissions, answers>>
  BY <1>2 DEF Administer, Work, GiveUp, ApplyStep, AddRuleBegin, UpdateRuleBegin,
     DeleteRuleBegin, SetStatusBegin, DeleteSetBegin, ApplyBegin, BulkBegin, EditBegin, SubmitBegin,
     FinalizeBegin, Writing, Open, ApplyNext, tables, CommitRule, CommitSet
<1>3. CASE UNCHANGED vars
  BY <1>3 DEF vars
<1>4. CASE Next
  BY <1>1, <1>2, <1>4 DEF Next
<1> QED BY <1>3, <1>4

\* The row that a handler's commit leaves.
LEMMA WrittenRow ==
    ASSUME IInv, NEW c \in Sessions, CommitWrite(c), NEW s \in Submissions,
           submissions'[s] # submissions[s]
    PROVE  LET r == request[c]
           IN  /\ Moves(c) /\ r.op = "write" /\ s = r.written /\ WriteSound(r)
               /\ r.base.status = "submitted" => submissions[s].status = "submitted"
               /\ submissions'[s] = Flush(submissions[s], r.base, r.mine)
               /\ answers' = answers
<1> DEFINE r == request[c]
<1>1. /\ ~Idle(c) /\ r.op = "write" /\ Close(c) /\ answers' = answers
      /\ submissions' = [submissions EXCEPT ![r.written] = Flush(@, r.base, r.mine)]
  BY DEF CommitWrite
<1>2. WriteSound(r) /\ StaysIn(c) /\ DOMAIN submissions = Submissions /\ DOMAIN request = Sessions
  BY <1>1 DEF IInv, RequestsSound, Sound, TablesSound, TypeOK
<1>3. s = r.written /\ submissions'[s] = Flush(submissions[s], r.base, r.mine)
  BY <1>1, <1>2
<1>4. Moves(c)
  BY <1>1, <1>2 DEF Moves, Close, Idle
<1> QED BY <1>1, <1>2, <1>3, <1>4 DEF StaysIn

\* The row, and the answers, that the commit of a migration leaves.
LEMMA MovedRow ==
    ASSUME IInv, NEW c \in Sessions, ApplyCommit(c), NEW s \in Submissions,
           ~UNCHANGED <<submissions[s], answers[s]>>
    PROVE  LET r == request[c]
           IN  /\ Moves(c) /\ r.op = "apply" /\ s = r.at /\ ApplySound(r) /\ s \in r.todo
               /\ submissions'[s] = Flush(submissions[s], r.rows[s], Moved(r.rows[s], r.set))
               /\ DOMAIN (answers'[s]) = DOMAIN r.new \cup (DOMAIN answers[s] \ r.wiped)
<1>1. PICK r, t : r = request[c] /\ t = r.at
  OBVIOUS
<1>2. /\ r.op = "apply" /\ ApplySound(r) /\ t \in r.todo /\ t \in Submissions
      /\ MovesOne(c, r, t)
  BY <1>1, ApplyCommitFacts
<1>3. /\ DOMAIN submissions = Submissions /\ DOMAIN answers = Submissions
      /\ DOMAIN request = Sessions
  BY DEF IInv, TablesSound, TypeOK
<1>4. ~Idle(c) /\ r.at # None
  BY <1>1 DEF ApplyCommit
<1> DEFINE given == [q \in DOMAIN r.new \cup (DOMAIN answers[t] \ r.wiped) |->
                        IF q \in DOMAIN r.new THEN r.new[q] ELSE Kept(r, t)[q]]
<1>5. /\ submissions' = [submissions EXCEPT ![t] =
                            Flush(@, r.rows[t], Moved(r.rows[t], r.set))]
      /\ answers' = [answers EXCEPT ![t] = given]
      /\ \/ Close(c)
         \/ request' = [request EXCEPT ![c] =
               [r EXCEPT !.todo = @ \ {t}, !.at = None, !.wiped = {}, !.new = <<>>]]
  BY <1>2 DEF MovesOne, tables
<1>6. DOMAIN given = DOMAIN r.new \cup (DOMAIN answers[t] \ r.wiped)
  OBVIOUS
<1> HIDE DEF given
<1>7. s = t
  BY <1>3, <1>5
<1>8. /\ submissions'[s] = Flush(submissions[s], r.rows[s], Moved(r.rows[s], r.set))
      /\ answers'[s] = given
  BY <1>2, <1>3, <1>5, <1>7
<1>9. Moves(c)
  <2>1. CASE Close(c)
    BY <2>1, <1>3, <1>4 DEF Moves, Close, Idle
  <2>2. CASE request' = [request EXCEPT ![c] =
                 [r EXCEPT !.todo = @ \ {t}, !.at = None, !.wiped = {}, !.new = <<>>]]
    <3>1. request'[c].at = None
      BY <2>2, <1>2, <1>3 DEF ApplySound
    <3> QED BY <3>1, <1>1, <1>4 DEF Moves
  <2> QED BY <1>5, <2>1, <2>2
<1> QED BY <1>1, <1>2, <1>6, <1>7, <1>8, <1>9

\* A migration moves a submission with its answers or not at all, unless the submission has
\* moved since it was read, or answers were written that the migration has not deleted
\* (apply_rule_set, bulk_migrate).
THEOREM MigrationsAreWhole == Spec => MigrationsWholeUnlessRaced
<1>1. IInv /\ [Next]_vars =>
          [\A s \in Submissions : AnswersFit(s) /\ ~AnswersFit(s)' =>
              \E c \in Sessions :
                  /\ Moves(c) /\ request[c].op = "apply" /\ request[c].at = s
                  /\ \/ submissions[s].version # request[c].rows[s].version
                     \/ DOMAIN answers[s] # request[c].wiped]_vars
  <2> SUFFICES ASSUME IInv, [Next]_vars, NEW s \in Submissions, AnswersFit(s), ~AnswersFit(s)'
               PROVE  \E c \in Sessions :
                          /\ Moves(c) /\ request[c].op = "apply" /\ request[c].at = s
                          /\ \/ submissions[s].version # request[c].rows[s].version
                             \/ DOMAIN answers[s] # request[c].wiped
    OBVIOUS
  <2>1. submissions[s] \in SubmissionRow
    BY DEF IInv, TablesSound, TypeOK
  <2>2. ~UNCHANGED <<submissions[s], answers[s]>>
    BY DEF AnswersFit
  <2>3. ASSUME NEW c \in Sessions, CommitWrite(c)
        PROVE  FALSE
    <3>1. PICK r : r = request[c]
      OBVIOUS
    <3>2. CASE submissions'[s] # submissions[s]
      <4>1. /\ WriteSound(r)
            /\ r.base.status = "submitted" => submissions[s].status = "submitted"
            /\ submissions'[s] = Flush(submissions[s], r.base, r.mine) /\ answers' = answers
        BY <2>3, <3>1, <3>2, WrittenRow
      <4> DEFINE after == Flush(submissions[s], r.base, r.mine)
      <4>2. after.version = submissions[s].version
        BY <2>1, <4>1, WriteFacts DEF IInv, TablesSound
      <4> QED BY <4>1, <4>2 DEF AnswersFit
    <3>3. CASE submissions'[s] = submissions[s]
      BY <2>2, <2>3, <3>3 DEF CommitWrite
    <3> QED BY <3>2, <3>3
  <2>4. ASSUME NEW c \in Sessions, ApplyCommit(c)
        PROVE  /\ Moves(c) /\ request[c].op = "apply" /\ request[c].at = s
               /\ \/ submissions[s].version # request[c].rows[s].version
                  \/ DOMAIN answers[s] # request[c].wiped
    <3>1. PICK r : r = request[c]
      OBVIOUS
    <3>2. /\ Moves(c) /\ r.op = "apply" /\ s = r.at /\ ApplySound(r) /\ s \in r.todo
          /\ submissions'[s] = Flush(submissions[s], r.rows[s], Moved(r.rows[s], r.set))
          /\ DOMAIN (answers'[s]) = DOMAIN r.new \cup (DOMAIN answers[s] \ r.wiped)
      BY <2>2, <2>4, <3>1, MovedRow
    <3>3. r.rows[s] \in SubmissionRow /\ r.set \in RuleSets /\ s # None
          /\ \A q \in DOMAIN r.new : q[1] = r.set.target
      BY <2>4, <3>1, <3>2 DEF ApplySound, ApplyCommit
    <3>4. ASSUME submissions[s].version = r.rows[s].version, DOMAIN answers[s] = r.wiped
          PROVE  FALSE
      <4> DEFINE after == Flush(submissions[s], r.rows[s], Moved(r.rows[s], r.set))
      <4>0. after.version = r.set.target
        BY <2>1, <3>3, <3>4, MoveFacts
      <4>1. submissions'[s].version = r.set.target
        BY <3>2, <4>0
      <4>2. DOMAIN (answers'[s]) = DOMAIN r.new
        BY <3>2, <3>4
      <4> QED BY <3>3, <4>1, <4>2 DEF AnswersFit
    <3> QED BY <3>1, <3>2, <3>4
  <2> QED BY <2>2, <2>3, <2>4, OtherStepsWriteNothing
<1> QED BY <1>1, Invariance, PTL DEF Spec, MigrationsWholeUnlessRaced

\* A form that was handed in with validation fits its version, unless a request writes the
\* submission that has changed since it was read (submit_submission, update_submission,
\* apply_rule_set).
THEOREM HandedInFormsFit == Spec => HandedInFormsFitUnlessRaced
<1>1. IInv /\ [Next]_vars =>
          [\A s \in Submissions : HandedInFits(s) /\ ~HandedInFits(s)' =>
              \E c \in Sessions :
                  /\ Moves(c)
                  /\ \/ request[c].op = "apply" /\ request[c].rows[s] # submissions[s]
                     \/ request[c].op = "write" /\ request[c].base # submissions[s]]_vars
  <2> SUFFICES ASSUME IInv, [Next]_vars, NEW s \in Submissions, HandedInFits(s), ~HandedInFits(s)'
               PROVE  \E c \in Sessions :
                          /\ Moves(c)
                          /\ \/ request[c].op = "apply" /\ request[c].rows[s] # submissions[s]
                             \/ request[c].op = "write" /\ request[c].base # submissions[s]
    OBVIOUS
  <2>1. submissions[s] \in SubmissionRow /\ NoVerdictYet(submissions[s])
    BY DEF IInv, TablesSound, TypeOK
  <2>2. submissions'[s] # submissions[s]
    BY DEF HandedInFits, FormFits
  <2>3. /\ submissions'[s].status = "submitted" /\ "valid" \in submissions'[s].validation_results
        /\ ~FormFits(submissions'[s])
    BY DEF HandedInFits, FormFits
  <2>4. ASSUME NEW c \in Sessions, CommitWrite(c)
        PROVE  Moves(c) /\ request[c].op = "write" /\ request[c].base # submissions[s]
    <3>1. PICK r : r = request[c]
      OBVIOUS
    <3>2. /\ Moves(c) /\ r.op = "write" /\ WriteSound(r)
          /\ submissions'[s] = Flush(submissions[s], r.base, r.mine)
      BY <2>2, <2>4, <3>1, WrittenRow
    <3>3. ASSUME r.base = submissions[s]
          PROVE  FALSE
      <4> DEFINE row == submissions[s]
                 after == submissions'[s]
      <4>1. r.mine \in SubmissionRow
        BY <3>2, MineIsRow
      <4>2. after = r.mine
        <5>1. /\ after.version = r.mine.version /\ after.status = r.mine.status
              /\ after.form_data = r.mine.form_data
              /\ after.validation_results = r.mine.validation_results
              /\ after \in SubmissionRow
          BY <2>1, <3>2, <3>3, <4>1, FlushFacts
        <5> QED BY <4>1, <5>1 DEF SubmissionRow
      <4>3. CASE Edits(r)
        BY <2>1, <2>3, <3>3, <4>2, <4>3 DEF Edits, SubmissionRow
      <4>4. CASE HandsIn(r)
        <5>1. after.form_data = row.form_data /\ after.version = row.version /\ row.status = "draft"
          BY <2>1, <3>3, <4>2, <4>4 DEF HandsIn, SubmissionRow
        <5>2. FormFits(after) <=> FormFits(row)
          BY <5>1 DEF FormFits
        <5>3. after.validation_results = row.validation_results
          BY <2>1, <2>3, <3>3, <4>2, <4>4, <5>2 DEF HandsIn, SubmissionRow
        <5> QED BY <2>1, <2>3, <5>1, <5>3 DEF NoVerdictYet
      <4>5. CASE Decides(r)
        <5>1. /\ after.form_data = row.form_data /\ after.version = row.version
              /\ after.status = row.status
              /\ after.validation_results = row.validation_results \cup {"decision"}
          BY <2>1, <3>3, <4>2, <4>5 DEF Decides, SubmissionRow
        <5>2. FormFits(after) <=> FormFits(row)
          BY <5>1 DEF FormFits
        <5> QED BY <2>3, <5>1, <5>2 DEF HandedInFits
      <4> QED BY <3>2, <4>3, <4>4, <4>5 DEF WriteSound
    <3> QED BY <3>1, <3>2, <3>3
  <2>5. ASSUME NEW c \in Sessions, ApplyCommit(c)
        PROVE  Moves(c) /\ request[c].op = "apply" /\ request[c].rows[s] # submissions[s]
    <3>1. PICK r : r = request[c]
      OBVIOUS
    <3>2. /\ Moves(c) /\ r.op = "apply" /\ ApplySound(r) /\ s \in r.todo
          /\ submissions'[s] = Flush(submissions[s], r.rows[s], Moved(r.rows[s], r.set))
      BY <2>2, <2>5, <3>1, MovedRow
    <3>3. r.rows[s] \in SubmissionRow /\ r.rows[s].status = "draft" /\ r.set \in RuleSets
      BY <3>2 DEF ApplySound
    <3> DEFINE after == Flush(submissions[s], r.rows[s], Moved(r.rows[s], r.set))
    <3>0. after.status = submissions[s].status
      BY <2>1, <3>3, MoveFacts
    <3>4. submissions'[s].status = submissions[s].status
      BY <3>2, <3>0
    <3> QED BY <2>3, <3>1, <3>2, <3>3, <3>4
  <2> QED BY <2>2, <2>4, <2>5, OtherStepsWriteNothing
<1> QED BY <1>1, Invariance, PTL DEF Spec, HandedInFormsFitUnlessRaced

\* The decision of a verification is lost to a validated submission alone, and the verdict
\* on a form to a verification that read the submission before it was given
\* (_finalize_run, submit_submission, which write the same column).
THEOREM VerdictsAreKept == Spec => VerdictsLostUnlessRaced
<1>1. IInv /\ [Next]_vars =>
          [\A s \in Submissions :
              LET old == submissions[s].validation_results
                  new == submissions'[s].validation_results
              IN  /\ "decision" \in old \ new => submissions'[s].status = "submitted"
                                                 /\ new = {"valid"}
                  /\ "valid" \in old \ new =>
                         \E c \in Sessions : Moves(c) /\ request[c].base # submissions[s]]_vars
  <2> SUFFICES ASSUME IInv, [Next]_vars, NEW s \in Submissions,
                      submissions'[s].validation_results # submissions[s].validation_results
               PROVE  LET old == submissions[s].validation_results
                          new == submissions'[s].validation_results
                      IN  /\ "decision" \in old \ new => submissions'[s].status = "submitted"
                                                         /\ new = {"valid"}
                          /\ "valid" \in old \ new =>
                                 \E c \in Sessions : Moves(c) /\ request[c].base # submissions[s]
    OBVIOUS
  <2>1. submissions[s] \in SubmissionRow /\ NoVerdictYet(submissions[s])
    BY DEF IInv, TablesSound, TypeOK
  <2>2. ASSUME NEW c \in Sessions, ApplyCommit(c)
        PROVE  FALSE
    <3>1. PICK r : r = request[c]
      OBVIOUS
    <3>2. /\ ApplySound(r) /\ s \in r.todo
          /\ submissions'[s] = Flush(submissions[s], r.rows[s], Moved(r.rows[s], r.set))
      BY <2>2, <3>1, MovedRow
    <3>3. r.rows[s] \in SubmissionRow /\ r.set \in RuleSets
      BY <3>2 DEF ApplySound
    <3> DEFINE after == Flush(submissions[s], r.rows[s], Moved(r.rows[s], r.set))
    <3>4. after.validation_results = submissions[s].validation_results
      BY <2>1, <3>3, MoveFacts
    <3> QED BY <3>2, <3>4
  <2>3. PICK c \in Sessions : CommitWrite(c)
    BY <2>2, OtherStepsWriteNothing
  <2>4. PICK r : r = request[c]
    OBVIOUS
  <2>5. /\ Moves(c) /\ WriteSound(r)
        /\ submissions'[s] = Flush(submissions[s], r.base, r.mine)
    BY <2>3, <2>4, WrittenRow
  <2>6. r.base \in SubmissionRow /\ r.mine \in SubmissionRow
    BY <2>5, MineIsRow DEF WriteSound
  <2>7. /\ submissions'[s].validation_results = r.mine.validation_results
        /\ r.mine.validation_results # r.base.validation_results
        /\ r.mine.status # r.base.status => submissions'[s].status = r.mine.status
    BY <2>1, <2>5, <2>6, FlushFacts
  <2>8. CASE Edits(r)
    BY <2>6, <2>7, <2>8 DEF Edits, SubmissionRow
  <2>9. CASE HandsIn(r)
    BY <2>6, <2>7, <2>9 DEF HandsIn, SubmissionRow
  <2>10. CASE Decides(r)
    <3>1. submissions'[s].validation_results = r.base.validation_results \cup {"decision"}
      BY <2>6, <2>7, <2>10 DEF Decides, SubmissionRow
    <3> QED BY <2>4, <2>5, <3>1
  <2> QED BY <2>5, <2>8, <2>9, <2>10 DEF WriteSound
<1> QED BY <1>1, Invariance, PTL DEF Spec, VerdictsLostUnlessRaced
=============================================================================
