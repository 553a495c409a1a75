------------------------------ MODULE Baselines ------------------------------
(***************************************************************************)
(* The baseline of one type and level with its definitions                 *)
(* (app/services/baseline_templates/service.py), and the definitions that  *)
(* tenants copy from it (app/services/tenant_templates/service.py).        *)
(*                                                                         *)
(* A configuration is a function from paths, which are sequences, to       *)
(* values that are no objects.  How the definitions of a tenant are        *)
(* reviewed is the business of TemplateReview.                             *)
(***************************************************************************)
EXTENDS Requests

CONSTANTS
    BDefs,          \* ids of rows of baseline_template_definitions
    BFirst,         \* the definition the baseline may be created with
    TDefs,          \* ids of rows of tenant_template_definitions
    Questions,      \* what a baseline can ask
    Configs,        \* contents of rules_config of a baseline
    OwnConfigs      \* and of a tenant

VARIABLES
    baseline,       \* row of baseline_templates, None or Deleted
    bdefs,          \* BDefs -> row, None or Deleted
    basks,          \* BDefs -> the questions it has
    tdefs           \* TDefs -> row with the questions it copied, or None

baselineVars == <<baseline, bdefs, basks, tdefs>>

Header == [active : BOOLEAN, locked : BOOLEAN, current : BDefs \cup {None}]
Definition == [draft : BOOLEAN, rules : Configs]
Copy == [draft : BOOLEAN, from : BDefs \cup {None}, locked : SUBSET Questions, rules : OwnConfigs]

BaselinesOK ==
    /\ BFirst \in BDefs /\ None \notin BDefs
    /\ {None, Deleted} \cap (Header \cup Definition) = {} /\ None \notin Copy
ASSUME BaselinesOK

BaselineTypeOK ==
    /\ baseline \in Header \cup {None, Deleted}
    /\ bdefs \in [BDefs -> Definition \cup {None, Deleted}]
    /\ basks \in [BDefs -> SUBSET Questions]
    /\ tdefs \in [TDefs -> Copy \cup {None}]

BaselineInit ==
    /\ baseline = None
    /\ bdefs = [b \in BDefs |-> None]
    /\ basks = [b \in BDefs |-> {}]
    /\ tdefs = [d \in TDefs |-> None]

-----------------------------------------------------------------------------
(* What is kept in step by foreign keys that are set to null.              *)

Without(gone) ==
    /\ bdefs' = [b \in BDefs |-> IF b \in gone /\ Lives(bdefs[b]) THEN Deleted ELSE bdefs[b]]
    /\ basks' = [b \in BDefs |-> IF b \in gone THEN {} ELSE basks[b]]
    /\ tdefs' = [d \in TDefs |->
                    IF tdefs[d] # None /\ tdefs[d].from \in gone
                    THEN [tdefs[d] EXCEPT !.from = None] ELSE tdefs[d]]

\* create_baseline_template, whose initial version is active while it is a draft; there is
\* one of each type and level.
CreateBaseline(rules, asks) ==
    /\ baseline = None
    /\ \/ /\ baseline' = [active |-> TRUE, locked |-> FALSE, current |-> BFirst]
          /\ bdefs' = [bdefs EXCEPT ![BFirst] = [draft |-> TRUE, rules |-> rules]]
          /\ basks' = [basks EXCEPT ![BFirst] = asks]
       \/ /\ baseline' = [active |-> TRUE, locked |-> FALSE, current |-> None]
          /\ UNCHANGED <<bdefs, basks>>
    /\ UNCHANGED <<tdefs, request>>

Unlocked == Lives(baseline) /\ ~baseline.locked

\* update_baseline_template, of one column at a time.
HeaderBegin(c, column, to) ==
    /\ Idle(c) /\ Unlocked /\ baseline[column] # to
    /\ column = "current" /\ to # None => Lives(bdefs[to]) /\ ~bdefs[to].draft
    /\ Is(c, [op |-> "header", column |-> column, to |-> to])
    /\ UNCHANGED baselineVars

HeaderCommit(c) ==
    /\ Does(c, "header") /\ Lives(baseline)
    /\ baseline' = [baseline EXCEPT ![request[c].column] = request[c].to]
    /\ baseline'.current # None => Lives(bdefs[baseline'.current])
    /\ Close(c)
    /\ UNCHANGED <<bdefs, basks, tdefs>>

\* delete_baseline_template: all its definitions go, published ones too.
DropBegin(c) ==
    /\ Idle(c) /\ Unlocked
    /\ Is(c, [op |-> "drop"])
    /\ UNCHANGED baselineVars

DropCommit(c) ==
    /\ Does(c, "drop") /\ Lives(baseline)
    /\ baseline' = Deleted
    /\ Without(BDefs)
    /\ Close(c)

\* create_baseline_template_definition, with what is given or a copy of another's questions.
DefineBegin(c, b, rules, asks) ==
    /\ Idle(c) /\ Unlocked
    /\ b # BFirst /\ bdefs[b] = None
    /\ \A d \in Sessions : Does(d, "define") => request[d].id # b
    /\ asks \in {{}, Questions} \cup {basks[s] : s \in {s \in BDefs : Lives(bdefs[s])}}
    /\ Is(c, [op |-> "define", id |-> b, rules |-> rules, asks |-> asks])
    /\ UNCHANGED baselineVars

DefineCommit(c) ==
    /\ Does(c, "define") /\ Lives(baseline)
    /\ LET r == request[c]
       IN  /\ bdefs' = [bdefs EXCEPT ![r.id] = [draft |-> TRUE, rules |-> r.rules]]
           /\ basks' = [basks EXCEPT ![r.id] = r.asks]
    /\ Close(c)
    /\ UNCHANGED <<baseline, tdefs>>

\* What only a draft may have done to it; the first form does not look.
IsDraft_Any(b) == Lives(bdefs[b])
IsDraft(b) == Lives(bdefs[b]) /\ bdefs[b].draft

\* update_baseline_template_definition.
RewriteBegin(c, b, rules) ==
    /\ Idle(c) /\ IsDraft(b)
    /\ Is(c, [op |-> "rewrite", id |-> b, base |-> bdefs[b],
              mine |-> [bdefs[b] EXCEPT !.rules = rules]])
    /\ UNCHANGED baselineVars

RewriteCommit(c) ==
    /\ Does(c, "rewrite")
    /\ LET r == request[c]
       IN  /\ Lives(bdefs[r.id])
           /\ bdefs' = [bdefs EXCEPT ![r.id] = Flush(@, r.base, r.mine)]
    /\ Close(c)
    /\ UNCHANGED <<baseline, basks, tdefs>>

\* delete_baseline_template_definition.
EraseBegin(c, b) ==
    /\ Idle(c) /\ IsDraft(b)
    /\ baseline.current # b
    /\ Is(c, [op |-> "erase", id |-> b])
    /\ UNCHANGED baselineVars

EraseCommit(c) ==
    /\ Does(c, "erase")
    /\ LET b == request[c].id
       IN  /\ Lives(bdefs[b])
           /\ Without({b})
           /\ baseline' = IF baseline.current = b THEN [baseline EXCEPT !.current = None]
                          ELSE baseline
    /\ Close(c)

\* publish_baseline_template_definition.
IssueBegin(c, b, set_as_active) ==
    /\ Idle(c) /\ IsDraft(b)
    /\ Is(c, [op |-> "issue", id |-> b, sets |-> set_as_active /\ baseline.current # b])
    /\ UNCHANGED baselineVars

IssueCommit(c) ==
    /\ Does(c, "issue")
    /\ LET r == request[c]
       IN  /\ Lives(bdefs[r.id])
           /\ bdefs' = [bdefs EXCEPT ![r.id].draft = FALSE]
           /\ baseline' = IF r.sets THEN [baseline EXCEPT !.current = r.id] ELSE baseline
    /\ Close(c)
    /\ UNCHANGED <<basks, tdefs>>

\* add_question_group and add_question; delete_question_group and delete_question.
AskBegin(c, b, asks, adds) ==
    /\ Idle(c) /\ IsDraft(b)
    /\ IF adds THEN asks \cap basks[b] = {} ELSE asks \subseteq basks[b]
    /\ Is(c, [op |-> "ask", id |-> b, asks |-> asks, adds |-> adds])
    /\ UNCHANGED baselineVars

AskCommit(c) ==
    /\ Does(c, "ask")
    /\ LET r == request[c]
       IN  /\ Lives(bdefs[r.id])
           /\ basks' = [basks EXCEPT ![r.id] = IF r.adds THEN @ \cup r.asks ELSE @ \ r.asks]
    /\ Close(c)
    /\ UNCHANGED <<baseline, bdefs, tdefs>>

-----------------------------------------------------------------------------
(* The side of the tenants.                                                *)

\* _get_active_baseline_definition, whatever the state of what is active.
ActiveBaseline ==
    IF Lives(baseline) /\ baseline.active THEN baseline.current ELSE None

\* create_tenant_template and create_tenant_template_definition copy its questions, which
\* are locked, and remember where they are from.
CopyBegin(c, d, own) ==
    /\ Idle(c) /\ tdefs[d] = None
    /\ \A s \in Sessions : Does(s, "copy") => request[s].id # d
    /\ ActiveBaseline # None
    /\ Is(c, [op |-> "copy", id |-> d,
              row |-> [draft |-> TRUE, from |-> ActiveBaseline, locked |-> basks[ActiveBaseline],
                       rules |-> own]])
    /\ UNCHANGED baselineVars

CopyCommit(c) ==
    /\ Does(c, "copy")
    /\ LET r == request[c]
       IN  /\ Lives(bdefs[r.row.from])
           /\ tdefs' = [tdefs EXCEPT ![r.id] = r.row]
    /\ Close(c)
    /\ UNCHANGED <<baseline, bdefs, basks>>

\* update_tenant_template_definition, of its rules to others.
AdaptBegin(c, d, own) ==
    /\ Idle(c) /\ tdefs[d] # None /\ tdefs[d].draft /\ own # tdefs[d].rules
    /\ Is(c, [op |-> "adapt", id |-> d, base |-> tdefs[d],
              mine |-> [tdefs[d] EXCEPT !.rules = own]])
    /\ UNCHANGED baselineVars

AdaptCommit(c) ==
    /\ Does(c, "adapt")
    /\ LET r == request[c]
       IN  /\ tdefs[r.id] # None
           /\ tdefs' = [tdefs EXCEPT ![r.id] = Flush(@, r.base, r.mine)]
    /\ Close(c)
    /\ UNCHANGED <<baseline, bdefs, basks>>

\* publish_tenant_template_definition, of one that was approved.
PublishCopy(d) ==
    /\ tdefs[d] # None /\ tdefs[d].draft
    /\ tdefs' = [tdefs EXCEPT ![d].draft = FALSE]
    /\ UNCHANGED <<baseline, bdefs, basks, request>>

\* _deep_merge: what override says of a path holds, and of all that is under it or above it.
DeepMerge(base, override) ==
    override @@ [p \in {p \in DOMAIN base :
                           \A q \in DOMAIN override : ~IsPrefix(p, q) /\ ~IsPrefix(q, p)}
                    |-> base[p]]

\* get_tenant_template_definition_with_config: the rules of the baseline are read when they
\* are asked for.
RulesConfig(d) ==
    DeepMerge(IF tdefs[d].from = None THEN <<>> ELSE bdefs[tdefs[d].from].rules, tdefs[d].rules)

BaselineNext ==
    \/ \E rules \in Configs, asks \in {{}, Questions} : CreateBaseline(rules, asks)
    \/ \E c \in Sessions :
           \/ \E to \in BOOLEAN, column \in {"active", "locked"} : HeaderBegin(c, column, to)
           \/ \E b \in BDefs \cup {None} : HeaderBegin(c, "current", b)
           \/ HeaderCommit(c) \/ DropBegin(c) \/ DropCommit(c)
           \/ \E b \in BDefs :
                  \/ \E rules \in Configs, asks \in SUBSET Questions : DefineBegin(c, b, rules, asks)
                  \/ \E rules \in Configs : RewriteBegin(c, b, rules)
                  \/ EraseBegin(c, b)
                  \/ \E set_as_active \in BOOLEAN : IssueBegin(c, b, set_as_active)
                  \/ \E asks \in (SUBSET Questions) \ {{}}, adds \in BOOLEAN : AskBegin(c, b, asks, adds)
           \/ DefineCommit(c) \/ RewriteCommit(c) \/ EraseCommit(c) \/ IssueCommit(c) \/ AskCommit(c)
           \/ \E d \in TDefs, own \in OwnConfigs : CopyBegin(c, d, own) \/ AdaptBegin(c, d, own)
           \/ CopyCommit(c) \/ AdaptCommit(c)
    \/ \E d \in TDefs : PublishCopy(d)

\* What began when the row was a draft is written to it.
EditOf(op, id) ==
    \E c \in Sessions : /\ Does(c, op) /\ Idle(c)'
                        /\ request[c].id = id /\ request[c].base.draft

\* The rules a published definition of a tenant is run by, its own over those of the
\* baseline, stay what they are; unless the definition it was copied from goes, or an edit
\* of the one or the other, begun while that was a draft, is committed only now
\* (get_tenant_template_definition_with_config, update_tenant_template_definition,
\* update_baseline_template_definition).
PublishedRulesStay ==
    [][\A d \in TDefs :
           /\ tdefs[d] # None /\ ~tdefs[d].draft
           /\ RulesConfig(d)' # RulesConfig(d)
           => \/ EditOf("adapt", d)
              \/ bdefs'[tdefs[d].from] = Deleted
              \/ EditOf("rewrite", tdefs[d].from)]_baselineVars
=============================================================================
