--------------------------- MODULE MCTemplateReview ---------------------------
(***************************************************************************)
(* A tenant's admin and a super admin.  Questions and groups are the cfg's *)
(* choice: a locked question of the baseline in a group ("name") and one   *)
(* of the tenant's own ("income").                                         *)
(***************************************************************************)
EXTENDS TemplateReview, TLC

BaselineGroup == {{"name", "income"}}
OwnGroup == {{"income"}}

FirstToOther == {<<First, d>> : d \in Definitions \ {First}}

\* A rule set that was asked for is followed while more reviews can come.
AskedForInTime == (\E p \in rule_sets : p.by = "request") => RoomForReview

\* Requests differ in nothing but their names, nor do contents of rules_config.
Symmetry == Permutations(Sessions) \cup Permutations(Configs)
=============================================================================
