------------------------ MODULE MCSubmissionWorkflow ------------------------
(***************************************************************************)
(* A tenant with a maker, a user who is both maker and checker, and a      *)
(* platform super admin; two template versions, the first one active, and  *)
(* two contents a form can have.                                           *)
(***************************************************************************)
EXTENDS SubmissionWorkflow, TLC

MCRoles == [ana |-> {"maker"}, ben |-> {"maker", "checker"}, root |-> {}]
MCUsers == DOMAIN MCRoles
MCSuperAdmins == {"root"}
MCVersions == {"v1", "v2"}
MCActiveVersions == {"v1"}
MCForms == {"f1", "f2"}
MCRuleSets == {[source |-> "v1", target |-> "v2"]}

\* Requests differ in nothing but their name.
SessionSymmetry == Permutations(Sessions)
=============================================================================
