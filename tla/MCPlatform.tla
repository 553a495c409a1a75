------------------------------- MODULE MCPlatform -------------------------------
(***************************************************************************)
(* One key that tenants can have one after the other, a baseline with a    *)
(* second definition, and two products over one template.                  *)
(***************************************************************************)
EXTENDS Platform

MCBootstrapUsers == <<<<"u", {"maker"}>>>>
MCRoleSets == {{"maker"}, {"maker", "checker"}}

\* What a tenant sets is beside the one path and under the other.
MCConfigs == {<<"steps">> :> "all", <<"steps", "kyc">> :> "once"}
MCOwnConfigs == {<<"steps", "aml">> :> "twice", <<>>}

\* The parts share nothing but the sessions: each is followed on its own, with the others as
\* they begin.
Busy(ops) == \E c \in Sessions : ~Idle(c) /\ request[c].op \in ops
TenantsQuiet == TenantsInit /\ ~Busy({"create", "remove", "user", "deploy"})
BaselineQuiet ==
    BaselineInit /\ ~Busy({"header", "drop", "define", "rewrite", "erase", "issue", "ask", "copy",
                            "adapt"})
ProductsQuiet == ProductsInit /\ ~Busy({"offer", "write", "delete"})

MCNext ==
    \/ BaselineQuiet /\ ProductsQuiet /\ TenantsNext /\ UNCHANGED <<baselineVars, productVars>>
    \/ TenantsQuiet /\ ProductsQuiet /\ BaselineNext /\ UNCHANGED <<tenantVars, productVars>>
    \/ TenantsQuiet /\ BaselineQuiet /\ ProductsNext /\ UNCHANGED <<tenantVars, baselineVars>>
    \/ \E c \in Sessions : GivesUp(c)

MCSpec == Init /\ [][MCNext]_vars

\* A baseline that is neither active nor unlocked is not followed.
BaselineInUse == Lives(baseline) => baseline.active \/ ~baseline.locked

\* Nor are the questions of baselines, which rules do not look at, once they were copied.
QuestionsAside == (\E d \in TDefs : tdefs[d] # None) => \A b \in BDefs : basks[b] = {}

Symmetry == UNION {Permutations(S) : S \in {Sessions, TenantIds, ProductIds, Templates}}
=============================================================================
