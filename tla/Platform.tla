-------------------------------- MODULE Platform --------------------------------
(***************************************************************************)
(* What is set up before anyone is onboarded: tenants, the baseline their  *)
(* templates are copied from, and the products that need a template.       *)
(***************************************************************************)
EXTENDS Tenants, Baselines, Products

vars == <<request, tenantVars, baselineVars, productVars>>

TypeOK == TenantsTypeOK /\ BaselineTypeOK /\ ProductsTypeOK

Init ==
    /\ request = [c \in Sessions |-> None]
    /\ TenantsInit /\ BaselineInit /\ ProductsInit

\* A request whose commit the database refuses, or that is cut off, leaves nothing.
GivesUp(c) ==
    /\ ~Idle(c) /\ request[c].op \notin {"create", "remove", "user", "deploy"}
    /\ Close(c)
    /\ UNCHANGED <<tenantVars, baselineVars, productVars>>

Next ==
    \/ TenantsNext /\ UNCHANGED <<baselineVars, productVars>>
    \/ BaselineNext /\ UNCHANGED <<tenantVars, productVars>>
    \/ ProductsNext /\ UNCHANGED <<tenantVars, baselineVars>>
    \/ \E c \in Sessions : GivesUp(c)

Spec == Init /\ [][Next]_vars
=============================================================================
