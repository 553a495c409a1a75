-------------------------------- MODULE Access --------------------------------
(***************************************************************************)
(* A worker process lets requests in by what it remembers: realms, keys    *)
(* and policies, which change meanwhile.                                   *)
(***************************************************************************)
EXTENDS TokenKeys, PolicyCache, RealmLogin

vars == <<clock, request, keyVars, policyVars, realmVars>>

TypeOK == KeysTypeOK /\ PoliciesTypeOK /\ RealmsTypeOK

Init ==
    /\ clock = 0
    /\ request = [c \in Sessions |-> None]
    /\ KeysInit /\ PoliciesInit /\ RealmsInit

Next ==
    \/ Tick /\ UNCHANGED <<request, keyVars, policyVars, realmVars>>
    \/ KeysNext /\ UNCHANGED <<clock, policyVars, realmVars>>
    \/ PoliciesNext /\ UNCHANGED <<clock, keyVars, realmVars>>
    \/ RealmsNext /\ UNCHANGED <<clock, keyVars, policyVars>>

Spec == Init /\ [][Next]_vars
=============================================================================
