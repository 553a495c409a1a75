------------------------ MODULE MCTransformMigration ------------------------
(***************************************************************************)
(* The first version asks nothing, as it must for a rule set from it to be *)
(* published; two later ones ask one question each, which is required.     *)
(***************************************************************************)
EXTENDS TransformMigration

Asks(key) ==
    [key |-> key, field_type |-> "text", required |-> TRUE, depends_on |-> None,
     visible_when |-> None, options |-> <<>>, regex |-> None, min_date |-> None,
     max_date |-> None, renamed_from |-> None]
MCQuestionsOf == "v1" :> <<>> @@ "v2" :> <<Asks("q")>> @@ "v3" :> <<Asks("q")>>

MCRuleSets == {[source |-> "v1", target |-> "v2"], [source |-> "v1", target |-> "v3"]}

MCComputed == "int" :> (<<"42">> :> <<"42">>)
MCNothing == <<>>

\* An answer for everybody, and an expression that the trial with samples lets through
\* and the sandbox does not: the samples come by a name that it has not got.
ForAll == Rule(None, "q", "default_value", [value |-> <<"yes">>])
Failing == [Rule(None, "q", "compute", [expr |-> [name |-> "int", reads |-> "value"]])
            EXCEPT !.is_required = TRUE]
MCNewRules == {ForAll, Failing}

\* One rule set has been published already, so the one left is written next to it.
MCPublished == 1 :> [set |-> [source |-> "v1", target |-> "v3"], rule |-> ForAll]

MCForms == {<<>>, "q" :> [type |-> "text", value |-> <<"yes">>]}

Symmetry == Permutations(Sessions)
=============================================================================
