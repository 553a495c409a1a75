------------------------ MODULE MCVerificationWorkflow -----------------------
(***************************************************************************)
(* The flow of the demo, as in MCVerificationRuntime.                      *)
(***************************************************************************)
EXTENDS VerificationWorkflow, TLC

MCOrder == <<"otp", "match">>
MCKind == [otp |-> "challenge_response", match |-> "comparison"]
MCDependsOn == [otp |-> {}, match |-> {"otp"}]
MCChallengeable == [k \in {"otp", "match"} |-> [passed \in SUBSET {"otp", "match"} |-> TRUE]]
MCCompared == [k \in {"otp", "match"} |->
                 [passed \in SUBSET {"otp", "match"} |->
                    IF "otp" \in passed THEN "pass" ELSE "fail"]]
MCMaxAttempts == [otp |-> 2, match |-> 1]
MCRules == <<[all |-> {<<"otp", "pass">>, <<"match", "pass">>}, decision |-> "approved"],
             [all |-> {<<"otp", "fail">>}, decision |-> "rejected"]>>

\* What matters of a state: a client that has only its workflow left to call on
\* makes no more use of the run it read, and nothing here asks for overtaken.
Relevant ==
    LET calling == {c \in Clients : request[c] # None
                                     /\ request[c].at \in {"list", "action", "signal"}}
    IN  <<runs, steps, summary, disturbed, workflow, workflow_id, knows, due,
          [c \in Sessions |-> IF c \in calling THEN [request[c] EXCEPT !.base = None]
                              ELSE request[c]]>>

\* Clients differ in nothing but their name.
ClientSymmetry == Permutations(Clients)
=============================================================================
