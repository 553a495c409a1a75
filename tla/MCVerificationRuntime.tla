------------------------ MODULE MCVerificationRuntime ------------------------
(***************************************************************************)
(* The flow of the demo: a phone OTP, and a comparison that needs what the *)
(* OTP step puts out.  It passes if it gets it.  One wrong code ends the   *)
(* OTP step here; MCVerificationWorkflow has the retries.                  *)
(***************************************************************************)
EXTENDS VerificationRuntime, TLC

MCOrder == <<"otp", "match">>
MCKind == [otp |-> "challenge_response", match |-> "comparison"]
MCDependsOn == [otp |-> {}, match |-> {"otp"}]
MCChallengeable == [k \in {"otp", "match"} |-> [passed \in SUBSET {"otp", "match"} |-> TRUE]]
MCCompared == [k \in {"otp", "match"} |->
                 [passed \in SUBSET {"otp", "match"} |->
                    IF "otp" \in passed THEN "pass" ELSE "fail"]]
MCMaxAttempts == [otp |-> 1, match |-> 1]
MCRules == <<[all |-> {<<"otp", "pass">>, <<"match", "pass">>}, decision |-> "approved"],
             [all |-> {<<"otp", "fail">>}, decision |-> "rejected"]>>

\* Requests differ in nothing but their name.
SessionSymmetry == Permutations(Sessions)
=============================================================================
