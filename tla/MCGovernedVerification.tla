------------------------ MODULE MCGovernedVerification ------------------------
(***************************************************************************)
(* The request path over a breaker with two mechanisms and a window of     *)
(* two: a first fault trips, so do two in a row, one in two does not.      *)
(***************************************************************************)
EXTENDS GovernedVerification

TwoMechanisms == <<"primary", "conservative">>

Strong == [id |-> 1, score |-> 80, provenance |-> "governed_corpus"]

GoodAsk == [standing |-> "ratified", allowed |-> TRUE, evidence |-> <<Strong>>]

MCAsk == {GoodAsk}

MCMechanism == {"authorization", "evidence-gate", "contract-resolution",
                "resilient(primary)", "primary", "conservative"}

\* A response that grounds, and one that parses to a refusal.
MCResponse ==
  [mechanism : {"primary", "conservative"},
   claims : {<<[verdict |-> v, text |-> "words", evidence_ref |-> None,
                limits |-> FALSE]>> : v \in {"SUPPORTED", "other"}},
   answers_question : {"true"}, truncated : {FALSE}]

===============================================================================
