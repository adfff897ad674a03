--------------------------- MODULE DecisionFunction ---------------------------
(***************************************************************************)
(* The decision function: verification/decision_function.py and the parser *)
(* and result type it rests on (verification/models.py, domain/models.py). *)
(*                                                                         *)
(* decide() is pure: it maps one verifier response to one decision.  Texts *)
(* are abstracted to what the code tells apart; the guards keep the order  *)
(* in which the code evaluates them.                                       *)
(***************************************************************************)
EXTENDS Naturals, Sequences, FiniteSets

CONSTANT Mechanism          \* names a verifier may put on its response

None == "none"              \* Python's None in an optional field

ClaimVerdict == {"SUPPORTED", "UNSUPPORTED", "CONTRADICTED"}
DecisionOutcome == {"GROUNDED", "REFUSED"}
ResponseStrategy == {"DIRECT", "BOUNDED"}

\* domain/enums.py groups the codes by origin, and so do these sets.
JudgementCode == {"unsupported_claim", "no_supported_claims",
                  "does_not_address_question", "empty_claim_set"}
ParseCode == {"missing_claim_verdict", "unknown_claim_verdict",
              "malformed_verifier_output"}
FaultCode == {"verifier_error", "verifier_timeout", "no_verifier_available"}
GateCode == {"insufficient_evidence", "authorization_denied",
             "evidence_provenance_invalid", "contract_version_unknown",
             "contract_not_ratified", "contract_unresolved"}
LifecycleCode == {"review.accepted", "review.rejected", "supersession.replaced"}
ReasonCode == JudgementCode \cup ParseCode \cup FaultCode \cup GateCode
                \cup LifecycleCode \cup {"verifier_output_truncated"}

-------------------------------------------------------------------------------
(***************************************************************************)
(* A raw claim is a mapping the verifier emitted.                          *)
(*   verdict       "absent" is a missing, None or "" verdict; "other" is   *)
(*                 any value outside the controlled vocabulary             *)
(*   text          "absent" is a missing or "" text, "null" a None text    *)
(*   evidence_ref  "junk" is a value that is neither None nor a string     *)
(*   limits        the truth value of states_scope_limitation              *)
(***************************************************************************)
RawClaim == [verdict : ClaimVerdict \cup {"absent", "other"},
             text : {"absent", "null", "words"},
             evidence_ref : {None, "ref", "junk"},
             limits : BOOLEAN]

Claim == [verdict : ClaimVerdict, text : {"None", "words"},
          evidence_ref : {None, "ref"}, limits : BOOLEAN]

VerifierResponse == [mechanism : Mechanism, claims : Seq(RawClaim),
                     answers_question : {None, "true", "false"},
                     truncated : BOOLEAN]

\* ClaimCounts keeps "never measured" apart from "measured, and zero".
ClaimCounts == [measured : BOOLEAN, total : Nat, supported : Nat,
                unsupported : Nat, contradicted : Nat]

not_measured == [measured |-> FALSE, total |-> 0, supported |-> 0,
                 unsupported |-> 0, contradicted |-> 0]

VerdictCount(claims, verdict) ==
  Cardinality({i \in DOMAIN claims : claims[i].verdict = verdict})

from_claims(claims) ==
  [measured |-> TRUE, total |-> Len(claims),
   supported |-> VerdictCount(claims, "SUPPORTED"),
   unsupported |-> VerdictCount(claims, "UNSUPPORTED"),
   contradicted |-> VerdictCount(claims, "CONTRADICTED")]

-------------------------------------------------------------------------------
(***************************************************************************)
(* Parsing.  str(raw.get("text", "")) turns None into the four letters     *)
(* "None", which is not empty.                                             *)
(***************************************************************************)
StrOfText(text) ==
  CASE text = "absent" -> ""
    [] text = "null" -> "None"
    [] OTHER -> text

\* The validators of Claim: a text, a string or None as evidence_ref, and no
\* evidence cited for a claim that is not SUPPORTED.
ClaimIsValid(raw) ==
  /\ StrOfText(raw.text) # ""
  /\ raw.evidence_ref # "junk"
  /\ raw.verdict # "SUPPORTED" => raw.evidence_ref = None

ClaimDefect(raw) ==
  CASE raw.verdict = "absent" -> "missing_claim_verdict"
    [] raw.verdict = "other" -> "unknown_claim_verdict"
    [] raw.verdict \in ClaimVerdict /\ ~ClaimIsValid(raw)
         -> "malformed_verifier_output"
    [] OTHER -> None

Defective(claims) == {i \in DOMAIN claims : ClaimDefect(claims[i]) # None}

\* Parsing stops at the first defective claim, whose defect is the reason.
ParseFailure(claims) ==
  LET bad == Defective(claims)
      first == CHOOSE i \in bad : \A j \in bad : i <= j
  IN  IF bad = {} THEN None ELSE ClaimDefect(claims[first])

parse_claims(claims) ==
  [i \in DOMAIN claims |-> [claims[i] EXCEPT !.text = StrOfText(claims[i].text)]]

-------------------------------------------------------------------------------
(***************************************************************************)
(* The two constructors of VerificationDecision, and decide().             *)
(***************************************************************************)
Refuse(reason, mechanism, claims, counts) ==
  [outcome |-> "REFUSED", strategy |-> None, reason_code |-> reason,
   mechanism |-> mechanism, claims |-> claims, claim_counts |-> counts]

Ground(strategy, mechanism, claims) ==
  [outcome |-> "GROUNDED", strategy |-> strategy, reason_code |-> None,
   mechanism |-> mechanism, claims |-> claims,
   claim_counts |-> from_claims(claims)]

\* Slip: only the last claim is asked whether it limits the answer's scope.
SelectStrategyLast(claims) ==
  IF claims[Len(claims)].limits THEN "BOUNDED" ELSE "DIRECT"

SelectStrategy(claims) ==
  IF \E i \in DOMAIN claims : claims[i].limits THEN "BOUNDED" ELSE "DIRECT"

\* Slip: only the last claim can be a rejected one.
ClaimsFailureLastOnly(claims) ==
  IF claims = <<>> THEN "empty_claim_set"
  ELSE IF claims[Len(claims)].verdict # "SUPPORTED" THEN "unsupported_claim"
  ELSE None

\* Guards 3 to 5, in the contract's order: ET-VER-001, 005, 004.
ClaimsFailure(claims) ==
  LET supported == {i \in DOMAIN claims : claims[i].verdict = "SUPPORTED"}
  IN  IF claims = <<>> THEN "empty_claim_set"
      ELSE IF supported = {} THEN "no_supported_claims"
      ELSE IF supported # DOMAIN claims THEN "unsupported_claim"
      ELSE None

\* Slip: an omitted answers_question is an implied yes.
RelevanceFailureImpliedYes(answers_question) ==
  IF answers_question = "false" THEN "does_not_address_question" ELSE None

\* Guard 6: ET-VER-008 for an omitted field, ET-VER-006 for a "no".
RelevanceFailure(answers_question) ==
  CASE answers_question = None -> "malformed_verifier_output"
    [] answers_question = "false" -> "does_not_address_question"
    [] OTHER -> None

decide(response) ==
  LET claims == parse_claims(response.claims)
      unparsed(code) == Refuse(code, response.mechanism, <<>>, not_measured)
      refuse(code) == Refuse(code, response.mechanism, claims, from_claims(claims))
  IN  IF response.truncated
        THEN unparsed("verifier_output_truncated")
      ELSE IF ParseFailure(response.claims) # None
        THEN unparsed(ParseFailure(response.claims))
      ELSE IF ClaimsFailure(claims) # None
        THEN refuse(ClaimsFailure(claims))
      ELSE IF RelevanceFailure(response.answers_question) # None
        THEN refuse(RelevanceFailure(response.answers_question))
      ELSE Ground(SelectStrategy(claims), response.mechanism, claims)

===============================================================================
