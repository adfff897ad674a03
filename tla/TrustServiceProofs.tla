-------------------------- MODULE TrustServiceProofs --------------------------
(***************************************************************************)
(* Theorems about TrustService, for any requests, gates, thresholds and    *)
(* verifier answers.                                                       *)
(*                                                                         *)
(* First what the decision function returns, as a decision.  Then the      *)
(* steps of the call in progress, sorted by their effect: it moves on, is  *)
(* finalized, is left by an exception, or is stored, captured and          *)
(* returned.  The invariants are argued about the effects.                 *)
(***************************************************************************)
EXTENDS TrustService, DecisionProofs

-------------------------------------------------------------------------------
(***************************************************************************)
(* The decision function.                                                  *)
(***************************************************************************)
\* Exactly a grounding has a strategy, and exactly a refusal a reason.
Related(d) ==
  IF d.outcome = "GROUNDED" THEN d.strategy # None /\ d.reason_code = None
                            ELSE d.strategy = None /\ d.reason_code # None

LEMMA RefuseTyped ==
  ASSUME NEW code \in ReasonCode, NEW mechanism \in Mechanism,
         NEW claims \in Seq(Claim), NEW counts \in ClaimCounts
  PROVE  /\ Refuse(code, mechanism, claims, counts) \in Decision
         /\ Related(Refuse(code, mechanism, claims, counts))
         /\ Refuse(code, mechanism, claims, counts).outcome = "REFUSED"
         /\ Refuse(code, mechanism, claims, counts).mechanism = mechanism
         /\ Refuse(code, mechanism, claims, counts).claim_counts = counts
<1>1. None \notin ReasonCode
  BY DEF None, ReasonCode, JudgementCode, ParseCode, FaultCode, GateCode, LifecycleCode
<1> QED
  BY <1>1 DEF Refuse, Decision, Related, DecisionOutcome

LEMMA UnmeasuredTyped == not_measured \in ClaimCounts /\ <<>> \in Seq(Claim)
BY DEF not_measured, ClaimCounts

\* decide() is total, obeys the outcome relation, signs with the mechanism that
\* responded, and grounds nothing but what may ground.
THEOREM DecideIsSound ==
  ASSUME NEW response \in VerifierResponse
  PROVE  /\ decide(response) \in Decision
         /\ Related(decide(response))
         /\ decide(response).mechanism = response.mechanism
         /\ decide(response).outcome = "GROUNDED" => Grounds(response)
<1> DEFINE claims == parse_claims(response.claims)
<1>0. /\ response.mechanism \in Mechanism /\ response.claims \in Seq(RawClaim)
      /\ response.answers_question \in {None, "true", "false"}
      /\ response.truncated \in BOOLEAN
  BY DEF VerifierResponse
<1>1. ASSUME NEW code \in ReasonCode,
             decide(response) = Refuse(code, response.mechanism, <<>>, not_measured)
      PROVE  /\ decide(response) \in Decision /\ Related(decide(response))
             /\ decide(response).mechanism = response.mechanism
             /\ decide(response).outcome = "REFUSED"
  <2>1. PICK empty \in Seq(Claim) : empty = <<>>
    BY UnmeasuredTyped
  <2>2. PICK counts \in ClaimCounts : counts = not_measured
    BY UnmeasuredTyped
  <2>3. decide(response) = Refuse(code, response.mechanism, empty, counts)
    BY <1>1, <2>1, <2>2
  <2> QED
    BY <1>0, <2>3, RefuseTyped
<1>2. CASE response.truncated
  <2>1. decide(response)
          = Refuse("verifier_output_truncated", response.mechanism, <<>>, not_measured)
    BY <1>2 DEF decide
  <2> QED
    BY <1>1, <2>1 DEF ReasonCode
<1>3. CASE ~response.truncated /\ ParseFailure(response.claims) # None
  <2>1. decide(response)
          = Refuse(ParseFailure(response.claims), response.mechanism, <<>>, not_measured)
    BY <1>3 DEF decide
  <2>2. ParseFailure(response.claims) \in ReasonCode
    BY <1>0, <1>3, ParserAnswers DEF ReasonCode
  <2> QED
    BY <1>1, <2>1, <2>2
<1>4. CASE ~response.truncated /\ ParseFailure(response.claims) = None
  <2>1. claims \in Seq(Claim) /\ from_claims(claims) \in ClaimCounts
    BY <1>0, <1>4, ParserAnswers, CountsTyped
  <2>2. ASSUME NEW code \in ReasonCode,
               decide(response) = Refuse(code, response.mechanism, claims, from_claims(claims))
        PROVE  /\ decide(response) \in Decision /\ Related(decide(response))
               /\ decide(response).mechanism = response.mechanism
               /\ decide(response).outcome = "REFUSED"
    BY <1>0, <2>1, <2>2, RefuseTyped
  <2>3. CASE ClaimsFailure(claims) # None
    <3>1. decide(response)
            = Refuse(ClaimsFailure(claims), response.mechanism, claims, from_claims(claims))
      BY <1>4, <2>3 DEF decide
    <3>2. ClaimsFailure(claims) \in ReasonCode
      BY <2>3 DEF ClaimsFailure, ReasonCode, JudgementCode
    <3> QED
      BY <2>2, <3>1, <3>2
  <2>4. CASE ClaimsFailure(claims) = None
               /\ RelevanceFailure(response.answers_question) # None
    <3>1. decide(response) = Refuse(RelevanceFailure(response.answers_question),
                                    response.mechanism, claims, from_claims(claims))
      BY <1>4, <2>4 DEF decide
    <3>2. RelevanceFailure(response.answers_question) \in ReasonCode
      BY <2>4 DEF RelevanceFailure, ReasonCode, JudgementCode, ParseCode
    <3> QED
      BY <2>2, <3>1, <3>2
  <2>5. CASE ClaimsFailure(claims) = None
               /\ RelevanceFailure(response.answers_question) = None
    <3>1. decide(response) = Ground(SelectStrategy(claims), response.mechanism, claims)
      BY <1>4, <2>5 DEF decide
    <3>2. SelectStrategy(claims) \in ResponseStrategy /\ None \notin ResponseStrategy
      BY DEF SelectStrategy, ResponseStrategy, None
    <3>3. decide(response) \in Decision /\ Related(decide(response))
          /\ decide(response).mechanism = response.mechanism
      BY <1>0, <2>1, <3>1, <3>2 DEF Ground, Decision, Related, DecisionOutcome
    <3>4. response.answers_question = "true"
      BY <1>0, <2>5 DEF RelevanceFailure, None
    <3>5. /\ claims # <<>>
          /\ {i \in DOMAIN claims : claims[i].verdict = "SUPPORTED"} = DOMAIN claims
      BY <2>5 DEF ClaimsFailure, None
    <3>6. /\ DOMAIN claims = DOMAIN response.claims
          /\ \A i \in DOMAIN claims : claims[i].verdict = response.claims[i].verdict
      BY <1>0 DEF parse_claims, RawClaim
    <3>7. response.claims # <<>>
      BY <2>1, <3>5, <3>6
    <3> QED
      BY <1>4, <3>3, <3>4, <3>5, <3>6, <3>7 DEF Grounds
  <2> QED
    BY <2>3, <2>4, <2>5
<1> QED
  BY <1>0, <1>2, <1>3, <1>4

-------------------------------------------------------------------------------
(***************************************************************************)
(* The steps of a call, by their effect.                                   *)
(***************************************************************************)
Early == {"resolve", "authorize", "provenance", "gate", "generate", "verify"}
Final == {"finalize", "capture", "return"}

\* How far the gates have let a request.
Passed(ask, stage) ==
  /\ stage \in {"authorize", "provenance", "gate", "generate", "verify"}
       => ask.standing = "ratified"
  /\ stage \in {"provenance", "gate", "generate", "verify"} => ask.allowed
  /\ stage \in {"gate", "generate", "verify"} => check_provenance(ask.evidence)
  /\ stage \in {"generate", "verify"} => evaluate_gate(ask.evidence) = "sufficient"

\* What _finalize() is called with, and what stands behind it.
DraftIsSound(d) ==
  /\ d \in Draft
  /\ Related(d.decision)
  /\ d.authorization = "DENIED" =>
       /\ d.decision.outcome = "REFUSED"
       /\ d.evidence_count = 0
       /\ ~d.decision.claim_counts.measured

\* The answer behind a grounding, in a history: given by a mechanism, to the
\* attempt of that number at a request.
Behind(history, request, number, mechanism) ==
  \E s \in history : /\ s.act = "judged"
                     /\ s.by = [request |-> request, number |-> number]
                     /\ s.given.mechanism = mechanism
                     /\ Grounds(s.given)

Moves ==
  /\ pc \in Early /\ pc' \in Early
  /\ pc = "resolve" => pc' = "authorize"
  /\ pc = "authorize" => pc' = "provenance"
  /\ pc = "provenance" => pc' = "gate"
  /\ pc = "gate" => pc' = "generate"
  /\ pc = "generate" => pc' = "verify"
  /\ pc # "verify"
  /\ Passed(frame.ask, pc) => Passed(frame.ask, pc')
  /\ seen' = IF pc = "generate" THEN seen \cup {Generated} ELSE seen
  /\ UNCHANGED <<frame, draft, stores, callers>>

Finalizes ==
  /\ pc \in Early /\ pc' = "finalize"
  /\ DraftIsSound(draft')
  /\ draft'.generation_invoked <=> pc = "verify"
  /\ pc # "verify" => ~Governable(frame.ask)
  /\ draft'.captured = FALSE
  /\ \/ UNCHANGED seen /\ draft'.decision.outcome = "REFUSED"
     \/ \E response \in VerifierResponse :
          /\ pc = "verify"
          /\ seen' = seen \cup {Judged(response)}
          /\ draft'.decision.mechanism = response.mechanism
          /\ draft'.decision.outcome = "GROUNDED" => Grounds(response)
  /\ UNCHANGED <<frame, stores, callers>>

Leaves ==
  /\ pc \in Early \cup {"finalize"}
  /\ \E status \in Raised : Escape(status)
  /\ ids' \in {ids, [ids EXCEPT !.dec = @ + 1]}
  /\ UNCHANGED <<records, events, failures, seen>>

LEMMA GateAnswers == \A items : evaluate_gate(items) \in Quality
BY DEF evaluate_gate, Quality

\* While a call is in progress, its request and its locals are there.
LEMMA CallInProgress ==
  ASSUME TypeOK, pc # "idle"
  PROVE  /\ frame.request \in Request
         /\ frame.ask \in Ask
         /\ frame.ask.evidence \in EvidenceSet
         /\ pc \in Final => draft \in Draft
  BY ServiceAssumption DEF TypeOK, AskType, Stage, Final

\* A refusal that is not the verifier's.
LEMMA RefusalIsSound ==
  ASSUME NEW code \in ReasonCode, NEW mechanism \in Mechanism
  PROVE  /\ Refusal(code, mechanism) \in Decision
         /\ Related(Refusal(code, mechanism))
         /\ Refusal(code, mechanism).outcome = "REFUSED"
         /\ ~Refusal(code, mechanism).claim_counts.measured
<1>1. PICK empty \in Seq(Claim) : empty = <<>>
  BY UnmeasuredTyped
<1>2. PICK counts \in ClaimCounts : counts = not_measured
  BY UnmeasuredTyped
<1>3. Refusal(code, mechanism) = Refuse(code, mechanism, empty, counts)
  BY <1>1, <1>2 DEF Refusal
<1>4. ~counts.measured
  BY <1>2 DEF not_measured
<1> QED
  BY <1>3, <1>4, RefuseTyped

\* The arguments fix the draft.
LEMMA FinalizeDrafts ==
  ASSUME NEW decision \in Decision, NEW authorization \in {"ALLOWED", "DENIED"},
         NEW n \in Nat, NEW quality \in Quality, NEW invoked \in BOOLEAN,
         Finalize(decision, authorization, n, quality, invoked), Related(decision),
         authorization = "DENIED" =>
           decision.outcome = "REFUSED" /\ n = 0 /\ ~decision.claim_counts.measured
  PROVE  /\ pc' = "finalize" /\ UNCHANGED <<frame, stores, callers>>
         /\ DraftIsSound(draft')
         /\ draft'.decision = decision
         /\ draft'.generation_invoked = invoked
         /\ draft'.captured = FALSE
BY DEF Finalize, DraftIsSound, Draft

\* Before generation, every step moves the call on or refuses it.
LEMMA GateStep ==
  ASSUME TypeOK,
         \/ ResolveContract \/ RefuseWithoutContract \/ Authorize \/ RefuseDenied
         \/ CheckProvenance \/ RefuseProvenance \/ EvaluateGate \/ RefuseInsufficient
  PROVE  Moves \/ Finalizes
<1>0. /\ {"authorization", "evidence-gate", "contract-resolution"} \subseteq Mechanism
      /\ {"contract_version_unknown", "contract_not_ratified", "authorization_denied",
          "evidence_provenance_invalid", "insufficient_evidence"} \subseteq ReasonCode
      /\ None \in Quality /\ 0 \in Nat
  BY ServiceAssumption DEF ReasonCode, GateCode, Quality
<1>1. CASE ResolveContract
  BY <1>1 DEF ResolveContract, Proceed, Moves, Early, Passed
<1>2. CASE Authorize
  BY <1>2 DEF Authorize, Proceed, Moves, Early, Passed
<1>3. CASE CheckProvenance
  BY <1>3 DEF CheckProvenance, Proceed, Moves, Early, Passed
<1>4. CASE EvaluateGate
  BY <1>4 DEF EvaluateGate, Proceed, Moves, Early, Passed
<1>5. ASSUME NEW code \in ReasonCode, NEW mechanism \in Mechanism,
             NEW authorization \in {"ALLOWED", "DENIED"}, NEW n \in Nat,
             NEW quality \in Quality, pc \in Early \ {"verify"}, UNCHANGED seen,
             authorization = "DENIED" => n = 0, ~Governable(frame.ask),
             Finalize(Refusal(code, mechanism), authorization, n, quality, FALSE)
      PROVE  Finalizes
  <2>1. /\ Refusal(code, mechanism) \in Decision /\ Related(Refusal(code, mechanism))
        /\ Refusal(code, mechanism).outcome = "REFUSED"
        /\ ~Refusal(code, mechanism).claim_counts.measured
    BY RefusalIsSound
  <2>2. /\ pc' = "finalize" /\ UNCHANGED <<frame, stores, callers>>
        /\ DraftIsSound(draft')
        /\ draft'.decision = Refusal(code, mechanism)
        /\ draft'.generation_invoked = FALSE
        /\ draft'.captured = FALSE
    BY <1>5, <2>1, FinalizeDrafts
  <2> QED
    BY <1>5, <2>1, <2>2 DEF Finalizes
<1>6. CASE RefuseWithoutContract
  <2>1. PICK code \in ReasonCode :
          Finalize(Refusal(code, "contract-resolution"), "DENIED", 0, None, FALSE)
    BY <1>0, <1>6 DEF RefuseWithoutContract
  <2> QED
    BY <1>0, <1>5, <1>6, <2>1 DEF RefuseWithoutContract, Early, Governable
<1>7. CASE RefuseDenied
  BY <1>0, <1>5, <1>7 DEF RefuseDenied, Early, Governable
<1>8. CASE RefuseProvenance
  <2>1. Len(frame.ask.evidence) \in Nat
    BY <1>8, CallInProgress DEF RefuseProvenance, EvidenceSet
  <2>2. ~Governable(frame.ask)
    BY <1>8 DEF RefuseProvenance, check_provenance, Governable
  <2> QED
    BY <1>0, <1>5, <1>8, <2>1, <2>2 DEF RefuseProvenance, Early
<1>9. CASE RefuseInsufficient
  <2>1. Len(frame.ask.evidence) \in Nat /\ evaluate_gate(frame.ask.evidence) \in Quality
    BY <1>9, CallInProgress, GateAnswers DEF RefuseInsufficient, EvidenceSet
  <2>2. ~Governable(frame.ask)
    BY <1>9, CallInProgress, GateIsExact DEF RefuseInsufficient, Governable
  <2> QED
    BY <1>0, <1>5, <1>9, <2>1, <2>2 DEF RefuseInsufficient, Early
<1> QED
  BY <1>1, <1>2, <1>3, <1>4, <1>6, <1>7, <1>8, <1>9

\* Verification ends with a decision on the response, a refusal, or an exception.
LEMMA VerifierStep ==
  ASSUME TypeOK, VerifyStep
  PROVE  Finalizes \/ Leaves
<1>0. pc = "verify"
  BY DEF VerifyStep, VerifierAnswers, VerifierFails, VerifierRaises
<1>1. /\ Cardinality(Window(frame.ask.evidence)) \in Nat
      /\ evaluate_gate(frame.ask.evidence) \in Quality
  BY <1>0, CallInProgress, WindowIsFull, GateAnswers
<1>2. ASSUME NEW decision \in Decision, Related(decision), FinalizeVerified(decision)
      PROVE  /\ pc' = "finalize" /\ UNCHANGED <<frame, stores, callers>>
             /\ DraftIsSound(draft')
             /\ draft'.decision = decision
             /\ draft'.generation_invoked = TRUE
             /\ draft'.captured = FALSE
  BY <1>1, <1>2, FinalizeDrafts DEF FinalizeVerified
<1>3. ASSUME NEW response \in Response, VerifierAnswers(response)
      PROVE  Finalizes
  <2>1. response \in VerifierResponse
    BY ServiceAssumption
  <2>2. /\ decide(response) \in Decision /\ Related(decide(response))
        /\ decide(response).mechanism = response.mechanism
        /\ decide(response).outcome = "GROUNDED" => Grounds(response)
    BY <2>1, DecideIsSound
  <2>3. FinalizeVerified(decide(response)) /\ seen' = seen \cup {Judged(response)}
    BY <1>3 DEF VerifierAnswers
  <2> QED
    BY <1>0, <1>2, <2>1, <2>2, <2>3 DEF Finalizes, Early
<1>4. ASSUME NEW code \in FailureCode, VerifierFails(code)
      PROVE  Finalizes
  <2>1. reason_code_or_error(code) \in ReasonCode
    BY DEF reason_code_or_error, ReasonCode, FaultCode
  <2>2. PICK refusal \in Decision :
          /\ refusal = Refusal(reason_code_or_error(code), VerifierName)
          /\ Related(refusal) /\ refusal.outcome = "REFUSED"
    BY <2>1, RefusalIsSound, ServiceAssumption
  <2>3. FinalizeVerified(refusal) /\ UNCHANGED seen
    BY <1>4, <2>2 DEF VerifierFails
  <2> QED
    BY <1>0, <1>2, <2>2, <2>3 DEF Finalizes, Early
<1>5. ASSUME VerifierRaises
      PROVE  Leaves
  BY <1>5 DEF VerifierRaises, Leaves, Early, Raised, Ended, stores
<1> QED
  BY <1>3, <1>4, <1>5 DEF VerifyStep

\* Every step of a call has one of these effects.
LEMMA CallStep ==
  ASSUME TypeOK, HandleStep
  PROVE  \/ Moves \/ Finalizes \/ Leaves
         \/ StoreRecord \/ Capture \/ CaptureFails \/ Return
<1>1. CASE Generate
  BY <1>1 DEF Generate, Moves, Early, Passed
<1>2. CASE AuthorizerRaises \/ GeneratorRaises
  BY <1>2 DEF AuthorizerRaises, GeneratorRaises, Leaves, Early, Raised, Ended, stores
<1>3. CASE StoreRefuses
  BY <1>3 DEF StoreRefuses, Leaves, Raised, Ended, TypeOK
<1> QED
  BY <1>1, <1>2, <1>3, GateStep, VerifierStep DEF HandleStep, OwnStep

-------------------------------------------------------------------------------
(***************************************************************************)
(* Types.                                                                  *)
(***************************************************************************)
\* Once stored, the decision in progress is the last record.
StoredLast ==
  pc \in {"capture", "return"} => records # <<>> /\ Recorded = DecisionRecord(ids.dec)

\* The draft in progress is sound, and so its record is valid.
DraftOK == pc \in Final => DraftIsSound(draft)

Typed == TypeOK /\ StoredLast /\ DraftOK

LEMMA InitTyped == Init => Typed
<1> SUFFICES ASSUME Init PROVE Typed
  OBVIOUS
<1>1. MaxAttempts \in Nat /\ MaxResets \in Nat
  BY ServiceAssumption
<1>2. StoredLast /\ DraftOK
  BY DEF Init, StoredLast, DraftOK, Final
<1>3. TypeOK
  BY <1>1 DEF Init, TypeOK
<1> QED
  BY <1>2, <1>3 DEF Typed

\* The record of a sound draft is one, and passes its validators.
LEMMA SoundDraftIsValid ==
  ASSUME TypeOK, pc \in Final, DraftIsSound(draft), NEW id \in Nat \ {0}
  PROVE  DecisionRecord(id) \in Record /\ RecordIsValid(DecisionRecord(id))
<1>1. frame.request \in Request
  BY CallInProgress DEF Final
<1>2. /\ draft.decision \in Decision /\ draft.authorization \in {"ALLOWED", "DENIED"}
      /\ draft.evidence_count \in Nat
  BY DEF DraftIsSound, Draft
<1>3. DecisionRecord(id) \in Record
  BY <1>1, <1>2 DEF DecisionRecord, Decision, Record
<1>4. RecordIsValid(DecisionRecord(id))
  BY DEF RecordIsValid, DecisionRecord, DraftIsSound, Related
<1> QED
  BY <1>3, <1>4

\* A call leaves, or is submitted or answered: what that does to calls.
LEMMA CallsStayTyped ==
  ASSUME TypeOK, NEW r \in Request, NEW status \in {"new", "running"} \cup Ended,
         NEW n \in 0 .. MaxAttempts,
         calls' = [calls EXCEPT ![r] = [status |-> status, attempts |-> n]]
  PROVE  calls' \in [Request -> [status : {"new", "running"} \cup Ended,
                                 attempts : 0 .. MaxAttempts]]
BY DEF TypeOK

LEMMA StatusStaysTyped ==
  ASSUME TypeOK, NEW r \in Request, NEW status \in {"new", "running"} \cup Ended,
         calls' = [calls EXCEPT ![r].status = status]
  PROVE  calls' \in [Request -> [status : {"new", "running"} \cup Ended,
                                 attempts : 0 .. MaxAttempts]]
BY DEF TypeOK

LEMMA NextKeepsTyped == Typed /\ [Next]_vars => Typed'
<1> SUFFICES ASSUME Typed, [Next]_vars PROVE Typed'
  OBVIOUS
<1>0. TypeOK /\ StoredLast /\ DraftOK /\ MaxAttempts \in Nat /\ MaxResets \in Nat
  BY ServiceAssumption DEF Typed
<1>1. CASE UNCHANGED vars
  BY <1>0, <1>1 DEF vars, Typed, TypeOK, StoredLast, DraftOK, DraftIsSound, Related,
                    Recorded, DecisionRecord
<1>2. ASSUME NEW r \in Request, NEW ask \in Ask, Submit(r, ask)
      PROVE  Typed'
  <2>1. calls[r].attempts \in Nat /\ calls[r].attempts + 1 \in 0 .. MaxAttempts
    BY <1>0, <1>2 DEF Submit, TypeOK
  <2>2. calls' = [calls EXCEPT ![r] = [status |-> "running",
                                       attempts |-> calls[r].attempts + 1]]
    BY <1>0, <1>2 DEF Submit, TypeOK
  <2>3. calls' \in [Request -> [status : {"new", "running"} \cup Ended,
                                attempts : 0 .. MaxAttempts]]
    BY <1>0, <2>1, <2>2, CallsStayTyped
  <2> QED
    BY <1>0, <1>2, <2>3 DEF Submit, stores, Typed, TypeOK, Stage, StoredLast, DraftOK, Final
<1>3. CASE Moves
  BY <1>0, <1>3 DEF Moves, Early, stores, callers, Typed, TypeOK, Stage, StoredLast,
                    DraftOK, Final
<1>4. CASE Finalizes
  BY <1>0, <1>4 DEF Finalizes, Early, stores, callers, Typed, TypeOK, Stage, StoredLast,
                    DraftOK, Final, DraftIsSound, Related
<1>5. CASE Leaves
  <2>1. PICK status \in Raised : Escape(status)
    BY <1>5 DEF Leaves
  <2>2. frame.request \in Request
    BY <1>0, <1>5, CallInProgress DEF Leaves, Early
  <2>3. calls' \in [Request -> [status : {"new", "running"} \cup Ended,
                                attempts : 0 .. MaxAttempts]]
    BY <1>0, <2>1, <2>2, StatusStaysTyped DEF Escape, Raised
  <2>4. ids' \in [dec : Nat, evt : Nat]
    BY <1>0, <1>5 DEF Leaves, TypeOK
  <2> QED
    BY <1>0, <1>5, <2>1, <2>3, <2>4
       DEF Leaves, Escape, Typed, TypeOK, StoredLast, DraftOK, Final
<1>6. CASE StoreRecord
  <2>1. pc = "finalize" /\ DraftIsSound(draft) /\ draft \in Draft
    BY <1>0, <1>6 DEF StoreRecord, DraftOK, Final, DraftIsSound
  <2>2. ids.dec + 1 \in Nat \ {0} /\ ids' \in [dec : Nat, evt : Nat] /\ ids'.dec = ids.dec + 1
    <3>1. ids \in [dec : Nat, evt : Nat]
      BY <1>0 DEF TypeOK
    <3>2. ids' = [ids EXCEPT !.dec = ids.dec + 1]
      BY <1>6 DEF StoreRecord
    <3> QED
      BY <3>1, <3>2
  <2>3. DecisionRecord(ids.dec + 1) \in Record
    BY <1>0, <2>1, <2>2, SoundDraftIsValid DEF Final
  <2>4. /\ records' = Append(records, DecisionRecord(ids.dec + 1))
        /\ records' \in Seq(Record) /\ records' # <<>>
        /\ records'[Len(records')] = DecisionRecord(ids.dec + 1)
    BY <1>0, <1>6, <2>3 DEF StoreRecord, TypeOK
  <2>5. StoredLast'
    BY <1>6, <2>2, <2>4 DEF StoreRecord, StoredLast, Recorded, DecisionRecord
  <2>6. TypeOK'
    BY <1>0, <1>6, <2>1, <2>2, <2>4 DEF StoreRecord, callers, TypeOK, Stage
  <2> QED
    BY <1>6, <2>1, <2>5, <2>6 DEF Typed, StoreRecord, DraftOK, Final, DraftIsSound, Related
<1>7. CASE Capture \/ CaptureFails
  <2>1. pc = "capture" /\ pc' = "return" /\ DraftIsSound(draft) /\ draft \in Draft
    BY <1>0, <1>7 DEF Capture, CaptureFails, DraftOK, Final, DraftIsSound
  <2>2. draft' \in Draft /\ draft' \in {draft, [draft EXCEPT !.captured = TRUE]}
    BY <1>7, <2>1 DEF Capture, CaptureFails, Draft
  <2>3. DraftIsSound(draft')
    BY <2>1, <2>2 DEF DraftIsSound, Draft, Related
  <2>4. /\ ids' \in [dec : Nat, evt : Nat] /\ ids'.dec = ids.dec
        /\ ids.evt + 1 \in Nat \ {0} /\ failures' \in Nat
    BY <1>0, <1>7 DEF Capture, CaptureFails, TypeOK
  <2>5. records # <<>> /\ Recorded = DecisionRecord(ids.dec) /\ Recorded \in Record
    BY <1>0, <2>1 DEF StoredLast, TypeOK, Recorded
  <2>6. TelemetryEvent(ids.evt + 1) \in Event
    BY <2>1, <2>4, <2>5 DEF TelemetryEvent, Record, Event, Draft
  <2>7. events' \in Seq(Event)
    <3>1. events \in Seq(Event)
      BY <1>0 DEF TypeOK
    <3>2. events' = events \/ events' = Append(events, TelemetryEvent(ids.evt + 1))
      BY <1>7 DEF Capture, CaptureFails
    <3> QED
      BY <2>6, <3>1, <3>2
  <2>8. UNCHANGED <<frame, records, callers, seen>>
    BY <1>7 DEF Capture, CaptureFails
  <2>9. StoredLast'
    <3>1. /\ draft'.decision = draft.decision
          /\ draft'.authorization = draft.authorization
          /\ draft'.evidence_count = draft.evidence_count
      BY <2>1, <2>2 DEF Draft
    <3> QED
      BY <2>4, <2>5, <2>8, <3>1 DEF StoredLast, Recorded, DecisionRecord
  <2>10. TypeOK'
    BY <1>0, <2>1, <2>2, <2>4, <2>7, <2>8 DEF callers, TypeOK, Stage
  <2> QED
    BY <2>1, <2>3, <2>9, <2>10 DEF Typed, DraftOK, DraftIsSound, Related
<1>8. CASE Return
  <2>1. frame.request \in Request
    BY <1>0, <1>8, CallInProgress DEF Return
  <2>2. calls' \in [Request -> [status : {"new", "running"} \cup Ended,
                                attempts : 0 .. MaxAttempts]]
    BY <1>0, <1>8, <2>1, StatusStaysTyped DEF Return, Ended
  <2> QED
    BY <1>0, <1>8, <2>2 DEF Return, stores, Typed, TypeOK, StoredLast, DraftOK, Final
<1>9. CASE ResetIds
  BY <1>0, <1>9 DEF ResetIds, Typed, TypeOK, StoredLast, DraftOK, Final
<1> QED
  BY <1>0, <1>1, <1>2, <1>3, <1>4, <1>5, <1>6, <1>7, <1>8, <1>9, CallStep DEF Next

\* What Spec says of safety; every theorem below needs no more, so that it also
\* holds of a verifier that is a mechanism of its own.
SafetySpec == Init /\ [][Next]_vars

\* Every value the request path keeps has its type, the call in progress included.
THEOREM TypedAlways == SafetySpec => []Typed
BY InitTyped, NextKeepsTyped, PTL DEF SafetySpec

\* handle()'s locals, the stores and the counters keep their shape, for any
\* verifier response.
THEOREM ServiceTypeCorrect == Spec => []TypeOK
<1>1. Typed => TypeOK
  BY DEF Typed
<1>2. Spec => SafetySpec
  BY DEF Spec, SafetySpec
<1> QED
  BY TypedAlways, <1>1, <1>2, PTL

\* The validators of DecisionRecord never fire: whatever the gates and the
\* verifier do, _finalize() is called with arguments that make a valid record.
\* The store refuses a duplicate identifier and nothing else.
THEOREM ValidatorsNeverFire ==
  SafetySpec => [](pc = "finalize" => RecordIsValid(DecisionRecord(ids.dec + 1)))
<1>1. Typed => (pc = "finalize" => RecordIsValid(DecisionRecord(ids.dec + 1)))
  <2> SUFFICES ASSUME Typed, pc = "finalize"
               PROVE  RecordIsValid(DecisionRecord(ids.dec + 1))
    OBVIOUS
  <2>1. ids.dec + 1 \in Nat \ {0}
    BY DEF Typed, TypeOK
  <2> QED
    BY <2>1, SoundDraftIsValid DEF Typed, DraftOK, Final
<1> QED
  BY TypedAlways, <1>1, PTL

\* A stored decision or a captured event is never edited, removed or moved.
THEOREM AppendOnly == Spec => StoresAreAppendOnly
<1> DEFINE Kept == /\ Len(records) <= Len(records')
                   /\ \A i \in DOMAIN records : records'[i] = records[i]
                   /\ Len(events) <= Len(events')
                   /\ \A i \in DOMAIN events : events'[i] = events[i]
<1>1. Typed /\ [Next]_vars => [Kept]_vars
  <2> SUFFICES ASSUME Typed, Next PROVE Kept
    OBVIOUS
  <2>1. TypeOK /\ records \in Seq(Record) /\ events \in Seq(Event)
    BY DEF Typed, TypeOK
  <2>2. CASE UNCHANGED <<records, events>>
    BY <2>1, <2>2
  <2>3. CASE StoreRecord
    BY <2>1, <2>3 DEF StoreRecord
  <2>4. CASE Capture
    BY <2>1, <2>4 DEF Capture
  <2>5. CASE Moves \/ Finalizes \/ Leaves \/ CaptureFails \/ Return
    BY <2>2, <2>5 DEF Moves, Finalizes, Leaves, CaptureFails, Return, stores
  <2>6. CASE ResetIds \/ \E r \in Request, ask \in Ask : Submit(r, ask)
    BY <2>2, <2>6 DEF ResetIds, Submit, stores
  <2> QED
    BY <2>1, <2>3, <2>4, <2>5, <2>6, CallStep DEF Next
<1>2. Spec => [][Kept]_vars
  BY <1>1, TypedAlways, PTL DEF Spec, SafetySpec
<1> QED
  BY <1>2 DEF StoresAreAppendOnly

-------------------------------------------------------------------------------
(***************************************************************************)
(* Recording is exactly-once.                                              *)
(***************************************************************************)
\* At most one call runs, and it is the one whose locals are there.
OneCall ==
  \A r \in Request :
    calls[r].status = "running" <=> pc # "idle" /\ frame.request = r

HasDecision(r) ==
  \/ calls[r].status = "answered"
  \/ calls[r].status = "running" /\ pc \in {"capture", "return"}

RecordedOnce ==
  \A r \in Request :
    IF HasDecision(r) THEN \E i \in DOMAIN records : RecordsOf(r) = {i}
                      ELSE RecordsOf(r) = {}

\* No two records share an identifier, although identifiers are handed out again
\* after a reset.
IdentifiersDiffer ==
  \A i, j \in DOMAIN records : records[i].decision_id = records[j].decision_id => i = j

Ledger == OneCall /\ RecordedOnce /\ IdentifiersDiffer

LEMMA InitLedger == Init => Ledger
BY DEF Init, Ledger, OneCall, RecordedOnce, IdentifiersDiffer, HasDecision, RecordsOf

\* What a step that stores nothing may do to the calls: leave each as recorded as
\* it was.
LEMMA UnstoredKeepsLedger ==
  ASSUME Ledger, UNCHANGED records,
         \A r \in Request : HasDecision(r)' <=> HasDecision(r)
  PROVE  RecordedOnce' /\ IdentifiersDiffer'
BY DEF Ledger, RecordedOnce, IdentifiersDiffer, RecordsOf

LEMMA NextKeepsLedger == Typed /\ Ledger /\ [Next]_vars => Ledger'
<1> SUFFICES ASSUME Typed, Ledger, [Next]_vars PROVE Ledger'
  OBVIOUS
<1>0. /\ TypeOK /\ OneCall /\ RecordedOnce /\ IdentifiersDiffer
      /\ DOMAIN calls = Request
      /\ \A r \in Request : DOMAIN calls[r] = {"status", "attempts"}
  BY DEF Typed, TypeOK, Ledger
<1>1. CASE UNCHANGED vars
  BY <1>0, <1>1 DEF vars, Ledger, OneCall, RecordedOnce, IdentifiersDiffer, HasDecision,
                    RecordsOf
<1>2. ASSUME NEW r \in Request, NEW ask \in Ask, Submit(r, ask)
      PROVE  Ledger'
  <2>1. /\ pc = "idle" /\ pc' = "resolve" /\ frame'.request = r
        /\ calls[r].status \notin {"running", "answered"}
        /\ calls' = [calls EXCEPT ![r] = [status |-> "running",
                                          attempts |-> calls[r].attempts + 1]]
        /\ UNCHANGED records
    BY <1>2 DEF Submit, stores, Raised, Ended
  <2>2. \A q \in Request :
          calls'[q].status = IF q = r THEN "running" ELSE calls[q].status
    BY <1>0, <2>1
  <2>3. OneCall'
    BY <1>0, <2>1, <2>2 DEF OneCall
  <2>4. \A q \in Request : HasDecision(q)' <=> HasDecision(q)
    BY <1>0, <2>1, <2>2 DEF HasDecision, OneCall
  <2> QED
    BY <2>1, <2>3, <2>4, UnstoredKeepsLedger DEF Ledger
<1>3. CASE Moves \/ Finalizes
  <2>1. /\ pc \in Early /\ pc' \in Early \cup {"finalize"}
        /\ UNCHANGED <<frame, calls, records>>
    BY <1>3 DEF Moves, Finalizes, stores, callers
  <2>2. OneCall' /\ \A q \in Request : HasDecision(q)' <=> HasDecision(q)
    BY <1>0, <2>1 DEF OneCall, HasDecision, Early
  <2> QED
    BY <2>1, <2>2, UnstoredKeepsLedger DEF Ledger
<1>4. CASE Leaves
  <2>1. PICK status \in Raised : Escape(status)
    BY <1>4 DEF Leaves
  <2>2. /\ pc \in Early \cup {"finalize"} /\ pc' = "idle" /\ UNCHANGED records
        /\ calls' = [calls EXCEPT ![frame.request].status = status]
        /\ status \notin {"running", "answered"}
    BY <1>4, <2>1 DEF Leaves, Escape, Raised, Ended
  <2>3. frame.request \in Request
    BY <1>0, <2>2, CallInProgress DEF Early
  <2>4. \A q \in Request :
          calls'[q].status = IF q = frame.request THEN status ELSE calls[q].status
    BY <1>0, <2>2, <2>3
  <2>5. OneCall'
    BY <1>0, <2>2, <2>4 DEF OneCall, Early
  <2>6. \A q \in Request : HasDecision(q)' <=> HasDecision(q)
    BY <1>0, <2>2, <2>3, <2>4 DEF HasDecision, OneCall, Early
  <2> QED
    BY <2>2, <2>5, <2>6, UnstoredKeepsLedger DEF Ledger
<1>5. CASE StoreRecord
  <2> DEFINE id == ids.dec + 1
             new == Len(records) + 1
  <2>1. /\ pc = "finalize" /\ pc' = "capture"
        /\ records' = Append(records, DecisionRecord(id))
        /\ get(id) = {}
        /\ UNCHANGED <<frame, calls>>
    BY <1>5 DEF StoreRecord, callers
  <2>2. /\ DOMAIN records' = DOMAIN records \cup {new}
        /\ new \notin DOMAIN records
        /\ \A i \in DOMAIN records : records'[i] = records[i]
        /\ records'[new] = DecisionRecord(id)
    BY <1>0, <2>1 DEF TypeOK
  <2>3. /\ DecisionRecord(id).request = frame.request
        /\ DecisionRecord(id).decision_id = id
    BY DEF DecisionRecord
  <2>4. frame.request \in Request
    BY <1>0, <2>1, CallInProgress
  <2>5. OneCall'
    BY <1>0, <2>1 DEF OneCall
  <2>6. ASSUME NEW q \in Request
        PROVE  IF HasDecision(q)' THEN \E i \in DOMAIN records' : RecordsOf(q)' = {i}
                                  ELSE RecordsOf(q)' = {}
    <3>1. RecordsOf(q)' = IF q = frame.request THEN RecordsOf(q) \cup {new}
                                               ELSE RecordsOf(q)
      BY <2>2, <2>3 DEF RecordsOf
    <3>2. CASE q = frame.request
      <4>1. calls[q].status = "running" /\ ~HasDecision(q) /\ HasDecision(q)'
        BY <1>0, <2>1, <3>2 DEF OneCall, HasDecision
      <4>2. RecordsOf(q)' = {new}
        BY <1>0, <3>1, <3>2, <4>1 DEF RecordedOnce
      <4> QED
        BY <2>2, <4>1, <4>2
    <3>3. CASE q # frame.request
      <4>1. HasDecision(q)' <=> HasDecision(q)
        BY <1>0, <2>1, <3>3 DEF OneCall, HasDecision
      <4> QED
        BY <1>0, <2>2, <3>1, <3>3, <4>1 DEF RecordedOnce
    <3> QED
      BY <3>2, <3>3
  <2>7. IdentifiersDiffer'
    BY <1>0, <2>1, <2>2, <2>3 DEF IdentifiersDiffer, get
  <2> QED
    BY <2>5, <2>6, <2>7 DEF Ledger, RecordedOnce
<1>6. CASE Capture \/ CaptureFails
  <2>1. pc = "capture" /\ pc' = "return" /\ UNCHANGED <<frame, calls, records>>
    BY <1>6 DEF Capture, CaptureFails, callers
  <2>2. OneCall' /\ \A q \in Request : HasDecision(q)' <=> HasDecision(q)
    BY <1>0, <2>1 DEF OneCall, HasDecision
  <2> QED
    BY <2>1, <2>2, UnstoredKeepsLedger DEF Ledger
<1>7. CASE Return
  <2>1. /\ pc = "return" /\ pc' = "idle" /\ UNCHANGED records
        /\ calls' = [calls EXCEPT ![frame.request].status = "answered"]
    BY <1>7 DEF Return, stores
  <2>2. frame.request \in Request
    BY <1>0, <2>1, CallInProgress
  <2>3. \A q \in Request :
          calls'[q].status = IF q = frame.request THEN "answered" ELSE calls[q].status
    BY <1>0, <2>1, <2>2
  <2>4. OneCall'
    BY <1>0, <2>1, <2>3 DEF OneCall
  <2>5. \A q \in Request : HasDecision(q)' <=> HasDecision(q)
    BY <1>0, <2>1, <2>2, <2>3 DEF HasDecision, OneCall
  <2> QED
    BY <2>1, <2>4, <2>5, UnstoredKeepsLedger DEF Ledger
<1>8. CASE ResetIds
  BY <1>0, <1>8 DEF ResetIds, Ledger, OneCall, RecordedOnce, IdentifiersDiffer,
                    HasDecision, RecordsOf
<1> QED
  BY <1>0, <1>1, <1>2, <1>3, <1>4, <1>5, <1>6, <1>7, <1>8, CallStep DEF Next

\* The stores, the call in progress and what its caller was told account for each
\* other at every step of handle().
THEOREM LedgerAlways == SafetySpec => [](Typed /\ Ledger)
BY InitTyped, InitLedger, NextKeepsTyped, NextKeepsLedger, PTL DEF SafetySpec

\* An answered request has exactly one record, one whose call raised has none.
THEOREM ExactlyOnce == SafetySpec => []AnsweredIffRecorded
<1>1. Typed /\ Ledger => AnsweredIffRecorded
  <2> SUFFICES ASSUME Typed, Ledger, NEW r \in Request
               PROVE  /\ calls[r].status = "answered" => Cardinality(RecordsOf(r)) = 1
                      /\ calls[r].status \in {"new"} \cup Raised => RecordsOf(r) = {}
                      /\ calls[r].status = "running" =>
                           Cardinality(RecordsOf(r))
                             = IF pc \in {"capture", "return"} THEN 1 ELSE 0
    BY DEF AnsweredIffRecorded
  <2>1. HasDecision(r) => Cardinality(RecordsOf(r)) = 1
    BY FS_Singleton DEF Ledger, RecordedOnce
  <2>2. ~HasDecision(r) => RecordsOf(r) = {} /\ Cardinality(RecordsOf(r)) = 0
    BY FS_EmptySet DEF Ledger, RecordedOnce
  <2> QED
    BY <2>1, <2>2 DEF HasDecision, Raised, Ended
<1> QED
  BY LedgerAlways, <1>1, PTL

-------------------------------------------------------------------------------
(***************************************************************************)
(* What stands behind a grounding.                                         *)
(***************************************************************************)
GroundingsStand ==
  /\ \A i \in DOMAIN records : records[i].outcome = "GROUNDED" =>
       Behind(seen, records[i].request, calls[records[i].request].attempts,
              records[i].mechanism)
  /\ pc \in Final /\ draft.decision.outcome = "GROUNDED" =>
       Behind(seen, frame.request, calls[frame.request].attempts,
              draft.decision.mechanism)

LEMMA NextKeepsGroundings ==
  Typed /\ Ledger /\ GroundingsStand /\ [Next]_vars => GroundingsStand'
<1> SUFFICES ASSUME Typed, Ledger, GroundingsStand, [Next]_vars PROVE GroundingsStand'
  OBVIOUS
<1>0. /\ TypeOK /\ OneCall /\ RecordedOnce
      /\ DOMAIN calls = Request
      /\ \A r \in Request : DOMAIN calls[r] = {"status", "attempts"}
      /\ \A i \in DOMAIN records : records[i].request \in Request
  <2>1. TypeOK /\ OneCall /\ RecordedOnce
    BY DEF Typed, Ledger
  <2>2. calls \in [Request -> [status : {"new", "running"} \cup Ended,
                               attempts : 0 .. MaxAttempts]]
    BY <2>1 DEF TypeOK
  <2>3. \A i \in DOMAIN records : records[i] \in Record
    BY <2>1 DEF TypeOK
  <2> QED
    BY <2>1, <2>2, <2>3 DEF Record
<1>1. CASE UNCHANGED vars
  BY <1>1 DEF vars, GroundingsStand, Behind
\* Steps that leave the records and the attempts of every recorded request alone.
<1>2. ASSUME UNCHANGED records, seen \subseteq seen',
             \A i \in DOMAIN records :
               calls'[records[i].request].attempts = calls[records[i].request].attempts
      PROVE  \A i \in DOMAIN records' : records'[i].outcome = "GROUNDED" =>
               Behind(seen', records'[i].request, calls'[records'[i].request].attempts,
                      records'[i].mechanism)
  BY <1>2 DEF GroundingsStand, Behind
<1>3. ASSUME NEW r \in Request, NEW ask \in Ask, Submit(r, ask)
      PROVE  GroundingsStand'
  <2>1. /\ calls' = [calls EXCEPT ![r] = [status |-> "running",
                                          attempts |-> calls[r].attempts + 1]]
        /\ calls[r].status \notin {"running", "answered"}
        /\ UNCHANGED <<records, seen>> /\ pc' = "resolve"
    BY <1>3 DEF Submit, stores, Raised, Ended
  <2>2. RecordsOf(r) = {}
    BY <1>0, <2>1 DEF RecordedOnce, HasDecision
  <2>3. \A i \in DOMAIN records :
          calls'[records[i].request].attempts = calls[records[i].request].attempts
    BY <1>0, <2>1, <2>2 DEF RecordsOf
  <2> QED
    BY <1>2, <2>1, <2>3 DEF GroundingsStand, Final
<1>4. CASE Moves
  <2>1. UNCHANGED <<records, calls>> /\ seen \subseteq seen' /\ pc' \in Early
    BY <1>4 DEF Moves, stores, callers
  <2> QED
    BY <1>2, <2>1 DEF GroundingsStand, Early, Final
<1>5. CASE Finalizes
  <2>1. UNCHANGED <<records, calls, frame>> /\ seen \subseteq seen'
    BY <1>5 DEF Finalizes, stores, callers
  <2>2. ASSUME draft'.decision.outcome = "GROUNDED"
        PROVE  Behind(seen', frame.request, calls[frame.request].attempts,
                      draft'.decision.mechanism)
    <3>1. PICK response \in VerifierResponse :
            /\ seen' = seen \cup {Judged(response)}
            /\ draft'.decision.mechanism = response.mechanism
            /\ Grounds(response)
      BY <1>5, <2>2 DEF Finalizes
    <3>2. /\ Judged(response) \in seen'
          /\ Judged(response).act = "judged"
          /\ Judged(response).given = response
          /\ Judged(response).by = [request |-> frame.request,
                                    number |-> calls[frame.request].attempts]
      BY <3>1 DEF Judged, Attempt
    <3> QED
      BY <2>1, <3>1, <3>2 DEF Behind
  <2> QED
    BY <1>2, <2>1, <2>2 DEF GroundingsStand
<1>6. CASE Leaves
  <2>1. PICK status \in Raised : Escape(status)
    BY <1>6 DEF Leaves
  <2>2. /\ pc \in Early \cup {"finalize"} /\ pc' = "idle"
        /\ calls' = [calls EXCEPT ![frame.request].status = status]
        /\ UNCHANGED <<records, seen>>
    BY <1>6, <2>1 DEF Leaves, Escape
  <2>3. \A q \in Request : calls'[q].attempts = calls[q].attempts
    BY <1>0, <2>2
  <2> QED
    BY <1>0, <1>2, <2>2, <2>3 DEF GroundingsStand, Final
<1>7. CASE StoreRecord
  <2> DEFINE id == ids.dec + 1
             new == Len(records) + 1
  <2>1. /\ pc = "finalize" /\ pc' = "capture"
        /\ records' = Append(records, DecisionRecord(id))
        /\ UNCHANGED <<frame, draft, calls, seen>>
    BY <1>7 DEF StoreRecord, callers
  <2>2. /\ DOMAIN records' = DOMAIN records \cup {new}
        /\ \A i \in DOMAIN records : records'[i] = records[i]
        /\ records'[new] = DecisionRecord(id)
    BY <1>0, <2>1 DEF TypeOK
  <2>3. /\ DecisionRecord(id).request = frame.request
        /\ DecisionRecord(id).outcome = draft.decision.outcome
        /\ DecisionRecord(id).mechanism = draft.decision.mechanism
    BY DEF DecisionRecord
  <2> QED
    BY <2>1, <2>2, <2>3 DEF GroundingsStand, Behind, Final
<1>8. CASE Capture \/ CaptureFails
  <2>1. /\ pc = "capture" /\ UNCHANGED <<frame, records, calls, seen>>
        /\ draft'.decision = draft.decision
    BY <1>0, <1>8, CallInProgress DEF Capture, CaptureFails, callers, Draft, Final
  <2> QED
    BY <1>2, <2>1 DEF GroundingsStand, Behind, Final
<1>9. CASE Return
  <2>1. /\ pc = "return" /\ pc' = "idle" /\ UNCHANGED <<records, seen>>
        /\ calls' = [calls EXCEPT ![frame.request].status = "answered"]
    BY <1>9 DEF Return, stores
  <2>2. \A q \in Request : calls'[q].attempts = calls[q].attempts
    BY <1>0, <2>1
  <2> QED
    BY <1>0, <1>2, <2>1, <2>2 DEF GroundingsStand, Final
<1>10. CASE ResetIds
  BY <1>0, <1>10 DEF ResetIds, GroundingsStand, Behind, Final
<1> QED
  BY <1>0, <1>1, <1>3, <1>4, <1>5, <1>6, <1>7, <1>8, <1>9, <1>10, CallStep DEF Next

\* A grounding is never left behind without a verifier's answer in that attempt.
THEOREM GroundedByVerifier == SafetySpec => []GroundedWasVerified
<1>1. Init => GroundingsStand
  BY DEF Init, GroundingsStand, Final
<1>2. GroundingsStand => GroundedWasVerified
  BY DEF GroundingsStand, GroundedWasVerified, Behind, Grounds
<1> QED
  BY LedgerAlways, <1>1, NextKeepsGroundings, <1>2, PTL DEF SafetySpec

-------------------------------------------------------------------------------
(***************************************************************************)
(* What the generator is run for.                                          *)
(***************************************************************************)
\* The generator ran for what the gates should let through, and for nothing else,
\* and what is past a gate did pass it.
GeneratedWasGovernable ==
  /\ \A s \in seen : s.act = "generated" => Governable(s.given)
  /\ pc \in Early => Passed(frame.ask, pc)
  /\ pc \in Final => (draft.generation_invoked <=> Governable(frame.ask))

LEMMA PassedIsGovernable ==
  ASSUME TypeOK, pc \in {"generate", "verify"}, Passed(frame.ask, pc)
  PROVE  Governable(frame.ask)
<1>1. frame.ask.evidence \in EvidenceSet
  BY CallInProgress
<1> QED
  BY <1>1, GateIsExact DEF Passed, Governable, check_provenance

\* The gates stop every request they should, none that they should let through,
\* and the generator is run for exactly the rest (handle()).
THEOREM GeneratorRunsExactly == SafetySpec => []GeneratorRunsForGovernableOnly
<1>1. Init => GeneratedWasGovernable
  BY DEF Init, GeneratedWasGovernable, Early, Final
<1>2. Typed /\ GeneratedWasGovernable /\ [Next]_vars => GeneratedWasGovernable'
  <2> SUFFICES ASSUME Typed, GeneratedWasGovernable, [Next]_vars
               PROVE  GeneratedWasGovernable'
    OBVIOUS
  <2>0. TypeOK
    BY DEF Typed
  <2>1. CASE UNCHANGED vars
    BY <2>1 DEF vars, GeneratedWasGovernable, Passed
  <2>2. ASSUME NEW r \in Request, NEW ask \in Ask, Submit(r, ask)
        PROVE  GeneratedWasGovernable'
    BY <2>2 DEF Submit, GeneratedWasGovernable, Early, Final, Passed
  <2>3. CASE Moves
    <3>1. /\ pc \in Early /\ Passed(frame.ask, pc) /\ Passed(frame.ask, pc') /\ UNCHANGED <<frame, draft>>
          /\ pc' \in Early
          /\ seen' = IF pc = "generate" THEN seen \cup {Generated} ELSE seen
      BY <2>3 DEF Moves, GeneratedWasGovernable
    <3>2. pc = "generate" => Governable(frame.ask)
      BY <2>0, <3>1, PassedIsGovernable
    <3>3. Generated.given = frame.ask
      BY DEF Generated
    <3>4. \A s \in seen' : s.act = "generated" => Governable(s.given)
      BY <3>1, <3>2, <3>3 DEF GeneratedWasGovernable
    <3>5. pc' \in Early /\ pc' \notin Final /\ Passed(frame'.ask, pc')
      BY <3>1 DEF Early, Final, Passed
    <3> QED
      BY <3>4, <3>5 DEF GeneratedWasGovernable
  <2>4. CASE Finalizes
    <3>1. /\ pc \in Early /\ Passed(frame.ask, pc) /\ pc' = "finalize" /\ UNCHANGED frame
          /\ draft'.generation_invoked <=> pc = "verify"
          /\ pc # "verify" => ~Governable(frame.ask)
      BY <2>4 DEF Finalizes, GeneratedWasGovernable
    <3>2. \A s \in seen' : s.act = "generated" => Governable(s.given)
      BY <2>4 DEF Finalizes, GeneratedWasGovernable, Judged
    <3>3. draft'.generation_invoked <=> Governable(frame.ask)
      BY <2>0, <3>1, PassedIsGovernable
    <3> QED
      BY <3>1, <3>2, <3>3 DEF GeneratedWasGovernable, Early
  <2>5. CASE Leaves
    BY <2>5 DEF Leaves, Escape, GeneratedWasGovernable, Early, Final
  <2>6. CASE StoreRecord
    BY <2>6 DEF StoreRecord, GeneratedWasGovernable, Early, Final
  <2>7. CASE Capture \/ CaptureFails
    <3>1. /\ pc = "capture" /\ pc' = "return" /\ UNCHANGED <<frame, seen>>
          /\ draft'.generation_invoked = draft.generation_invoked
      BY <2>0, <2>7, CallInProgress DEF Capture, CaptureFails, Draft, Final
    <3> QED
      BY <3>1 DEF GeneratedWasGovernable, Early, Final
  <2>8. CASE Return
    BY <2>8 DEF Return, GeneratedWasGovernable, Early, Final
  <2>9. CASE ResetIds
    BY <2>9 DEF ResetIds, GeneratedWasGovernable, Early, Final
  <2> QED
    BY <2>0, <2>1, <2>2, <2>3, <2>4, <2>5, <2>6, <2>7, <2>8, <2>9, CallStep DEF Next
<1>3. GeneratedWasGovernable => GeneratorRunsForGovernableOnly
  BY DEF GeneratedWasGovernable, GeneratorRunsForGovernableOnly, Final
<1> QED
  BY TypedAlways, <1>1, <1>2, <1>3, PTL DEF SafetySpec

-------------------------------------------------------------------------------
(***************************************************************************)
(* Telemetry.                                                              *)
(***************************************************************************)
Mirrors(event, record) ==
  /\ event.decision_id = record.decision_id
  /\ event.request = record.request
  /\ event.outcome = record.outcome
  /\ event.reason_code = record.reason_code
  /\ event.claim_counts = record.claim_counts
  /\ event.evidence_count = record.evidence_count

\* Every event mirrors a record, no two observe the same decision, and nothing is
\* lost: what is stored was captured, failed to be, or is about to be tried.
Balanced ==
  /\ \A e \in DOMAIN events : \E i \in DOMAIN records : Mirrors(events[e], records[i])
  /\ \A e, f \in DOMAIN events : events[e].decision_id = events[f].decision_id => e = f
  /\ Len(records) = Len(events) + failures + (IF pc = "capture" THEN 1 ELSE 0)
  /\ pc = "capture" => \A e \in DOMAIN events : events[e].decision_id # ids.dec

LEMMA NextKeepsBalance == Typed /\ Ledger /\ Balanced /\ [Next]_vars => Balanced'
<1> SUFFICES ASSUME Typed, Ledger, Balanced, [Next]_vars PROVE Balanced'
  OBVIOUS
<1>0. /\ TypeOK /\ records \in Seq(Record) /\ events \in Seq(Event) /\ failures \in Nat
      /\ StoredLast /\ IdentifiersDiffer
  BY DEF Typed, TypeOK, Ledger
<1>1. ASSUME UNCHANGED <<records, events, failures>>, pc # "capture", pc' # "capture"
      PROVE  Balanced'
  BY <1>1 DEF Balanced
<1>2. CASE UNCHANGED vars
  BY <1>2 DEF vars, Balanced
<1>3. CASE Moves \/ Finalizes \/ Leaves \/ Return
  <2>1. UNCHANGED <<records, events, failures>> /\ pc # "capture" /\ pc' # "capture"
    BY <1>3 DEF Moves, Finalizes, Leaves, Escape, Return, stores, Early
  <2> QED
    BY <1>1, <2>1
<1>4. CASE ResetIds \/ \E r \in Request, ask \in Ask : Submit(r, ask)
  <2>1. UNCHANGED <<records, events, failures>> /\ pc # "capture" /\ pc' # "capture"
    BY <1>4 DEF ResetIds, Submit, stores
  <2> QED
    BY <1>1, <2>1
<1>5. CASE StoreRecord
  <2> DEFINE id == ids.dec + 1
             new == Len(records) + 1
  <2>1. /\ pc = "finalize" /\ pc' = "capture" /\ UNCHANGED <<events, failures>>
        /\ get(id) = {}
        /\ records' = Append(records, DecisionRecord(id))
        /\ ids' = [ids EXCEPT !.dec = id]
    BY <1>5 DEF StoreRecord
  <2>2. /\ DOMAIN records' = DOMAIN records \cup {new}
        /\ \A i \in DOMAIN records : records'[i] = records[i]
        /\ Len(records') = Len(records) + 1
    BY <1>0, <2>1
  <2>3. ids'.dec = id
    <3>1. ids \in [dec : Nat, evt : Nat]
      BY <1>0 DEF TypeOK
    <3> QED
      BY <2>1, <3>1
  <2>4. \A e \in DOMAIN events : events[e].decision_id # id
    BY <2>1 DEF Balanced, Mirrors, get
  <2>5. Len(records') = Len(events) + failures + 1
    BY <1>0, <2>1, <2>2 DEF Balanced
  <2> QED
    BY <2>1, <2>2, <2>3, <2>4, <2>5 DEF Balanced
<1>6. CASE Capture
  <2> DEFINE event == TelemetryEvent(ids.evt + 1)
             new == Len(events) + 1
  <2>1. /\ pc = "capture" /\ pc' = "return" /\ UNCHANGED <<records, failures>>
        /\ events' = Append(events, event)
    BY <1>6 DEF Capture
  <2>2. /\ DOMAIN events' = DOMAIN events \cup {new}
        /\ \A e \in DOMAIN events : events'[e] = events[e]
        /\ events'[new] = event
        /\ Len(events') = Len(events) + 1
    BY <1>0, <2>1
  <2>3. /\ Recorded = records[Len(records)] /\ Len(records) \in DOMAIN records
        /\ Recorded.decision_id = ids.dec
    BY <1>0, <2>1 DEF StoredLast, Recorded, DecisionRecord
  <2>4. Mirrors(event, records[Len(records)])
    BY <2>3 DEF Mirrors, TelemetryEvent
  <2>5. event.decision_id = ids.dec
    BY <2>3, <2>4 DEF Mirrors
  <2>6. Len(records) = Len(events) + 1 + failures
    BY <1>0, <2>1 DEF Balanced
  <2>7. \A e \in DOMAIN events' : \E i \in DOMAIN records : Mirrors(events'[e], records[i])
    BY <2>2, <2>3, <2>4 DEF Balanced
  <2>8. \A e, f \in DOMAIN events' :
          events'[e].decision_id = events'[f].decision_id => e = f
    BY <2>1, <2>2, <2>5 DEF Balanced
  <2> QED
    BY <1>0, <2>1, <2>2, <2>6, <2>7, <2>8 DEF Balanced
<1>7. CASE CaptureFails
  <2>1. /\ pc = "capture" /\ pc' = "return" /\ UNCHANGED <<records, events>>
        /\ failures' = failures + 1
    BY <1>7 DEF CaptureFails
  <2>2. Len(records) = Len(events) + failures' + 0
    BY <1>0, <2>1 DEF Balanced
  <2> QED
    BY <2>1, <2>2 DEF Balanced
<1> QED
  BY <1>0, <1>2, <1>3, <1>4, <1>5, <1>6, <1>7, CallStep DEF Next

\* Telemetry is behind the decision store by what capture lost, and by the decision
\* in flight.
THEOREM BalancedAlways == SafetySpec => []Balanced
<1>1. Init => Balanced
  BY DEF Init, Balanced
<1> QED
  BY LedgerAlways, <1>1, NextKeepsBalance, PTL DEF SafetySpec

\* The records, the events and the failure counter always balance.
THEOREM TelemetryBalances == SafetySpec => []TelemetryAccountsForRecords
<1>1. Typed /\ Balanced => TelemetryAccountsForRecords
  <2> SUFFICES ASSUME Typed, Balanced PROVE TelemetryAccountsForRecords
    OBVIOUS
  <2>1. ASSUME NEW id PROVE Cardinality(EventsOf(id)) <= 1
    <3>1. CASE EventsOf(id) = {}
      BY <3>1, FS_EmptySet
    <3>2. CASE EventsOf(id) # {}
      <4>1. PICK e \in EventsOf(id) : TRUE
        BY <3>2
      <4>2. EventsOf(id) = {e}
        BY <4>1 DEF EventsOf, Balanced
      <4> QED
        BY <4>2, FS_Singleton
    <3> QED
      BY <3>1, <3>2
  <2> QED
    BY <2>1 DEF Balanced, Mirrors, TelemetryAccountsForRecords
<1> QED
  BY TypedAlways, BalancedAlways, <1>1, PTL

-------------------------------------------------------------------------------
(***************************************************************************)
(* What callers are told.                                                  *)
(***************************************************************************)
Result == [request : Request, decision : Decision, record : Record,
           authorization : {"ALLOWED", "DENIED"}, evidence_quality : Quality,
           generation_invoked : BOOLEAN, telemetry_captured : BOOLEAN]

\* In a history: the generator ran in the attempt of that number at a request.
RanFor(history, request, number) ==
  \E s \in history : /\ s.act = "generated"
                     /\ s.by.request = request
                     /\ s.by.number = number

\* In a sequence of events: the decision was captured.
CapturedIn(stored, id) == \E e \in DOMAIN stored : stored[e].decision_id = id

\* No attempt that is still to come has run, the one in progress has run if it
\* is past the generator, and the draft says whether it has.
RunsAreCounted ==
  /\ \A s \in seen : s.act = "generated" =>
       s.by.request \in Request /\ s.by.number \in 0 .. calls[s.by.request].attempts
  /\ pc \in Early =>
       (RanFor(seen, frame.request, calls[frame.request].attempts) <=> pc = "verify")
  /\ pc \in Final =>
       (RanFor(seen, frame.request, calls[frame.request].attempts)
          <=> draft.generation_invoked)

\* A result repeats the record of its request; every answered request has one.
ResultsRepeat ==
  /\ results \in Seq(Result)
  /\ \A k \in DOMAIN results :
       /\ calls[results[k].request].status = "answered"
       /\ \E i \in DOMAIN records : records[i] = results[k].record
       /\ results[k].record.request = results[k].request
       /\ results[k].record.outcome = results[k].decision.outcome
       /\ results[k].record.reason_code = results[k].decision.reason_code
       /\ results[k].generation_invoked
            <=> RanFor(seen, results[k].request, calls[results[k].request].attempts)
       /\ results[k].telemetry_captured
            <=> CapturedIn(events, results[k].record.decision_id)
  /\ \A k, l \in DOMAIN results : results[k].request = results[l].request => k = l
  /\ \A r \in Request : calls[r].status = "answered" =>
       \E k \in DOMAIN results : results[k].request = r

\* The draft says whether the decision in progress was captured.
CaptureIsKnown ==
  /\ pc \in {"finalize", "capture"} => ~draft.captured
  /\ pc = "return" => (draft.captured <=> CapturedIn(events, ids.dec))

LEMMA NextKeepsRuns == Typed /\ Ledger /\ RunsAreCounted /\ [Next]_vars => RunsAreCounted'
<1> SUFFICES ASSUME Typed, Ledger, RunsAreCounted, [Next]_vars PROVE RunsAreCounted'
  OBVIOUS
<1>0. /\ TypeOK
      /\ calls \in [Request -> [status : {"new", "running"} \cup Ended,
                                attempts : 0 .. MaxAttempts]]
  BY DEF Typed, TypeOK
<1>1. CASE UNCHANGED vars
  BY <1>1 DEF vars, RunsAreCounted
<1>2. ASSUME NEW r \in Request, NEW ask \in Ask, Submit(r, ask)
      PROVE  RunsAreCounted'
  <2>1. /\ pc' = "resolve" /\ frame'.request = r /\ UNCHANGED seen
        /\ calls' = [calls EXCEPT ![r] = [status |-> "running",
                                          attempts |-> calls[r].attempts + 1]]
    BY <1>2 DEF Submit
  <2>2. calls[r].attempts \in Nat /\ calls'[r].attempts = calls[r].attempts + 1
    BY <1>0, <2>1
  <2>3. \A q \in Request : q # r => calls'[q] = calls[q]
    BY <1>0, <2>1
  <2>4. ASSUME NEW s \in seen, s.act = "generated"
        PROVE  /\ s.by.request \in Request
               /\ s.by.number \in 0 .. calls'[s.by.request].attempts
               /\ ~(s.by.request = r /\ s.by.number = calls'[r].attempts)
    <3>1. s.by.request \in Request /\ s.by.number \in 0 .. calls[s.by.request].attempts
      BY <2>4 DEF RunsAreCounted
    <3>2. CASE s.by.request = r
      BY <2>2, <3>1, <3>2
    <3>3. CASE s.by.request # r
      BY <2>3, <3>1, <3>3
    <3> QED
      BY <3>2, <3>3
  <2> QED
    BY <2>1, <2>4 DEF RunsAreCounted, RanFor, Early, Final
<1>3. CASE Moves
  <2>1. /\ pc \in Early /\ pc' \in Early /\ UNCHANGED <<frame, calls, draft>>
        /\ pc' = "verify" <=> pc = "generate"
        /\ seen' = IF pc = "generate" THEN seen \cup {Generated} ELSE seen
    BY <1>3 DEF Moves, callers, Early
  <2>2. frame.request \in Request
    BY <1>0, <2>1, CallInProgress DEF Early
  <2>3. /\ Generated.act = "generated"
        /\ Generated.by.request = frame.request
        /\ Generated.by.number = calls[frame.request].attempts
    BY DEF Generated, Attempt
  <2>4. calls[frame.request].attempts \in 0 .. calls[frame.request].attempts
    BY <1>0, <2>2
  <2>5. \A s \in seen' : s.act = "generated" =>
          s.by.request \in Request /\ s.by.number \in 0 .. calls[s.by.request].attempts
    BY <2>1, <2>2, <2>3, <2>4 DEF RunsAreCounted
  <2>6. RanFor(seen', frame.request, calls[frame.request].attempts) <=> pc' = "verify"
    BY <1>3, <2>1, <2>3 DEF RunsAreCounted, RanFor, Moves
  <2> QED
    BY <2>1, <2>5, <2>6 DEF RunsAreCounted, Early, Final
<1>4. CASE Finalizes
  <2>1. /\ pc \in Early /\ pc' = "finalize" /\ UNCHANGED <<frame, calls>>
        /\ draft'.generation_invoked <=> pc = "verify"
        /\ \A s \in seen' : s \in seen \/ s.act # "generated"
        /\ seen \subseteq seen'
    BY <1>4 DEF Finalizes, callers, Judged
  <2> QED
    BY <2>1 DEF RunsAreCounted, RanFor, Early, Final
<1>5. CASE Leaves
  <2>1. PICK status \in Raised : Escape(status)
    BY <1>5 DEF Leaves
  <2>2. /\ pc' = "idle" /\ UNCHANGED seen
        /\ calls' = [calls EXCEPT ![frame.request].status = status]
    BY <1>5, <2>1 DEF Leaves, Escape
  <2>3. \A q \in Request : calls'[q].attempts = calls[q].attempts
    BY <1>0, <2>2
  <2> QED
    BY <2>2, <2>3 DEF RunsAreCounted, Early, Final
<1>6. CASE StoreRecord
  BY <1>6 DEF StoreRecord, callers, RunsAreCounted, Early, Final
<1>7. CASE Capture \/ CaptureFails
  <2>1. /\ pc = "capture" /\ pc' = "return" /\ UNCHANGED <<frame, calls, seen>>
        /\ draft'.generation_invoked = draft.generation_invoked
    BY <1>0, <1>7, CallInProgress DEF Capture, CaptureFails, callers, Draft, Final
  <2> QED
    BY <2>1 DEF RunsAreCounted, Early, Final
<1>8. CASE Return
  <2>1. /\ pc' = "idle" /\ UNCHANGED seen
        /\ calls' = [calls EXCEPT ![frame.request].status = "answered"]
    BY <1>8 DEF Return
  <2>2. \A q \in Request : calls'[q].attempts = calls[q].attempts
    BY <1>0, <2>1
  <2> QED
    BY <2>1, <2>2 DEF RunsAreCounted, Early, Final
<1>9. CASE ResetIds
  BY <1>9 DEF ResetIds, RunsAreCounted, Early, Final
<1> QED
  BY <1>0, <1>1, <1>2, <1>3, <1>4, <1>5, <1>6, <1>7, <1>8, <1>9, CallStep DEF Next

LEMMA NextKeepsCapture ==
  Typed /\ Balanced /\ CaptureIsKnown /\ [Next]_vars => CaptureIsKnown'
<1> SUFFICES ASSUME Typed, Balanced, CaptureIsKnown, [Next]_vars PROVE CaptureIsKnown'
  OBVIOUS
<1>0. TypeOK /\ StoredLast /\ events \in Seq(Event)
  BY DEF Typed, TypeOK
<1>1. CASE UNCHANGED vars
  BY <1>1 DEF vars, CaptureIsKnown
<1>2. CASE Moves \/ Leaves \/ Return
  <2>1. pc' \notin {"finalize", "capture", "return"}
    BY <1>2 DEF Moves, Leaves, Escape, Return, Early
  <2> QED
    BY <2>1 DEF CaptureIsKnown
<1>3. CASE ResetIds \/ \E r \in Request, ask \in Ask : Submit(r, ask)
  <2>1. pc' \notin {"finalize", "capture", "return"}
    BY <1>3 DEF ResetIds, Submit
  <2> QED
    BY <2>1 DEF CaptureIsKnown
<1>4. CASE Finalizes
  BY <1>4 DEF Finalizes, CaptureIsKnown
<1>5. CASE StoreRecord
  BY <1>5 DEF StoreRecord, CaptureIsKnown
<1>6. CASE Capture
  <2> DEFINE event == TelemetryEvent(ids.evt + 1)
  <2>1. /\ pc = "capture" /\ pc' = "return" /\ events' = Append(events, event)
        /\ draft' = [draft EXCEPT !.captured = TRUE]
        /\ ids' = [ids EXCEPT !.evt = @ + 1]
    BY <1>6 DEF Capture
  <2>2. draft'.captured /\ ids'.dec = ids.dec
    <3>1. draft \in Draft /\ ids \in [dec : Nat, evt : Nat]
      BY <1>0, <2>1, CallInProgress DEF Final, TypeOK
    <3> QED
      BY <2>1, <3>1 DEF Draft
  <2>3. Recorded.decision_id = ids.dec
    BY <1>0, <2>1 DEF StoredLast, DecisionRecord
  <2>4. event.decision_id = ids.dec
    BY <2>3 DEF TelemetryEvent
  <2>5. Len(events) + 1 \in DOMAIN events' /\ events'[Len(events) + 1] = event
    BY <1>0, <2>1
  <2>6. CapturedIn(events', ids.dec)
    BY <2>4, <2>5 DEF CapturedIn
  <2> QED
    BY <2>1, <2>2, <2>6 DEF CaptureIsKnown
<1>7. CASE CaptureFails
  <2>1. /\ pc = "capture" /\ pc' = "return" /\ UNCHANGED <<events, draft>>
        /\ ids' = [ids EXCEPT !.evt = @ + 1]
    BY <1>7 DEF CaptureFails
  <2>2. ids'.dec = ids.dec
    <3>1. ids \in [dec : Nat, evt : Nat]
      BY <1>0 DEF TypeOK
    <3> QED
      BY <2>1, <3>1
  <2>3. ~CapturedIn(events, ids.dec)
    BY <2>1 DEF Balanced, CapturedIn
  <2> QED
    BY <2>1, <2>2, <2>3 DEF CaptureIsKnown
<1> QED
  BY <1>0, <1>1, <1>2, <1>3, <1>4, <1>5, <1>6, <1>7, CallStep DEF Next

LEMMA ResultsHaveRequests ==
  ASSUME ResultsRepeat
  PROVE  \A k \in DOMAIN results : results[k].request \in Request
<1>1. results \in Seq(Result)
  BY DEF ResultsRepeat
<1>2. \A k \in DOMAIN results : results[k] \in Result
  BY <1>1
<1> QED
  BY <1>2 DEF Result

\* A step that hands nothing to a caller, and does not touch what results tell.
LEMMA ResultsStay ==
  ASSUME ResultsRepeat, UNCHANGED results,
         \A r \in Request : calls'[r].status = "answered" <=> calls[r].status = "answered",
         \A r \in Request : calls[r].status = "answered" =>
           /\ calls'[r].attempts = calls[r].attempts
           /\ \A n : RanFor(seen', r, n) <=> RanFor(seen, r, n),
         \A i \in DOMAIN records : i \in DOMAIN records' /\ records'[i] = records[i],
         \A k \in DOMAIN results :
           CapturedIn(events', results[k].record.decision_id)
             <=> CapturedIn(events, results[k].record.decision_id)
  PROVE  ResultsRepeat'
<1>1. \A k \in DOMAIN results : results[k].request \in Request
  BY ResultsHaveRequests
<1>2. ASSUME NEW k \in DOMAIN results
      PROVE  /\ calls'[results[k].request].status = "answered"
             /\ \E i \in DOMAIN records' : records'[i] = results[k].record
             /\ results[k].generation_invoked
                  <=> RanFor(seen', results[k].request, calls'[results[k].request].attempts)
             /\ results[k].telemetry_captured
                  <=> CapturedIn(events', results[k].record.decision_id)
  BY <1>1 DEF ResultsRepeat
<1> QED
  BY <1>2 DEF ResultsRepeat

LEMMA NextKeepsResults ==
  /\ Typed /\ Ledger /\ Balanced /\ RunsAreCounted /\ CaptureIsKnown /\ ResultsRepeat
  /\ [Next]_vars
  => ResultsRepeat'
<1> SUFFICES ASSUME Typed, Ledger, Balanced, RunsAreCounted, CaptureIsKnown,
                    ResultsRepeat, [Next]_vars
             PROVE  ResultsRepeat'
  OBVIOUS
<1>0. /\ TypeOK /\ StoredLast /\ OneCall /\ IdentifiersDiffer
      /\ records \in Seq(Record) /\ events \in Seq(Event)
      /\ calls \in [Request -> [status : {"new", "running"} \cup Ended,
                                attempts : 0 .. MaxAttempts]]
      /\ \A k \in DOMAIN results : results[k].request \in Request
  <2>1. \A k \in DOMAIN results : results[k].request \in Request
    BY ResultsHaveRequests
  <2> QED
    BY <2>1 DEF Typed, TypeOK, Ledger
<1>1. CASE UNCHANGED vars
  BY <1>1 DEF vars, ResultsRepeat
<1>2. ASSUME NEW r \in Request, NEW ask \in Ask, Submit(r, ask)
      PROVE  ResultsRepeat'
  <2>1. /\ UNCHANGED <<records, events, results, seen>>
        /\ calls[r].status # "answered"
        /\ calls' = [calls EXCEPT ![r] = [status |-> "running",
                                          attempts |-> calls[r].attempts + 1]]
    BY <1>2 DEF Submit, stores, Raised, Ended
  <2>2. \A q \in Request :
          /\ calls'[q].status = "answered" <=> calls[q].status = "answered"
          /\ calls[q].status = "answered" => calls'[q].attempts = calls[q].attempts
    BY <1>0, <2>1
  <2> QED
    BY <2>1, <2>2, ResultsStay
<1>3. CASE Moves
  <2>1. /\ pc # "idle" /\ UNCHANGED <<records, events, results, calls>>
        /\ seen' = seen \/ seen' = seen \cup {Generated}
    BY <1>3 DEF Moves, stores, callers, Early
  <2>2. Generated.by.request = frame.request
    BY DEF Generated, Attempt
  <2>3. \A r \in Request : calls[r].status = "answered" =>
          \A n : RanFor(seen', r, n) <=> RanFor(seen, r, n)
    BY <1>0, <2>1, <2>2 DEF OneCall, RanFor
  <2> QED
    BY <2>1, <2>3, ResultsStay
<1>4. CASE Finalizes
  <2>1. /\ UNCHANGED <<records, events, results, calls>>
        /\ \A s \in seen' : s \in seen \/ s.act # "generated"
        /\ seen \subseteq seen'
    BY <1>4 DEF Finalizes, stores, callers, Judged
  <2>2. \A r, n : RanFor(seen', r, n) <=> RanFor(seen, r, n)
    BY <2>1 DEF RanFor
  <2> QED
    BY <2>1, <2>2, ResultsStay
<1>5. CASE Leaves
  <2>1. PICK status \in Raised : Escape(status)
    BY <1>5 DEF Leaves
  <2>2. /\ pc # "idle" /\ UNCHANGED <<records, events, results, seen>>
        /\ calls' = [calls EXCEPT ![frame.request].status = status]
        /\ status # "answered"
    BY <1>5, <2>1 DEF Leaves, Escape, Early, Raised
  <2>3. frame.request \in Request
    BY <1>0, <2>2, CallInProgress
  <2>4. \A q \in Request :
          /\ calls'[q].status = "answered" <=> calls[q].status = "answered"
          /\ calls'[q].attempts = calls[q].attempts
    BY <1>0, <2>2, <2>3 DEF OneCall
  <2> QED
    BY <2>2, <2>4, ResultsStay
<1>6. CASE StoreRecord
  <2>1. /\ UNCHANGED <<events, results, seen, calls>>
        /\ records' = Append(records, DecisionRecord(ids.dec + 1))
    BY <1>6 DEF StoreRecord, callers
  <2>2. \A i \in DOMAIN records : i \in DOMAIN records' /\ records'[i] = records[i]
    BY <1>0, <2>1
  <2> QED
    BY <2>1, <2>2, ResultsStay
<1>7. CASE Capture
  <2> DEFINE event == TelemetryEvent(ids.evt + 1)
  <2>1. /\ pc = "capture" /\ UNCHANGED <<records, results, seen, calls>>
        /\ events' = Append(events, event)
    BY <1>7 DEF Capture, callers
  <2>2. /\ Len(records) \in DOMAIN records /\ Recorded = records[Len(records)]
        /\ Recorded.request = frame.request
        /\ event.decision_id = Recorded.decision_id
    BY <1>0, <2>1 DEF StoredLast, Recorded, DecisionRecord, TelemetryEvent
  <2>3. /\ DOMAIN events' = DOMAIN events \cup {Len(events) + 1}
        /\ \A e \in DOMAIN events : events'[e] = events[e]
        /\ events'[Len(events) + 1] = event
    BY <1>0, <2>1
  <2>4. ASSUME NEW k \in DOMAIN results
        PROVE  results[k].record.decision_id # event.decision_id
    <3>1. PICK i \in DOMAIN records : records[i] = results[k].record
      BY DEF ResultsRepeat
    <3>2. records[i].request # frame.request
      BY <1>0, <2>1, <3>1 DEF ResultsRepeat, OneCall
    <3> QED
      BY <1>0, <2>2, <3>1, <3>2 DEF IdentifiersDiffer
  <2>5. \A k \in DOMAIN results :
          CapturedIn(events', results[k].record.decision_id)
            <=> CapturedIn(events, results[k].record.decision_id)
    BY <2>3, <2>4 DEF CapturedIn
  <2> QED
    BY <2>1, <2>5, ResultsStay
<1>8. CASE CaptureFails
  <2>1. UNCHANGED <<records, events, results, seen, calls>>
    BY <1>8 DEF CaptureFails, callers
  <2> QED
    BY <2>1, ResultsStay
<1>9. CASE Return
  <2> DEFINE new == Len(results) + 1
             q == frame.request
  <2>1. /\ pc = "return" /\ UNCHANGED <<records, events, seen>>
        /\ calls' = [calls EXCEPT ![q].status = "answered"]
        /\ results' = Append(results, GovernedResult)
    BY <1>9 DEF Return, stores
  <2>2. /\ q \in Request /\ draft \in Draft
        /\ calls[q].status = "running"
    BY <1>0, <2>1, CallInProgress DEF Final, OneCall
  <2>3. /\ \A r \in Request : r # q => calls'[r] = calls[r]
        /\ calls'[q].status = "answered" /\ calls'[q].attempts = calls[q].attempts
    BY <1>0, <2>1, <2>2
  <2>4. /\ Recorded = DecisionRecord(ids.dec) /\ Recorded = records[Len(records)]
        /\ Len(records) \in DOMAIN records /\ Recorded \in Record
    BY <1>0, <2>1 DEF StoredLast, Recorded
  <2>5. GovernedResult \in Result
    BY <2>2, <2>4 DEF GovernedResult, Result, Draft
  <2>6. /\ results \in Seq(Result) /\ results' \in Seq(Result)
        /\ DOMAIN results' = DOMAIN results \cup {new}
        /\ new \notin DOMAIN results
        /\ \A k \in DOMAIN results : results'[k] = results[k]
        /\ results'[new] = GovernedResult
    BY <2>1, <2>5 DEF ResultsRepeat
  <2>7. /\ GovernedResult.request = q
        /\ GovernedResult.record = Recorded
        /\ GovernedResult.record.request = q
        /\ GovernedResult.record.outcome = GovernedResult.decision.outcome
        /\ GovernedResult.record.reason_code = GovernedResult.decision.reason_code
        /\ GovernedResult.record.decision_id = ids.dec
        /\ GovernedResult.generation_invoked = draft.generation_invoked
        /\ GovernedResult.telemetry_captured = draft.captured
    BY <2>4 DEF GovernedResult, DecisionRecord
  <2>8. /\ draft.generation_invoked <=> RanFor(seen, q, calls[q].attempts)
        /\ draft.captured <=> CapturedIn(events, ids.dec)
    BY <2>1 DEF RunsAreCounted, CaptureIsKnown, Final
  <2>9. \A k \in DOMAIN results : results[k].request # q
    BY <2>2 DEF ResultsRepeat
  <2>10. ASSUME NEW k \in DOMAIN results'
         PROVE  /\ calls'[results'[k].request].status = "answered"
                /\ \E i \in DOMAIN records : records[i] = results'[k].record
                /\ results'[k].record.request = results'[k].request
                /\ results'[k].record.outcome = results'[k].decision.outcome
                /\ results'[k].record.reason_code = results'[k].decision.reason_code
                /\ results'[k].generation_invoked
                     <=> RanFor(seen, results'[k].request,
                                calls'[results'[k].request].attempts)
                /\ results'[k].telemetry_captured
                     <=> CapturedIn(events, results'[k].record.decision_id)
    <3>1. CASE k = new
      BY <2>3, <2>4, <2>6, <2>7, <2>8, <3>1
    <3>2. CASE k \in DOMAIN results
      <4>1. results'[k] = results[k] /\ calls'[results[k].request] = calls[results[k].request]
        BY <1>0, <2>3, <2>6, <2>9, <3>2
      <4> QED
        BY <3>2, <4>1 DEF ResultsRepeat
    <3> QED
      BY <2>6, <3>1, <3>2
  <2>11. \A k, l \in DOMAIN results' : results'[k].request = results'[l].request => k = l
    BY <2>6, <2>7, <2>9 DEF ResultsRepeat
  <2>12. ASSUME NEW r \in Request, calls'[r].status = "answered"
         PROVE  \E k \in DOMAIN results' : results'[k].request = r
    <3>1. CASE r = q
      BY <2>6, <2>7, <3>1
    <3>2. CASE r # q
      BY <2>3, <2>6, <2>12, <3>2 DEF ResultsRepeat
    <3> QED
      BY <3>1, <3>2
  <2> QED
    BY <2>1, <2>6, <2>10, <2>11, <2>12 DEF ResultsRepeat
<1>10. CASE ResetIds
  <2>1. UNCHANGED <<records, events, results, seen, calls>>
    BY <1>10 DEF ResetIds
  <2> QED
    BY <2>1, ResultsStay
<1> QED
  BY <1>0, <1>1, <1>2, <1>3, <1>4, <1>5, <1>6, <1>7, <1>8, <1>9, <1>10, CallStep DEF Next

LEMMA InitResults == Init => RunsAreCounted /\ CaptureIsKnown /\ ResultsRepeat
BY DEF Init, RunsAreCounted, CaptureIsKnown, ResultsRepeat, Early, Final

\* A result repeats the record it was made from.
THEOREM ResultsAlways == SafetySpec => []ResultsRepeat
BY LedgerAlways, BalancedAlways, InitResults, NextKeepsRuns, NextKeepsCapture,
   NextKeepsResults, PTL DEF SafetySpec

\* What a caller was told is what the stores hold, now and ever after.
THEOREM ToldFaithfully == SafetySpec => []ResultsAreFaithful
<1>1. ResultsRepeat => ResultsAreFaithful
  <2> SUFFICES ASSUME ResultsRepeat, NEW k \in DOMAIN results
               PROVE  /\ \E i \in DOMAIN records : records[i] = results[k].record
                      /\ results[k].record.request = results[k].request
                      /\ results[k].record.outcome = results[k].decision.outcome
                      /\ results[k].record.reason_code = results[k].decision.reason_code
                      /\ results[k].telemetry_captured
                           <=> EventsOf(results[k].record.decision_id) # {}
                      /\ results[k].generation_invoked <=>
                           \E s \in seen : /\ s.act = "generated"
                                           /\ s.by.request = results[k].request
                                           /\ s.by.number = calls[results[k].request].attempts
    BY DEF ResultsAreFaithful
  <2>1. \A id : CapturedIn(events, id) <=> EventsOf(id) # {}
    BY DEF CapturedIn, EventsOf
  <2> QED
    BY <2>1 DEF ResultsRepeat, RanFor
<1> QED
  BY ResultsAlways, <1>1, PTL

-------------------------------------------------------------------------------
(***************************************************************************)
(* The request path keeps its promise (GovernedDecision): each step maps   *)
(* to a step of the promise, or to none.                                   *)
(***************************************************************************)
\* What the refinement maps status, ledger and told to.
Statuses == [r \in Request |-> PromisedStatus(r)]

Decisions == [i \in DOMAIN records |-> [request |-> records[i].request,
                                       outcome |-> records[i].outcome]]

ToldTo(r) ==
  IF ResultsOf(r) = {} THEN None
  ELSE LET k == CHOOSE k \in ResultsOf(r) : TRUE IN results[k].decision.outcome

Answers == [r \in Request |-> ToldTo(r)]

LEMMA PromiseMaps ==
  /\ Promise!Init <=>
       /\ Statuses = [r \in Request |-> "new"]
       /\ Decisions = <<>>
       /\ Answers = [r \in Request |-> "none"]
  /\ UNCHANGED Promise!vars <=> UNCHANGED <<Statuses, Decisions, Answers>>
  /\ \A r : Promise!InLedger(r) <=> \E i \in DOMAIN Decisions : Decisions[i].request = r
  /\ \A r : Promise!Open(r) <=>
       /\ \A other \in Request : Statuses[other] # "open"
       /\ Statuses[r] \in {"new", "raised"}
       /\ Statuses' = [Statuses EXCEPT ![r] = "open"]
       /\ UNCHANGED <<Decisions, Answers>>
  /\ \A r, outcome : Promise!Decide(r, outcome) <=>
       /\ Statuses[r] = "open"
       /\ ~Promise!InLedger(r)
       /\ Decisions' = Append(Decisions, [request |-> r, outcome |-> outcome])
       /\ UNCHANGED <<Statuses, Answers>>
  /\ \A r : Promise!Answer(r) <=>
       /\ Statuses[r] = "open"
       /\ \E i \in DOMAIN Decisions :
            /\ Decisions[i].request = r
            /\ Answers' = [Answers EXCEPT ![r] = Decisions[i].outcome]
       /\ Statuses' = [Statuses EXCEPT ![r] = "answered"]
       /\ UNCHANGED Decisions
  /\ \A r : Promise!Raise(r) <=>
       /\ Statuses[r] = "open"
       /\ ~Promise!InLedger(r)
       /\ Statuses' = [Statuses EXCEPT ![r] = "raised"]
       /\ UNCHANGED <<Decisions, Answers>>
BY DEF Promise!Init, Promise!vars, Promise!InLedger, Promise!Open, Promise!Decide,
       Promise!Answer, Promise!Raise, Promise!Untold, Statuses, Decisions, Answers, ToldTo

LEMMA PromiseStarts == Init => Promise!Init
<1> SUFFICES ASSUME Init PROVE Promise!Init
  OBVIOUS
<1>1. Statuses = [r \in Request |-> "new"]
  BY DEF Init, Statuses, PromisedStatus, Raised, Ended
<1>2. Decisions = <<>>
  BY DEF Init, Decisions
<1>3. Answers = [r \in Request |-> "none"]
  BY DEF Init, Answers, ToldTo, ResultsOf, None
<1> QED
  BY <1>1, <1>2, <1>3, PromiseMaps

\* The status of one request changes when its call's does.
LEMMA StatusesFollow ==
  ASSUME TypeOK, NEW q \in Request, NEW status,
         calls'[q].status = status,
         \A r \in Request : r # q => calls'[r] = calls[r]
  PROVE  Statuses' = [Statuses EXCEPT ![q] = IF status = "running" THEN "open"
                                             ELSE IF status \in Raised THEN "raised"
                                             ELSE status]
<1>1. "running" \notin Raised
  BY DEF Raised, Ended
<1>2. \A r \in Request :
        PromisedStatus(r)' = IF r = q THEN IF status = "running" THEN "open"
                                           ELSE IF status \in Raised THEN "raised"
                                           ELSE status
                             ELSE PromisedStatus(r)
  BY <1>1 DEF PromisedStatus
<1> QED
  BY <1>2 DEF Statuses

\* Nothing a promise is about changes with the rest of the state.
LEMMA PromiseStutters ==
  ASSUME UNCHANGED <<calls, records, results>>
  PROVE  UNCHANGED Promise!vars
<1>1. UNCHANGED Statuses
  BY DEF Statuses, PromisedStatus
<1>2. UNCHANGED Decisions
  BY DEF Decisions
<1>3. UNCHANGED Answers
  BY DEF Answers, ToldTo, ResultsOf
<1> QED
  BY <1>1, <1>2, <1>3, PromiseMaps

\* The promise has no decision for a request in progress until it is stored.
LEMMA LedgerFollows ==
  ASSUME NEW r
  PROVE  Promise!InLedger(r) <=> RecordsOf(r) # {}
<1>1. Promise!InLedger(r) <=> \E i \in DOMAIN Decisions : Decisions[i].request = r
  BY PromiseMaps
<1>2. DOMAIN Decisions = DOMAIN records
  BY DEF Decisions
<1>3. \A i \in DOMAIN records : Decisions[i].request = records[i].request
  BY DEF Decisions
<1>4. RecordsOf(r) # {} <=> \E i \in DOMAIN records : records[i].request = r
  BY DEF RecordsOf
<1> QED
  BY <1>1, <1>2, <1>3, <1>4

\* A request whose call runs is open in the promise.
LEMMA RunningIsOpen ==
  ASSUME NEW r \in Request, calls[r].status = "running"
  PROVE  Statuses[r] = "open"
<1>1. PromisedStatus(r) = "open"
  BY DEF PromisedStatus, Raised, Ended
<1> QED
  BY <1>1 DEF Statuses

\* How a step of the promise is shown.
LEMMA Decides ==
  ASSUME NEW r, NEW outcome, Statuses[r] = "open", ~Promise!InLedger(r),
         Decisions' = Append(Decisions, [request |-> r, outcome |-> outcome]),
         UNCHANGED Statuses, UNCHANGED Answers
  PROVE  Promise!Decide(r, outcome)
BY PromiseMaps

LEMMA PromiseStep ==
  Typed /\ Ledger /\ ResultsRepeat /\ [Next]_vars => [Promise!Next]_Promise!vars
<1> SUFFICES ASSUME Typed, Ledger, ResultsRepeat, [Next]_vars
             PROVE  Promise!Next \/ UNCHANGED Promise!vars
  OBVIOUS
<1>0. /\ TypeOK /\ StoredLast /\ OneCall /\ RecordedOnce /\ records \in Seq(Record)
      /\ calls \in [Request -> [status : {"new", "running"} \cup Ended,
                                attempts : 0 .. MaxAttempts]]
  BY DEF Typed, TypeOK, Ledger
<1>1. CASE UNCHANGED vars
  BY <1>1, PromiseStutters DEF vars
<1>2. ASSUME NEW r \in Request, NEW ask \in Ask, Submit(r, ask)
      PROVE  Promise!Next
  <2>1. /\ pc = "idle" /\ calls[r].status \in {"new"} \cup Raised
        /\ UNCHANGED <<records, results>>
        /\ calls' = [calls EXCEPT ![r] = [status |-> "running",
                                          attempts |-> calls[r].attempts + 1]]
    BY <1>2 DEF Submit, stores
  <2>2. /\ calls'[r].status = "running"
        /\ \A q \in Request : q # r => calls'[q] = calls[q]
    BY <1>0, <2>1
  <2>3. Statuses' = [Statuses EXCEPT ![r] = "open"]
    BY <1>0, <2>2, StatusesFollow
  <2>4. Statuses[r] \in {"new", "raised"}
    BY <2>1 DEF Statuses, PromisedStatus, Raised, Ended
  <2>5. \A other \in Request : Statuses[other] # "open"
    BY <1>0, <2>1 DEF OneCall, Statuses, PromisedStatus, Raised, Ended
  <2>6. UNCHANGED <<Decisions, Answers>>
    BY <2>1 DEF Decisions, Answers, ToldTo, ResultsOf
  <2> QED
    BY <2>3, <2>4, <2>5, <2>6, PromiseMaps DEF Promise!Next
<1>3. CASE Moves \/ Finalizes
  BY <1>3, PromiseStutters DEF Moves, Finalizes, stores, callers
<1>4. CASE Leaves
  <2> DEFINE q == frame.request
  <2>1. PICK status \in Raised : Escape(status)
    BY <1>4 DEF Leaves
  <2>2. /\ pc \in Early \cup {"finalize"} /\ UNCHANGED <<records, results>>
        /\ calls' = [calls EXCEPT ![q].status = status]
    BY <1>4, <2>1 DEF Leaves, Escape
  <2>3. q \in Request /\ calls[q].status = "running"
    BY <1>0, <2>2, CallInProgress DEF OneCall, Early
  <2>4. /\ calls'[q].status = status
        /\ \A r \in Request : r # q => calls'[r] = calls[r]
    BY <1>0, <2>2, <2>3
  <2>5. status # "running"
    BY <2>1 DEF Raised, Ended
  <2>6. Statuses' = [Statuses EXCEPT ![q] = "raised"]
    BY <1>0, <2>1, <2>3, <2>4, <2>5, StatusesFollow
  <2>7. Statuses[q] = "open"
    BY <2>3, RunningIsOpen
  <2>8. ~Promise!InLedger(q)
    BY <1>0, <2>2, <2>3, LedgerFollows DEF RecordedOnce, HasDecision, Early
  <2>9. UNCHANGED <<Decisions, Answers>>
    BY <2>2 DEF Decisions, Answers, ToldTo, ResultsOf
  <2>10. Promise!Raise(q)
    BY <2>6, <2>7, <2>8, <2>9, PromiseMaps
  <2> QED
    BY <2>3, <2>10 DEF Promise!Next, Promise!Progress
<1>5. CASE StoreRecord
  <2> DEFINE q == frame.request
             record == DecisionRecord(ids.dec + 1)
  <2>1. /\ pc = "finalize" /\ UNCHANGED <<calls, results>>
        /\ records' = Append(records, record)
    BY <1>5 DEF StoreRecord, callers
  <2>2. /\ q \in Request /\ calls[q].status = "running" /\ DraftIsSound(draft)
    BY <1>0, <2>1, CallInProgress DEF OneCall, Typed, DraftOK, Final
  <2>3. record.request = q /\ record.outcome \in {"GROUNDED", "REFUSED"}
    BY <2>2 DEF DecisionRecord, DraftIsSound, Draft, Decision, DecisionOutcome
  <2>4. Statuses[q] = "open" /\ UNCHANGED Statuses /\ UNCHANGED Answers
    <3>1. Statuses[q] = "open"
      BY <2>2, RunningIsOpen
    <3>2. UNCHANGED Statuses
      BY <2>1 DEF Statuses, PromisedStatus
    <3>3. UNCHANGED Answers
      BY <2>1 DEF Answers, ToldTo, ResultsOf
    <3> QED
      BY <3>1, <3>2, <3>3
  <2>5. ~Promise!InLedger(q)
    BY <1>0, <2>1, <2>2, LedgerFollows DEF RecordedOnce, HasDecision
  <2>6. Decisions' = Append(Decisions, [request |-> q, outcome |-> record.outcome])
    <3> DEFINE decided(r) == [request |-> r.request, outcome |-> r.outcome]
               Outcomes == {decided(records[i]) : i \in DOMAIN records}
    <3>1. /\ DOMAIN records = 1 .. Len(records) /\ Len(records) \in Nat
          /\ records' \in Seq(Record \cup {record})
          /\ DOMAIN records' = 1 .. Len(records) + 1
          /\ \A i \in 1 .. Len(records) : records'[i] = records[i]
          /\ records'[Len(records) + 1] = record
      BY <1>0, <2>1
    <3>2. Decisions = [i \in 1 .. Len(records) |-> decided(records[i])]
      BY <3>1 DEF Decisions
    <3>3. Decisions \in Seq(Outcomes) /\ Len(Decisions) = Len(records)
      BY <3>1, <3>2
    <3>4. Append(Decisions, decided(record))
            = [i \in 1 .. Len(records) + 1 |->
                 IF i = Len(records) + 1 THEN decided(record) ELSE decided(records[i])]
      BY <3>1, <3>2, <3>3
    <3>5. Decisions' = [i \in 1 .. Len(records) + 1 |-> decided(records'[i])]
      BY <3>1 DEF Decisions
    <3>6. decided(record) = [request |-> q, outcome |-> record.outcome]
      BY <2>3
    <3>7. \A i \in 1 .. Len(records) + 1 :
            decided(records'[i]) = IF i = Len(records) + 1 THEN decided(record)
                                                           ELSE decided(records[i])
      BY <3>1
    <3> HIDE DEF decided, record
    <3>8. Decisions' = Append(Decisions, decided(record))
      BY <3>4, <3>5, <3>7
    <3> QED
      BY <3>6, <3>8
  <2>7. PICK outcome \in {"GROUNDED", "REFUSED"} : outcome = record.outcome
    BY <2>3
  <2> HIDE DEF record, q
  <2>8. Decisions' = Append(Decisions, [request |-> q, outcome |-> outcome])
    BY <2>6, <2>7
  <2>9. Promise!Decide(q, outcome)
    BY <2>4, <2>5, <2>8, Decides
  <2> QED
    BY <2>2, <2>7, <2>9 DEF Promise!Next, Promise!Progress, Promise!Outcome
<1>6. CASE Capture \/ CaptureFails
  BY <1>6, PromiseStutters DEF Capture, CaptureFails, callers
<1>7. CASE Return
  <2>0. PICK q \in Request : q = frame.request
    BY <1>0, <1>7, CallInProgress DEF Return
  <2> DEFINE new == Len(results) + 1
             last == Len(records)
  <2>1. /\ pc = "return" /\ UNCHANGED records
        /\ calls' = [calls EXCEPT ![q].status = "answered"]
        /\ results' = Append(results, GovernedResult)
    BY <1>7, <2>0 DEF Return, stores
  <2>2. q \in Request /\ calls[q].status = "running"
    BY <1>0, <2>0, <2>1 DEF OneCall
  <2>3. /\ calls'[q].status = "answered"
        /\ \A r \in Request : r # q => calls'[r] = calls[r]
    BY <1>0, <2>1, <2>2
  <2>4. Statuses[q] = "open" /\ Statuses' = [Statuses EXCEPT ![q] = "answered"]
    <3>1. "answered" \notin Raised
      BY DEF Raised
    <3>2. Statuses' = [Statuses EXCEPT ![q] = "answered"]
      BY <1>0, <2>2, <2>3, <3>1, StatusesFollow
    <3> QED
      BY <2>2, <3>2, RunningIsOpen
  <2>5. /\ last \in DOMAIN records /\ records[last].request = q
        /\ records[last].outcome = draft.decision.outcome
    BY <1>0, <2>0, <2>1 DEF StoredLast, Recorded, DecisionRecord
  <2>6. /\ results \in Seq(Result)
        /\ \A k \in DOMAIN results : results[k].request # q
    BY <2>2 DEF ResultsRepeat
  <2>7. /\ DOMAIN results' = DOMAIN results \cup {new} /\ new \notin DOMAIN results
        /\ \A k \in DOMAIN results : results'[k] = results[k]
        /\ results'[new] = GovernedResult
    BY <2>1, <2>6
  <2>8. GovernedResult.request = q /\ GovernedResult.decision = draft.decision
    BY <2>0 DEF GovernedResult
  <2>9. ToldTo(q)' = draft.decision.outcome
    <3>1. ResultsOf(q)' = {new}
      <4>1. \A k \in DOMAIN results' : results'[k].request = q <=> k = new
        BY <2>6, <2>7, <2>8
      <4> QED
        BY <2>7, <4>1 DEF ResultsOf
    <3> QED
      BY <2>7, <2>8, <3>1 DEF ToldTo
  <2>10. ASSUME NEW r \in Request, r # q
         PROVE  ToldTo(r)' = ToldTo(r)
    <3>1. ResultsOf(r)' = ResultsOf(r) /\ ResultsOf(r) \subseteq DOMAIN results
      BY <2>7, <2>8, <2>10 DEF ResultsOf
    <3>2. CASE ResultsOf(r) = {}
      BY <3>1, <3>2 DEF ToldTo
    <3>3. CASE ResultsOf(r) # {}
      <4>1. (CHOOSE k \in ResultsOf(r) : TRUE) \in ResultsOf(r)
        BY <3>3
      <4> QED
        BY <2>7, <3>1, <3>3, <4>1 DEF ToldTo
    <3> QED
      BY <3>2, <3>3
  <2>11. Answers' = [Answers EXCEPT ![q] = draft.decision.outcome]
    <3> DEFINE told == draft.decision.outcome
    <3>1. \A r \in Request : ToldTo(r)' = IF r = q THEN told ELSE ToldTo(r)
      BY <2>9, <2>10
    <3>2. Answers' = [r \in Request |-> IF r = q THEN told ELSE ToldTo(r)]
      BY <3>1 DEF Answers
    <3>3. Answers = [r \in Request |-> Answers[r]]
          /\ \A r \in Request : Answers[r] = ToldTo(r)
      BY DEF Answers
    <3> HIDE DEF told
    <3>4. [Answers EXCEPT ![q] = told]
            = [r \in Request |-> IF r = q THEN told ELSE ToldTo(r)]
      BY <2>2, <3>3, Zenon
    <3> QED
      BY <3>2, <3>4 DEF told
  <2>12. /\ last \in DOMAIN Decisions /\ Decisions[last].request = q
         /\ Decisions[last].outcome = draft.decision.outcome
    BY <2>5 DEF Decisions
  <2>13. UNCHANGED Decisions
    BY <2>1 DEF Decisions
  <2>14. Promise!Answer(q)
    BY <2>4, <2>11, <2>12, <2>13, PromiseMaps
  <2> QED
    BY <2>2, <2>14 DEF Promise!Next, Promise!Progress
<1>8. CASE ResetIds
  BY <1>8, PromiseStutters DEF ResetIds
<1> QED
  BY <1>0, <1>1, <1>2, <1>3, <1>4, <1>5, <1>6, <1>7, <1>8, CallStep DEF Next

\* The request path implements the safety of its promise; that a call once opened
\* also ends is liveness, and left to the model checker.
THEOREM PromiseIsKept == SafetySpec => Promise!Init /\ [][Promise!Next]_Promise!vars
BY PromiseStarts, PromiseStep, LedgerAlways, ResultsAlways, PTL DEF SafetySpec

===============================================================================
