----------------------------- MODULE TrustService -----------------------------
(***************************************************************************)
(* The governed request path: TrustService.handle() and _finalize() of     *)
(* decisions/service.py, with the decision store, the telemetry recorder   *)
(* and the sequential identifier factory they write to.                    *)
(*                                                                         *)
(* handle() is one synchronous call.  It is split where foreign code runs  *)
(* (authorizer, generator, verifier, telemetry store) or where an          *)
(* exception can leave it, so that what has and has not happened by then   *)
(* can be told.  Calls do not overlap: the repository disclaims            *)
(* concurrency (docs/limitations.md).                                      *)
(***************************************************************************)
EXTENDS DecisionFunction, EvidenceGate

CONSTANTS Request,       \* correlation identifiers of the requests
          Ask,           \* what a request may bring: see AskType
          Response,      \* what the verifier may answer
          FailureCode,   \* reason codes a VerifierFailure may carry
          VerifierName,  \* the name property of the configured verifier
          MaxAttempts,   \* bound: calls of handle() for one request
          MaxResets      \* bound: calls of SequentialIdFactory.reset()

AskType == [standing : {"unknown", "draft", "ratified"}, allowed : BOOLEAN,
            evidence : EvidenceSet]

ASSUME ServiceAssumption ==
  /\ Ask \subseteq AskType
  /\ Response \subseteq VerifierResponse
  /\ VerifierName \in Mechanism
  /\ {"authorization", "evidence-gate", "contract-resolution"} \subseteq Mechanism
  /\ MaxAttempts \in Nat /\ MaxResets \in Nat

VARIABLES
  pc,        \* where the call in progress stands, "idle" between calls
  frame,     \* what handle() was called with
  draft,     \* what _finalize() was called with, and its local event
  ids,       \* SequentialIdFactory._counters
  records,   \* the decision store, in insertion order
  events,    \* the telemetry store
  failures,  \* TelemetryRecorder._failures
  calls,     \* per request: how its latest call ended, and how many it made
  results,   \* the GovernedResults handed to callers, oldest first
  seen,      \* history: what the generator and the verifier were used for
  resets     \* how often reset() was called

vars == <<pc, frame, draft, ids, records, events, failures, calls, results, seen,
          resets>>
stores == <<ids, records, events, failures>>
callers == <<calls, results, resets>>

-------------------------------------------------------------------------------
Ended == {"answered", "authorizer_raised", "generator_raised", "verifier_raised",
          "store_refused"}
Raised == Ended \ {"answered"}
Stage == {"resolve", "authorize", "provenance", "gate", "generate", "verify",
          "finalize", "capture", "return"}
Quality == {None, "empty", "insufficient", "sufficient"}

Init ==
  /\ pc = "idle"
  /\ frame = <<>>
  /\ draft = <<>>
  /\ ids = [dec |-> 0, evt |-> 0]
  /\ records = <<>>
  /\ events = <<>>
  /\ failures = 0
  /\ calls = [r \in Request |-> [status |-> "new", attempts |-> 0]]
  /\ results = <<>>
  /\ seen = {}
  /\ resets = 0

\* A caller hands over a request for the first time, or retries one whose call
\* raised.  A request that was answered is not submitted again.
Submit(r, ask) ==
  /\ pc = "idle"
  /\ calls[r].status \in {"new"} \cup Raised
  /\ calls[r].attempts < MaxAttempts
  /\ pc' = "resolve"
  /\ frame' = [request |-> r, ask |-> ask]
  /\ calls' = [calls EXCEPT ![r] = [status |-> "running", attempts |-> @.attempts + 1]]
  /\ UNCHANGED <<draft, stores, results, seen, resets>>

\* Each stage of handle() either lets the call proceed ...
Proceed(to) ==
  /\ pc' = to
  /\ UNCHANGED <<frame, draft, stores, callers, seen>>

\* ... or fixes the arguments _finalize() is called with.
Finalize(decision, authorization, evidence_count, quality, invoked) ==
  /\ pc' = "finalize"
  /\ draft' = [decision |-> decision, authorization |-> authorization,
               evidence_count |-> evidence_count, evidence_quality |-> quality,
               generation_invoked |-> invoked, captured |-> FALSE]
  /\ UNCHANGED <<frame, stores, callers>>

\* An exception leaves handle(): the caller gets no result.
Escape(status) ==
  /\ pc' = "idle"
  /\ frame' = <<>>
  /\ draft' = <<>>
  /\ calls' = [calls EXCEPT ![frame.request].status = status]
  /\ UNCHANGED <<results, resets>>

Refusal(code, mechanism) == Refuse(code, mechanism, <<>>, not_measured)

-------------------------------------------------------------------------------
(***************************************************************************)
(* Before generation.                                                      *)
(***************************************************************************)
ResolveContract ==
  /\ pc = "resolve"
  /\ frame.ask.standing = "ratified"
  /\ Proceed("authorize")

RefuseWithoutContract ==
  /\ pc = "resolve"
  /\ frame.ask.standing # "ratified"
  /\ Finalize(Refusal(IF frame.ask.standing = "unknown"
                        THEN "contract_version_unknown" ELSE "contract_not_ratified",
                      "contract-resolution"),
              "DENIED", 0, None, FALSE)
  /\ UNCHANGED seen

Authorize ==
  /\ pc = "authorize"
  /\ frame.ask.allowed
  /\ Proceed("provenance")

RefuseDenied ==
  /\ pc = "authorize"
  /\ ~frame.ask.allowed
  /\ Finalize(Refusal("authorization_denied", "authorization"),
              "DENIED", 0, None, FALSE)
  /\ UNCHANGED seen

\* The authorizer is foreign code too, and nothing catches what it raises.
AuthorizerRaises ==
  /\ pc = "authorize"
  /\ Escape("authorizer_raised")
  /\ UNCHANGED <<stores, seen>>

CheckProvenance ==
  /\ pc = "provenance"
  /\ check_provenance(frame.ask.evidence)
  /\ Proceed("gate")

RefuseProvenance ==
  /\ pc = "provenance"
  /\ ~check_provenance(frame.ask.evidence)
  /\ Finalize(Refusal("evidence_provenance_invalid", "evidence-gate"),
              "ALLOWED", Len(frame.ask.evidence), None, FALSE)
  /\ UNCHANGED seen

\* Slip: an insufficient set still reaches the generator, only an empty one
\* does not.
EvaluateGateNonEmpty ==
  /\ pc = "gate"
  /\ evaluate_gate(frame.ask.evidence) # "empty"
  /\ Proceed("generate")

EvaluateGate ==
  /\ pc = "gate"
  /\ evaluate_gate(frame.ask.evidence) = "sufficient"
  /\ Proceed("generate")

RefuseInsufficient ==
  /\ pc = "gate"
  /\ evaluate_gate(frame.ask.evidence) # "sufficient"
  /\ Finalize(Refusal("insufficient_evidence", "evidence-gate"),
              "ALLOWED", Len(frame.ask.evidence),
              evaluate_gate(frame.ask.evidence), FALSE)
  /\ UNCHANGED seen

-------------------------------------------------------------------------------
(***************************************************************************)
(* Generation and verification, both by foreign code.                      *)
(***************************************************************************)
\* What the history keeps of the attempt in progress.
Attempt == [request |-> frame.request, number |-> calls[frame.request].attempts]
Generated == [by |-> Attempt, act |-> "generated", given |-> frame.ask]
Judged(response) == [by |-> Attempt, act |-> "judged", given |-> response]

Generate ==
  /\ pc = "generate"
  /\ pc' = "verify"
  /\ seen' = seen \cup {Generated}
  /\ UNCHANGED <<frame, draft, stores, callers>>

GeneratorRaises ==
  /\ pc = "generate"
  /\ Escape("generator_raised")
  /\ UNCHANGED <<stores, seen>>

\* _finalize() after verification: the record counts the evidence window.
FinalizeVerified(decision) ==
  Finalize(decision, "ALLOWED", Cardinality(Window(frame.ask.evidence)),
           evaluate_gate(frame.ask.evidence), TRUE)

VerifierAnswers(response) ==
  /\ pc = "verify"
  /\ FinalizeVerified(decide(response))
  /\ seen' = seen \cup {Judged(response)}

\* Slip: the verifier's code is recorded as it came.
reason_code_or_errorVerbatim(code) == code

\* A VerifierFailure; a code outside the vocabulary becomes verifier_error.
reason_code_or_error(code) == IF code \in ReasonCode THEN code ELSE "verifier_error"

\* Slip: the answer is released when the verifier is merely unavailable.
VerifierFailsOpen(code) ==
  /\ pc = "verify"
  /\ FinalizeVerified(
       IF code = "no_verifier_available"
         THEN Ground("DIRECT", VerifierName,
                     <<[verdict |-> "SUPPORTED", text |-> "words",
                        evidence_ref |-> None, limits |-> FALSE]>>)
         ELSE Refusal(reason_code_or_error(code), VerifierName))
  /\ UNCHANGED seen

VerifierFails(code) ==
  /\ pc = "verify"
  /\ FinalizeVerified(Refusal(reason_code_or_error(code), VerifierName))
  /\ UNCHANGED seen

\* Slip: an unexpected exception has the answer generated and verified again.
VerifierRaisesRegenerates ==
  /\ pc = "verify"
  /\ Proceed("generate")

\* Any other exception: except VerifierFailure does not catch it.
VerifierRaises ==
  /\ pc = "verify"
  /\ Escape("verifier_raised")
  /\ UNCHANGED <<stores, seen>>

-------------------------------------------------------------------------------
(***************************************************************************)
(* _finalize(): record, then capture.                                      *)
(***************************************************************************)
DecisionRecord(id) ==
  [decision_id |-> id, request |-> frame.request,
   authorization_result |-> draft.authorization,
   outcome |-> draft.decision.outcome, strategy |-> draft.decision.strategy,
   reason_code |-> draft.decision.reason_code,
   mechanism |-> draft.decision.mechanism,
   evidence_count |-> draft.evidence_count,
   claim_counts |-> draft.decision.claim_counts]

\* The validators of DecisionRecord.
RecordIsValid(record) ==
  /\ IF record.outcome = "GROUNDED"
       THEN record.strategy # None /\ record.reason_code = None
       ELSE record.strategy = None /\ record.reason_code # None
  /\ record.authorization_result = "DENIED" =>
       /\ record.outcome = "REFUSED"
       /\ record.evidence_count = 0
       /\ ~record.claim_counts.measured

get(id) == {i \in DOMAIN records : records[i].decision_id = id}

\* Slip: the store overwrites, as assigning to the dict unconditionally would.
StoreRecordOverwriting ==
  LET id == ids.dec + 1
      record == DecisionRecord(id)
  IN  /\ pc = "finalize"
      /\ RecordIsValid(record)
      /\ ids' = [ids EXCEPT !.dec = id]
      /\ records' = IF get(id) = {} THEN Append(records, record)
                    ELSE [i \in DOMAIN records |->
                            IF i \in get(id) THEN record ELSE records[i]]
      /\ pc' = "capture"
      /\ UNCHANGED <<frame, draft, events, failures, callers, seen>>

StoreRecord ==
  LET id == ids.dec + 1
      record == DecisionRecord(id)
  IN  /\ pc = "finalize"
      /\ RecordIsValid(record)
      /\ get(id) = {}
      /\ ids' = [ids EXCEPT !.dec = id]
      /\ records' = Append(records, record)
      /\ pc' = "capture"
      /\ UNCHANGED <<frame, draft, events, failures, callers, seen>>

\* ImmutableRecordViolation (or a validator's error) leaves handle(); the
\* identifier is spent, nothing is stored and nothing is captured.
StoreRefuses ==
  LET id == ids.dec + 1
  IN  /\ pc = "finalize"
      /\ ~RecordIsValid(DecisionRecord(id)) \/ get(id) # {}
      /\ Escape("store_refused")
      /\ ids' = [ids EXCEPT !.dec = id]
      /\ UNCHANGED <<records, events, failures, seen>>

Recorded == records[Len(records)]

TelemetryEvent(id) ==
  [event_id |-> id, decision_id |-> Recorded.decision_id,
   request |-> Recorded.request, outcome |-> Recorded.outcome,
   strategy |-> Recorded.strategy, reason_code |-> Recorded.reason_code,
   mechanism |-> Recorded.mechanism, evidence_count |-> Recorded.evidence_count,
   claim_counts |-> Recorded.claim_counts,
   evidence_quality |-> draft.evidence_quality]

\* TelemetryRecorder.record() hands the event to the telemetry store ...
Capture ==
  /\ pc = "capture"
  /\ pc' = "return"
  /\ ids' = [ids EXCEPT !.evt = @ + 1]
  /\ events' = Append(events, TelemetryEvent(ids.evt + 1))
  /\ draft' = [draft EXCEPT !.captured = TRUE]
  /\ UNCHANGED <<frame, records, failures, callers, seen>>

\* Slip: the recorder logs the failure and raises it again.
CaptureFailsClosed ==
  /\ pc = "capture"
  /\ Escape("store_refused")
  /\ ids' = [ids EXCEPT !.evt = @ + 1]
  /\ failures' = failures + 1
  /\ UNCHANGED <<records, events, seen>>

\* Slip: the failure is swallowed without being counted.
CaptureFailsSilently ==
  /\ pc = "capture"
  /\ pc' = "return"
  /\ ids' = [ids EXCEPT !.evt = @ + 1]
  /\ UNCHANGED <<frame, draft, records, events, failures, callers, seen>>

\* ... whose exception is counted and swallowed; the event id is spent.
CaptureFails ==
  /\ pc = "capture"
  /\ pc' = "return"
  /\ ids' = [ids EXCEPT !.evt = @ + 1]
  /\ failures' = failures + 1
  /\ UNCHANGED <<frame, draft, records, events, callers, seen>>

\* Slip: the result reports the capture as successful whatever happened.
GovernedResultOptimistic ==
  [request |-> frame.request, decision |-> draft.decision, record |-> Recorded,
   authorization |-> draft.authorization,
   evidence_quality |-> draft.evidence_quality,
   generation_invoked |-> draft.generation_invoked,
   telemetry_captured |-> TRUE]

GovernedResult ==
  [request |-> frame.request, decision |-> draft.decision, record |-> Recorded,
   authorization |-> draft.authorization,
   evidence_quality |-> draft.evidence_quality,
   generation_invoked |-> draft.generation_invoked,
   telemetry_captured |-> draft.captured]

Return ==
  /\ pc = "return"
  /\ pc' = "idle"
  /\ frame' = <<>>
  /\ draft' = <<>>
  /\ calls' = [calls EXCEPT ![frame.request].status = "answered"]
  /\ results' = Append(results, GovernedResult)
  /\ UNCHANGED <<stores, seen, resets>>

\* SequentialIdFactory.reset(): the counters restart, the stores do not.
ResetIds ==
  /\ pc = "idle"
  /\ resets < MaxResets
  /\ resets' = resets + 1
  /\ ids' = [dec |-> 0, evt |-> 0]
  /\ UNCHANGED <<pc, frame, draft, records, events, failures, calls, results, seen>>

-------------------------------------------------------------------------------
\* verify() of the configured verifier, and what handle() does with its end.
VerifyStep ==
  \/ \E response \in Response : VerifierAnswers(response)
  \/ \E code \in FailureCode : VerifierFails(code)
  \/ VerifierRaises

\* Every other step of the call in progress.
OwnStep ==
  \/ ResolveContract \/ RefuseWithoutContract
  \/ Authorize \/ RefuseDenied \/ AuthorizerRaises
  \/ CheckProvenance \/ RefuseProvenance
  \/ EvaluateGate \/ RefuseInsufficient
  \/ Generate \/ GeneratorRaises
  \/ StoreRecord \/ StoreRefuses
  \/ Capture \/ CaptureFails
  \/ Return

HandleStep == OwnStep \/ VerifyStep

Next ==
  \/ \E r \in Request, ask \in Ask : Submit(r, ask)
  \/ HandleStep
  \/ ResetIds

\* handle() is straight-line code and its caller waits for it, so once begun it
\* goes on as long as the foreign code it calls returns or raises.  Callers
\* owe nothing: neither Submit nor ResetIds is fair.
Fairness == WF_vars(HandleStep)

Spec == Init /\ [][Next]_vars /\ Fairness

-------------------------------------------------------------------------------
(***************************************************************************)
(* Properties.                                                             *)
(***************************************************************************)
Decision == [outcome : DecisionOutcome, strategy : ResponseStrategy \cup {None},
             reason_code : ReasonCode \cup {None}, mechanism : Mechanism,
             claims : Seq(Claim), claim_counts : ClaimCounts]

Draft == [decision : Decision, authorization : {"ALLOWED", "DENIED"},
          evidence_count : Nat, evidence_quality : Quality,
          generation_invoked : BOOLEAN, captured : BOOLEAN]

Record == [decision_id : Nat \ {0}, request : Request,
           authorization_result : {"ALLOWED", "DENIED"},
           outcome : DecisionOutcome, strategy : ResponseStrategy \cup {None},
           reason_code : ReasonCode \cup {None}, mechanism : Mechanism,
           evidence_count : Nat, claim_counts : ClaimCounts]

Event == [event_id : Nat \ {0}, decision_id : Nat \ {0}, request : Request,
          outcome : DecisionOutcome, strategy : ResponseStrategy \cup {None},
          reason_code : ReasonCode \cup {None}, mechanism : Mechanism,
          evidence_count : Nat, claim_counts : ClaimCounts,
          evidence_quality : Quality]

\* The shape of the state: handle()'s locals exist exactly while a call runs,
\* and the arguments of _finalize() exactly from the point it is called.
TypeOK ==
  /\ pc \in {"idle"} \cup Stage
  /\ frame \in (IF pc = "idle" THEN {<<>>} ELSE [request : Request, ask : Ask])
  /\ draft \in (IF pc \in {"finalize", "capture", "return"} THEN Draft ELSE {<<>>})
  /\ ids \in [dec : Nat, evt : Nat]
  /\ records \in Seq(Record)
  /\ events \in Seq(Event)
  /\ failures \in Nat
  /\ calls \in [Request -> [status : {"new", "running"} \cup Ended,
                           attempts : 0 .. MaxAttempts]]
  /\ resets \in 0 .. MaxResets

\* A request may be answered from generated text only if a ratified contract
\* governs it, its actor is authorized, all its evidence is governed, and
\* enough evidence of enough relevance was retrieved, of which the window has
\* room for enough.
Governable(ask) ==
  /\ ask.standing = "ratified"
  /\ ask.allowed
  /\ ProvenanceRequired =>
       \A i \in DOMAIN ask.evidence : ask.evidence[i].provenance \in PermittedSource
  /\ Len(ask.evidence) >= MinChunks /\ TopK >= MinChunks
  /\ \E i \in DOMAIN ask.evidence : ask.evidence[i].score >= MinScore

\* The generator is never invoked for a request that the gates should refuse
\* (decisions/service.py:9-10, ET-AUTH-001, ET-EV-001, ET-EV-002), and every
\* request they should let through does reach it.
GeneratorRunsForGovernableOnly ==
  /\ \A s \in seen : s.act = "generated" => Governable(s.given)
  /\ pc \in {"finalize", "capture", "return"} =>
       (draft.generation_invoked <=> Governable(frame.ask))

\* Records of one request, and events of one record.
RecordsOf(r) == {i \in DOMAIN records : records[i].request = r}
EventsOf(id) == {i \in DOMAIN events : events[i].decision_id = id}

\* Recording is exactly-once although callers retry calls that raised: an
\* answered request has one record, a request whose call raised has none, so
\* no exception leaves handle() after the decision was stored.
AnsweredIffRecorded ==
  \A r \in Request :
    /\ calls[r].status = "answered" => Cardinality(RecordsOf(r)) = 1
    /\ calls[r].status \in {"new"} \cup Raised => RecordsOf(r) = {}
    /\ calls[r].status = "running" =>
         Cardinality(RecordsOf(r)) = IF pc \in {"capture", "return"} THEN 1 ELSE 0

\* An answer is GROUNDED only if the verifier, in that same call, returned a
\* complete response whose claims are all SUPPORTED and that addresses the
\* question, and the record names the mechanism that returned it.  Failures,
\* refusals and retries never leave a grounding behind.
GroundedWasVerified ==
  \A i \in DOMAIN records : records[i].outcome = "GROUNDED" =>
    \E s \in seen :
      /\ s.act = "judged"
      /\ s.by = [request |-> records[i].request,
                 number |-> calls[records[i].request].attempts]
      /\ s.given.mechanism = records[i].mechanism
      /\ s.given.claims # <<>>
      /\ \A c \in DOMAIN s.given.claims : s.given.claims[c].verdict = "SUPPORTED"
      /\ s.given.answers_question = "true"
      /\ ~s.given.truncated

\* What the caller was told is what the store holds, now and ever after, and
\* telemetry_captured is true exactly for the decisions that have an event.
ResultsAreFaithful ==
  \A k \in DOMAIN results :
    LET result == results[k]
    IN  /\ \E i \in DOMAIN records : records[i] = result.record
        /\ result.record.request = result.request
        /\ result.record.outcome = result.decision.outcome
        /\ result.record.reason_code = result.decision.reason_code
        /\ result.telemetry_captured <=> EventsOf(result.record.decision_id) # {}
        /\ result.generation_invoked <=>
             \E s \in seen : /\ s.act = "generated"
                            /\ s.by.request = result.request
                            /\ s.by.number = calls[result.request].attempts

\* Every event mirrors the record it observes, at most one event observes a
\* record, and a capture that failed was counted (ET-TEL-001): the records,
\* the events and the failure counter always balance.
TelemetryAccountsForRecords ==
  /\ \A e \in DOMAIN events : \E i \in DOMAIN records :
       /\ events[e].decision_id = records[i].decision_id
       /\ events[e].request = records[i].request
       /\ events[e].outcome = records[i].outcome
       /\ events[e].reason_code = records[i].reason_code
       /\ events[e].claim_counts = records[i].claim_counts
       /\ events[e].evidence_count = records[i].evidence_count
  /\ \A i \in DOMAIN records : Cardinality(EventsOf(records[i].decision_id)) <= 1
  /\ Len(records) = Len(events) + failures + (IF pc = "capture" THEN 1 ELSE 0)

\* A stored decision is never edited, removed or moved (ET-LC-006), and neither
\* is a captured event, whatever identifiers the factory hands out again.
StoresAreAppendOnly ==
  [][/\ Len(records) <= Len(records')
     /\ \A i \in DOMAIN records : records'[i] = records[i]
     /\ Len(events) <= Len(events')
     /\ \A i \in DOMAIN events : events'[i] = events[i]]_vars

\* Any exception raised by the verification mechanism fails closed with a
\* refusal (contracts/executable-trust-v1.0.yaml:185-190, ET-VER-009).
VerifierExceptionsAreRefused ==
  \A r \in Request : calls[r].status # "verifier_raised"

-------------------------------------------------------------------------------
(***************************************************************************)
(* The detailed request path implements the promise of GovernedDecision.   *)
(***************************************************************************)
PromisedStatus(r) ==
  CASE calls[r].status = "running" -> "open"
    [] calls[r].status \in Raised -> "raised"
    [] OTHER -> calls[r].status

ResultsOf(r) == {k \in DOMAIN results : results[k].request = r}

Promise == INSTANCE GovernedDecision WITH
  status <- [r \in Request |-> PromisedStatus(r)],
  ledger <- [i \in DOMAIN records |-> [request |-> records[i].request,
                                      outcome |-> records[i].outcome]],
  told <- [r \in Request |->
             IF ResultsOf(r) = {} THEN None
             ELSE LET k == CHOOSE k \in ResultsOf(r) : TRUE
                  IN  results[k].decision.outcome]

\* Whatever the gates, the verifier, the identifier factory and the telemetry
\* store do, handle() keeps the promise: the decision is final before capture
\* is attempted, capture cannot change it, and the caller hears that decision.
KeepsThePromise == Promise!Spec

===============================================================================
