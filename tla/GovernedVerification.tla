-------------------------- MODULE GovernedVerification --------------------------
(***************************************************************************)
(* TrustService with a ResilientVerifier as its verifier.                  *)
(*                                                                         *)
(* handle() calls verify() of the breaker as it would call any other       *)
(* verifier's, and the breaker walks its candidates while handle() waits.  *)
(* What the walk ends with is what the request path goes on with: a        *)
(* response is decided, a VerifierFailure is caught, and any other         *)
(* exception passes through both.                                          *)
(***************************************************************************)
EXTENDS TrustService

CONSTANTS
  Candidate,         \* names of the mechanisms, primary first
  Capacity,          \* HealthWindow.capacity
  MinObservations,   \* minimum_observations of the contract
  ThresholdNum,      \* fault_rate_threshold of the contract is
  ThresholdDen,      \*   ThresholdNum / ThresholdDen
  MaxHealthEvents,   \* bound: health events
  MaxHealthResets    \* bound: calls of HealthWindow.reset(), per mechanism

VARIABLES
  cursor, unwell, health, ended,  \* as in ResilientVerifier
  healthEvents,                   \* its health events
  healthResets,                   \* its resets
  outages                         \* history: verify() calls no candidate served

Breaker == INSTANCE ResilientVerifier WITH
  events <- healthEvents, resets <- healthResets,
  MaxEvents <- MaxHealthEvents, MaxResets <- MaxHealthResets

\* resilient(<primary>), a name that neither a candidate nor a gate bears, is the
\* one the service sees.
ASSUME CompositionAssumption ==
  /\ Breaker!BreakerAssumption
  /\ Breaker!Name \subseteq Mechanism \ {VerifierName}
  /\ VerifierName \notin {"authorization", "evidence-gate", "contract-resolution"}
  /\ "no_verifier_available" \in FailureCode
  /\ \A response \in Response, name \in Breaker!Name :
       [response EXCEPT !.mechanism = name] \in Response

breakerVars == <<cursor, unwell, health, healthEvents, ended, healthResets>>
governedVars == <<vars, breakerVars, outages>>

-------------------------------------------------------------------------------
GovernedInit == Init /\ Breaker!Init /\ outages = 0

\* handle() outside verify(), and its callers.
Handle == OwnStep /\ UNCHANGED <<breakerVars, outages>>

Caller ==
  /\ \/ \E r \in Request, ask \in Ask : Submit(r, ask)
     \/ ResetIds
  /\ UNCHANGED <<breakerVars, outages>>

AskBreaker ==
  /\ pc = "verify"
  /\ Breaker!Call
  /\ UNCHANGED <<vars, outages>>

PassOver ==
  /\ Breaker!SkipTripped \/ Breaker!SkipUnhealthy
  /\ UNCHANGED <<vars, outages>>

\* A mechanism signs its responses with its own name.
Served ==
  /\ Breaker!Answers
  /\ \E response \in Response :
       /\ response.mechanism = Candidate[cursor]
       /\ VerifierAnswers(response)
  /\ UNCHANGED outages

\* Slip: a failed verification is tried again, from the primary.
FailedRetries ==
  /\ Breaker!Fails
  /\ UNCHANGED <<vars, outages>>

\* The failure of the mechanism that served is raised again.
Failed ==
  /\ Breaker!Fails
  /\ \E code \in FailureCode : VerifierFails(code)
  /\ UNCHANGED outages

\* Slip: with every mechanism out, the call waits for one to recover.
UnservedWaits ==
  /\ Breaker!Exhausted
  /\ UNCHANGED <<vars, outages>>

\* VerifierUnavailable is a VerifierFailure like any other.
Unserved ==
  /\ Breaker!Exhausted
  /\ VerifierFails("no_verifier_available")
  /\ outages' = outages + 1

Uncaught ==
  /\ Breaker!Raises
  /\ VerifierRaises
  /\ UNCHANGED outages

\* An operator resets a window between two requests.
ResetHealth ==
  /\ pc = "idle"
  /\ \E name \in Breaker!Name : Breaker!Reset(name)
  /\ UNCHANGED <<vars, outages>>

Walk == AskBreaker \/ PassOver \/ Served \/ Failed \/ Unserved \/ Uncaught

GovernedNext == Caller \/ Handle \/ Walk \/ ResetHealth

\* handle() and the verify() inside it are straight-line code and a loop over
\* at most two candidates, which go on as long as foreign code returns or
\* raises.
GovernedSpec ==
  GovernedInit /\ [][GovernedNext]_governedVars /\ WF_governedVars(Handle \/ Walk)

-------------------------------------------------------------------------------
(***************************************************************************)
(* Properties.                                                             *)
(***************************************************************************)
\* "Every caller is unaware it exists" (ResilientVerifier, docstring): behind
\* the breaker the request path is the one TrustService describes, with the
\* same stores, the same exceptions and the same end of every call.  Walking
\* the candidates never holds a call up.
CallersAreUnaware == Spec

RefusedByBreaker == {i \in DOMAIN records : records[i].mechanism = VerifierName}
HealthFaults == {i \in DOMAIN healthEvents : healthEvents[i].event = "fault"}

BreakerRefusals ==
  Cardinality(RefusedByBreaker)
    + (IF pc = "finalize" /\ draft.decision.mechanism = VerifierName THEN 1 ELSE 0)

\* The health log and the decision ledger agree: no fault of a serving mechanism
\* and no call that none served is refused twice, retried on the other mechanism
\* or answered, and what is recorded under the breaker's own name is a refusal.
\* They balance, unless identifiers are handed out again: then the store may
\* reject a refusal, and the health log alone knows of the fault.
FaultsAreRefusals ==
  /\ \A i \in RefusedByBreaker : records[i].outcome = "REFUSED"
  /\ BreakerRefusals <= Cardinality(HealthFaults) + outages
  /\ resets = 0 => BreakerRefusals = Cardinality(HealthFaults) + outages

AllTripped == \A name \in Breaker!Name : Breaker!is_tripped(name)

\* It never skips verification to keep answering (ET-RES-002): a request that
\* reaches verification while every mechanism is tripped is refused as
\* no_verifier_available, and that refusal does arrive.
OutageRefuses ==
  (pc = "verify" /\ cursor = 0 /\ AllTripped) ~>
    (/\ pc = "finalize"
     /\ draft.decision.outcome = "REFUSED"
     /\ draft.decision.reason_code = "no_verifier_available"
     /\ draft.decision.mechanism = VerifierName)

===============================================================================
