----------------------- MODULE GovernedVerificationProofs -----------------------
(***************************************************************************)
(* The composition of the request path and the breaker implements both of  *)
(* its parts, so what is proved of the request path alone holds of it.     *)
(*                                                                         *)
(* Of CallersAreUnaware this is the safety half: a walk over the           *)
(* candidates is a sequence of stutters of the request path that ends in   *)
(* one of the ways a verifier's call may end.                              *)
(***************************************************************************)
EXTENDS GovernedVerification, TrustServiceProofs

\* Nothing but the end of a walk is seen by the request path.
LEMMA WalkIsAVerifier == Walk => VerifyStep \/ UNCHANGED vars
<1> SUFFICES ASSUME Walk PROVE VerifyStep \/ UNCHANGED vars
  OBVIOUS
<1>1. CASE AskBreaker \/ PassOver
  BY <1>1 DEF AskBreaker, PassOver
<1>2. CASE Served
  BY <1>2 DEF Served, VerifyStep
<1>3. CASE Failed
  BY <1>3 DEF Failed, VerifyStep
<1>4. CASE Unserved
  BY <1>4, CompositionAssumption DEF Unserved, VerifyStep
<1>5. CASE Uncaught
  BY <1>5 DEF Uncaught, VerifyStep
<1> QED
  BY <1>1, <1>2, <1>3, <1>4, <1>5 DEF Walk

LEMMA GovernedStepIsHandled == [GovernedNext]_governedVars => [Next]_vars
<1> SUFFICES ASSUME [GovernedNext]_governedVars PROVE Next \/ UNCHANGED vars
  OBVIOUS
<1>1. CASE Caller
  BY <1>1 DEF Caller, Next
<1>2. CASE Handle
  BY <1>2 DEF Handle, Next, HandleStep
<1>3. CASE Walk
  BY <1>3, WalkIsAVerifier DEF Next, HandleStep
<1>4. CASE ResetHealth
  BY <1>4 DEF ResetHealth
<1>5. CASE UNCHANGED governedVars
  BY <1>5 DEF governedVars
<1> QED
  BY <1>1, <1>2, <1>3, <1>4, <1>5 DEF GovernedNext

\* Behind the breaker the request path takes no step that TrustService does not
\* describe.
THEOREM PathIsUnaware == GovernedSpec => SafetySpec
<1>1. GovernedInit => Init
  BY DEF GovernedInit
<1> QED
  BY <1>1, GovernedStepIsHandled, PTL DEF GovernedSpec, SafetySpec

\* In front of the breaker the request path makes no move that ResilientVerifier
\* does not describe: it is asked, walks and ends as when called by anyone.
LEMMA GovernedStepIsWalked == [GovernedNext]_governedVars => [Breaker!Next]_Breaker!vars
<1> SUFFICES ASSUME [GovernedNext]_governedVars
             PROVE  Breaker!Next \/ UNCHANGED Breaker!vars
  OBVIOUS
<1>0. UNCHANGED breakerVars => UNCHANGED Breaker!vars
  BY DEF breakerVars, Breaker!vars
<1>1. CASE Caller
  BY <1>0, <1>1 DEF Caller
<1>2. CASE Handle
  BY <1>0, <1>2 DEF Handle
<1>3. CASE Walk
  BY <1>3 DEF Walk, AskBreaker, PassOver, Served, Failed, Unserved, Uncaught,
              Breaker!Next, Breaker!Consult
<1>4. CASE ResetHealth
  BY <1>4 DEF ResetHealth, Breaker!Next
<1>5. CASE UNCHANGED governedVars
  BY <1>0, <1>5 DEF governedVars
<1> QED
  BY <1>1, <1>2, <1>3, <1>4, <1>5 DEF GovernedNext

\* Asked by the request path the breaker takes no step that ResilientVerifier does
\* not describe.
THEOREM BreakerIsUnaware == GovernedSpec => Breaker!Spec
<1>1. GovernedInit => Breaker!Init
  BY DEF GovernedInit
<1> QED
  BY <1>1, GovernedStepIsWalked, PTL DEF GovernedSpec, Breaker!Spec

-------------------------------------------------------------------------------
\* The breaker is consulted while handle() waits for its verifier, and at no
\* other time: a walk in progress belongs to the call in progress, and whichever
\* way it ends it is over before the call goes on.
WalkIsWithinCall == cursor # 0 => pc = "verify"

LEMMA OwnStepWaits ==
  ASSUME OwnStep, pc = "verify"
  PROVE  FALSE
BY DEF OwnStep, ResolveContract, RefuseWithoutContract, Authorize, RefuseDenied,
       AuthorizerRaises, CheckProvenance, RefuseProvenance, EvaluateGate,
       RefuseInsufficient, Generate, GeneratorRaises, StoreRecord, StoreRefuses,
       Capture, CaptureFails, Return

\* A walk over the mechanisms never outlives the call it belongs to.
THEOREM CallsDoNotLeak == GovernedSpec => []WalkIsWithinCall
<1>1. GovernedInit => WalkIsWithinCall
  BY DEF GovernedInit, Breaker!Init, WalkIsWithinCall
<1>2. WalkIsWithinCall /\ [GovernedNext]_governedVars => WalkIsWithinCall'
  <2> SUFFICES ASSUME WalkIsWithinCall, [GovernedNext]_governedVars, cursor' # 0
               PROVE  pc' = "verify"
    BY DEF WalkIsWithinCall
  <2>1. CASE Caller
    BY <2>1 DEF Caller, breakerVars, Submit, ResetIds, WalkIsWithinCall
  <2>2. CASE Handle
    <3>1. cursor' = cursor
      BY <2>2 DEF Handle, breakerVars
    <3> QED
      BY <2>2, <3>1, OwnStepWaits DEF Handle, WalkIsWithinCall
  <2>3. CASE AskBreaker
    BY <2>3 DEF AskBreaker, vars
  <2>4. CASE PassOver
    <3>1. cursor \in DOMAIN Candidate /\ pc' = pc
      BY <2>4 DEF PassOver, vars, Breaker!SkipTripped, Breaker!SkipUnhealthy,
                  Breaker!Considering
    <3>2. cursor # 0
      BY <3>1, CompositionAssumption DEF Breaker!BreakerAssumption
    <3> QED
      BY <3>1, <3>2 DEF WalkIsWithinCall
  <2>5. CASE Served \/ Failed \/ Unserved \/ Uncaught
    BY <2>5 DEF Served, Failed, Unserved, Uncaught, Breaker!Answers, Breaker!Fails,
                Breaker!Exhausted, Breaker!Raises, Breaker!End
  <2>6. CASE ResetHealth
    BY <2>6 DEF ResetHealth, vars, Breaker!Reset, WalkIsWithinCall
  <2>7. CASE UNCHANGED governedVars
    BY <2>7 DEF governedVars, vars, breakerVars, WalkIsWithinCall
  <2> QED
    BY <2>1, <2>2, <2>3, <2>4, <2>5, <2>6, <2>7 DEF GovernedNext, Walk
<1> QED
  BY <1>1, <1>2, PTL DEF GovernedSpec

-------------------------------------------------------------------------------
\* What is proved of the request path alone, of the two together: each request
\* is recorded once if answered and never if its call raised, an answer was
\* verified in that same call, results and telemetry agree with the stores, and
\* the stores only grow.
THEOREM GovernedPathIsSafe ==
  GovernedSpec => /\ [](TypeOK /\ AnsweredIffRecorded /\ GroundedWasVerified)
                  /\ [](ResultsAreFaithful /\ TelemetryAccountsForRecords)
                  /\ Promise!Init /\ [][Promise!Next]_Promise!vars
<1>1. GovernedSpec => SafetySpec
  BY PathIsUnaware
<1>2. SafetySpec => []TypeOK
  BY TypedAlways, PTL DEF Typed
<1> QED
  BY <1>1, <1>2, ExactlyOnce, GroundedByVerifier, ToldFaithfully,
     TelemetryBalances, PromiseIsKept, PTL

(***************************************************************************)
(* The breaker in the composition is the breaker alone: Alone and Breaker  *)
(* instantiate the same definitions, step by step, so the theorems about   *)
(* ResilientVerifier are theorems about the two together.                  *)
(***************************************************************************)
Alone == INSTANCE ResilientVerifierProofs WITH
  events <- healthEvents, resets <- healthResets,
  MaxEvents <- MaxHealthEvents, MaxResets <- MaxHealthResets

LEMMA SameMechanisms ==
  /\ Alone!Name = Breaker!Name
  /\ Alone!Primary = Breaker!Primary
  /\ \A w, b : Alone!Recorded(w, b) = Breaker!Recorded(w, b)
BY DEF Alone!Name, Breaker!Name, Alone!Primary, Breaker!Primary,
       Alone!Recorded, Breaker!Recorded

LEMMA SameCardinality ==
  ASSUME NEW S
  PROVE  /\ Alone!Cardinality(S) = Cardinality(S)
         /\ Breaker!Cardinality(S) = Cardinality(S)
BY DEF Alone!Cardinality, Breaker!Cardinality, Cardinality

LEMMA SameCounts ==
  ASSUME NEW n, NEW kinds
  PROVE  /\ Alone!faults(n) = Breaker!faults(n)
         /\ Alone!observations(n) = Breaker!observations(n)
         /\ Alone!is_tripped(n) <=> Breaker!is_tripped(n)
         /\ Alone!is_tripped(n)' <=> Breaker!is_tripped(n)'
         /\ Alone!EventsOf(n, kinds) = Breaker!EventsOf(n, kinds)
<1>1. Alone!faults(n) = Breaker!faults(n)
  BY DEF Alone!faults, Breaker!faults, Alone!Cardinality, Breaker!Cardinality
<1>2. Alone!faults(n)' = Breaker!faults(n)'
  BY DEF Alone!faults, Breaker!faults, Alone!Cardinality, Breaker!Cardinality
<1>3. /\ Alone!observations(n) = Breaker!observations(n)
      /\ Alone!observations(n)' = Breaker!observations(n)'
  BY DEF Alone!observations, Breaker!observations
<1>4. Alone!EventsOf(n, kinds) = Breaker!EventsOf(n, kinds)
  BY Zenon DEF Alone!EventsOf, Breaker!EventsOf
<1> QED
  BY <1>1, <1>2, <1>3, <1>4, Zenon DEF Alone!is_tripped, Breaker!is_tripped

LEMMA SameSteps == [Breaker!Next]_Breaker!vars => [Alone!Next]_Alone!vars
<1> SUFFICES ASSUME Breaker!Next PROVE Alone!Next
  BY DEF Breaker!vars, Alone!vars
<1>1. Alone!Current = Breaker!Current /\ (Alone!Considering <=> Breaker!Considering)
  BY DEF Alone!Current, Breaker!Current, Alone!Considering, Breaker!Considering
<1>2. Alone!is_tripped(Alone!Current) <=> Breaker!is_tripped(Breaker!Current)
  BY <1>1, SameCounts
<1>3. Alone!is_tripped(Alone!Primary)' <=> Breaker!is_tripped(Breaker!Primary)'
  BY SameMechanisms, SameCounts
<1>4. /\ Alone!RecordOk <=> Breaker!RecordOk
      /\ Alone!RecordFault <=> Breaker!RecordFault
  BY <1>1, SameMechanisms
     DEF Alone!RecordOk, Breaker!RecordOk, Alone!RecordFault, Breaker!RecordFault
<1>5. CASE Breaker!Call
  BY <1>5 DEF Breaker!Call, Alone!Call, Alone!Next
<1>6. CASE Breaker!Consult
  <2>1. \A how : Breaker!End(how) => Alone!End(how)
    BY DEF Breaker!End, Alone!End
  <2>2. Breaker!SkipTripped => Alone!SkipTripped
    BY <1>1, <1>2 DEF Breaker!SkipTripped, Alone!SkipTripped
  <2>3. Breaker!SkipUnhealthy => Alone!SkipUnhealthy
    BY <1>1, <1>2, <1>4
       DEF Breaker!SkipUnhealthy, Alone!SkipUnhealthy, Breaker!HealthEvent, Alone!HealthEvent
  <2>4. Breaker!Answers => Alone!Answers
    BY <1>1, <1>2, <1>4, <2>1 DEF Breaker!Answers, Alone!Answers
  <2>5. Breaker!Fails => Alone!Fails
    BY <1>1, <1>2, <1>3, <1>4, <2>1, SameMechanisms
       DEF Breaker!Fails, Alone!Fails, Breaker!HealthEvent, Alone!HealthEvent
  <2>6. Breaker!Raises => Alone!Raises
    BY <1>1, <1>2, <2>1 DEF Breaker!Raises, Alone!Raises
  <2>7. Breaker!Exhausted => Alone!Exhausted
    BY <2>1 DEF Breaker!Exhausted, Alone!Exhausted
  <2> QED
    BY <1>6, <2>2, <2>3, <2>4, <2>5, <2>6, <2>7 DEF Breaker!Consult, Alone!Consult, Alone!Next
<1>7. ASSUME NEW name \in Breaker!Name, Breaker!Reset(name)
      PROVE  Alone!Next
  BY <1>7, SameMechanisms DEF Breaker!Reset, Alone!Reset, Alone!Next
<1> QED
  BY <1>5, <1>6, <1>7 DEF Breaker!Next

\* What is proved of the breaker alone holds while the request path drives it: its
\* event log accounts for its windows, a mechanism that only faults is given up in
\* time, and a trip is undone by a reset only.
THEOREM BreakerIsSafe ==
  GovernedSpec => /\ [](Breaker!TypeOK /\ Breaker!EventsAccountForFaults)
                  /\ []Breaker!FaultyIsGivenUp
                  /\ Breaker!TripIsSticky
<1> DEFINE StickyAlone == \A n \in Alone!Name : Alone!is_tripped(n)
                            => Alone!is_tripped(n)' \/ healthResets'[n] # healthResets[n]
           StickyHere == \A n \in Breaker!Name : Breaker!is_tripped(n)
                            => Breaker!is_tripped(n)' \/ healthResets'[n] # healthResets[n]
<1>1. Alone!Spec => /\ []Alone!TypeOK /\ []Alone!EventsAccountForFaults
                    /\ []Alone!FaultyIsGivenUp
                    /\ [][StickyAlone]_Alone!vars
  BY Alone!BreakerTypeCorrect, Alone!EventsAccount, Alone!FaultyGivenUp,
     Alone!StickyTrip, CompositionAssumption, PTL DEF Alone!TripIsSticky
<1>2. Breaker!Init => Alone!Init
  BY SameMechanisms DEF Breaker!Init, Alone!Init
<1>3. Alone!TypeOK => Breaker!TypeOK
  BY SameMechanisms DEF Alone!TypeOK, Breaker!TypeOK, Alone!EventName, Breaker!EventName
<1>4. Alone!EventsAccountForFaults => Breaker!EventsAccountForFaults
  BY SameMechanisms, SameCounts, SameCardinality
     DEF Alone!EventsAccountForFaults, Breaker!EventsAccountForFaults
<1>5. Alone!FaultyIsGivenUp => Breaker!FaultyIsGivenUp
  BY SameMechanisms, SameCounts DEF Alone!FaultyIsGivenUp, Breaker!FaultyIsGivenUp
<1>6. [StickyAlone]_Alone!vars => [StickyHere]_Breaker!vars
  BY SameMechanisms, SameCounts DEF Alone!vars, Breaker!vars
<1> QED
  BY <1>1, <1>2, <1>3, <1>4, <1>5, <1>6, SameSteps, BreakerIsUnaware, PTL
     DEF Breaker!Spec, Alone!Spec, Breaker!TripIsSticky

-------------------------------------------------------------------------------
(***************************************************************************)
(* The health log and the decision ledger.                                 *)
(***************************************************************************)
\* Counting in a log that grows at its end.
LEMMA EndIsCounted ==
  ASSUME NEW T, NEW log \in Seq(T), NEW e, NEW kept, kept = Append(log, e),
         NEW P, P \subseteq DOMAIN log, NEW Q, Q \subseteq DOMAIN kept,
         \A i \in DOMAIN log : i \in Q <=> i \in P
  PROVE  /\ Cardinality(P) \in Nat
         /\ Cardinality(Q)
              = Cardinality(P) + (IF Len(log) + 1 \in Q THEN 1 ELSE 0)
<1>1. /\ DOMAIN kept = 1 .. Len(log) + 1 /\ DOMAIN log = 1 .. Len(log)
      /\ Len(log) \in Nat
  OBVIOUS
<1>2. IsFiniteSet(P) /\ Cardinality(P) \in Nat /\ Len(log) + 1 \notin P
  BY <1>1, PositionsAreCounted
<1>3. CASE Len(log) + 1 \in Q
  <2>1. Q = P \cup {Len(log) + 1}
    BY <1>1, <1>3
  <2> QED
    BY <1>2, <1>3, <2>1, FS_AddElement
<1>4. CASE Len(log) + 1 \notin Q
  <2>1. Q = P
    BY <1>1, <1>4
  <2> QED
    BY <1>2, <1>4, <2>1
<1> QED
  BY <1>3, <1>4

Pending == IF pc = "finalize" /\ draft.decision.mechanism = VerifierName THEN 1 ELSE 0

Lapses == Cardinality(HealthFaults) + outages

\* Refusals of the breaker are refusals, in the making and in the store; they
\* never outnumber the breaker's lapses, and as long as identifiers are not handed
\* out again each of those has been spent and none is lost.
Balances ==
  /\ outages \in Nat
  /\ \A i \in RefusedByBreaker : records[i].outcome = "REFUSED"
  /\ pc = "finalize" /\ draft.decision.mechanism = VerifierName
       => draft.decision.outcome = "REFUSED"
  /\ Cardinality(RefusedByBreaker) + Pending <= Lapses
  /\ resets = 0 => /\ Cardinality(RefusedByBreaker) + Pending = Lapses
                   /\ \A i \in DOMAIN records : records[i].decision_id <= ids.dec

\* The state both parts are in.
BothTyped == Typed /\ Breaker!TypeOK

LEMMA BothTypedAlways == GovernedSpec => []BothTyped
<1>1. GovernedSpec => []Typed
  BY PathIsUnaware, TypedAlways, PTL
<1> QED
  BY <1>1, BreakerIsSafe, PTL DEF BothTyped

LEMMA LogsAreCounted ==
  ASSUME BothTyped
  PROVE  /\ Cardinality(RefusedByBreaker) \in Nat
         /\ Cardinality(HealthFaults) \in Nat
<1>1. records \in Seq(Record) /\ Len(records) \in Nat
  BY DEF BothTyped, Typed, TypeOK
<1>2. /\ healthEvents \in Seq([mechanism : Breaker!Name, event : Breaker!EventName])
      /\ Len(healthEvents) \in Nat
  BY DEF BothTyped, Breaker!TypeOK
<1>3. RefusedByBreaker \subseteq 1 .. Len(records)
  BY <1>1 DEF RefusedByBreaker
<1>4. HealthFaults \subseteq 1 .. Len(healthEvents)
  BY <1>2 DEF HealthFaults
<1> QED
  BY <1>1, <1>2, <1>3, <1>4, PositionsAreCounted

\* What a step of the walk leaves in the health log.
LEMMA OwnEventsAreNoLapses ==
  ASSUME BothTyped, Breaker!SkipUnhealthy
  PROVE  Cardinality(HealthFaults') = Cardinality(HealthFaults)
<1>1. healthEvents \in Seq([mechanism : Breaker!Name, event : Breaker!EventName])
  BY DEF BothTyped, Breaker!TypeOK
<1>2. PICK e : healthEvents' = Append(healthEvents, e) /\ e.event = "reported_unhealthy"
  BY DEF Breaker!SkipUnhealthy, Breaker!HealthEvent
<1>3. /\ DOMAIN healthEvents' = 1 .. Len(healthEvents) + 1
      /\ DOMAIN healthEvents = 1 .. Len(healthEvents)
      /\ \A i \in DOMAIN healthEvents : healthEvents'[i] = healthEvents[i]
      /\ healthEvents'[Len(healthEvents) + 1].event = "reported_unhealthy"
  BY <1>1, <1>2
<1>4. HealthFaults' = HealthFaults
  BY <1>1, <1>3 DEF HealthFaults
<1> QED
  BY <1>4

LEMMA FaultIsALapse ==
  ASSUME BothTyped, Breaker!Fails
  PROVE  Cardinality(HealthFaults') = Cardinality(HealthFaults) + 1
<1> DEFINE T == [mechanism : Breaker!Name, event : Breaker!EventName]
<1>1. healthEvents \in Seq(T) /\ Len(healthEvents) \in Nat
  BY DEF BothTyped, Breaker!TypeOK
<1>2. PICK e, more : /\ healthEvents' = Append(healthEvents, e) \o more
                     /\ e.event = "fault"
                     /\ \/ more = <<>>
                        \/ \E f : more = <<f>> /\ f.event = "escalated"
  <2> DEFINE own == Breaker!HealthEvent(Breaker!Current, "fault")
             told == Breaker!HealthEvent(Breaker!Primary, "escalated")
  <2>1. own.event = "fault" /\ told.event = "escalated"
    BY DEF Breaker!HealthEvent
  <2> HIDE DEF own, told
  <2>2. \/ healthEvents' = Append(healthEvents, own) \o <<told>>
        \/ healthEvents' = Append(healthEvents, own) \o <<>>
    BY DEF Breaker!Fails, own, told
  <2> QED
    BY <2>1, <2>2
<1> HIDE DEF T
<1> DEFINE grown == Append(healthEvents, e)
           faulted == {i \in DOMAIN grown : grown[i].event = "fault"}
<1>3. /\ DOMAIN grown = 1 .. Len(healthEvents) + 1
      /\ DOMAIN healthEvents = 1 .. Len(healthEvents)
      /\ \A i \in DOMAIN healthEvents : grown[i] = healthEvents[i]
      /\ grown[Len(healthEvents) + 1] = e
  BY <1>1
<1>4. Cardinality(faulted) = Cardinality(HealthFaults) + 1
  <2>1. /\ \A i \in DOMAIN healthEvents : i \in faulted <=> i \in HealthFaults
        /\ Len(healthEvents) + 1 \in faulted
        /\ HealthFaults \subseteq DOMAIN healthEvents /\ faulted \subseteq DOMAIN grown
    BY <1>1, <1>2, <1>3 DEF HealthFaults
  <2> HIDE DEF faulted
  <2> QED
    BY <1>1, <2>1, EndIsCounted
<1>5. HealthFaults' = faulted
  <2>1. grown \in Seq(T \cup {e}) /\ Len(grown) = Len(healthEvents) + 1
    <3>1. healthEvents \in Seq(T \cup {e})
      BY <1>1
    <3> QED
      BY <1>1, <3>1
  <2> HIDE DEF grown
  <2>2. CASE more = <<>>
    <3>1. healthEvents' = grown
      BY <1>2, <2>1, <2>2 DEF grown
    <3> QED
      BY <3>1 DEF HealthFaults
  <2>3. ASSUME NEW f, more = <<f>>, f.event = "escalated"
        PROVE  HealthFaults' = faulted
    <3>1. healthEvents' = grown \o <<f>>
      BY <1>2, <2>3 DEF grown
    <3>2. /\ DOMAIN healthEvents' = 1 .. Len(grown) + 1
          /\ DOMAIN grown = 1 .. Len(grown)
          /\ \A i \in DOMAIN grown : healthEvents'[i] = grown[i]
          /\ healthEvents'[Len(grown) + 1] = f
      BY <2>1, <3>1
    <3> QED
      BY <2>1, <2>3, <3>2 DEF HealthFaults
  <2> QED
    BY <1>2, <2>2, <2>3
<1> QED
  BY <1>4, <1>5

\* What handle() does on its own account never adds a refusal of the breaker.
LEMMA OwnRefusalsAreNotTheBreakers ==
  ASSUME Typed, OwnStep
  PROVE  /\ UNCHANGED resets
         /\ \/ /\ UNCHANGED records /\ ids'.dec = ids.dec
               /\ pc # "finalize"
               /\ pc' = "finalize" => draft'.decision.mechanism # VerifierName
            \/ StoreRecord
            \/ StoreRefuses
<1>1. CASE \/ ResolveContract \/ Authorize \/ CheckProvenance \/ EvaluateGate
  BY <1>1 DEF ResolveContract, Authorize, CheckProvenance, EvaluateGate, Proceed, stores,
              callers
<1>2. CASE \/ RefuseWithoutContract \/ RefuseDenied \/ RefuseProvenance
           \/ RefuseInsufficient
  <2> DEFINE gates == {"authorization", "evidence-gate", "contract-resolution"}
             refused == /\ pc # "finalize" /\ draft'.decision.mechanism \in gates
                        /\ UNCHANGED <<records, ids, resets>>
  <2>1. RefuseWithoutContract => refused
    BY DEF RefuseWithoutContract, Finalize, Refusal, Refuse, stores, callers
  <2>2. RefuseDenied => refused
    BY DEF RefuseDenied, Finalize, Refusal, Refuse, stores, callers
  <2>3. RefuseProvenance => refused
    BY DEF RefuseProvenance, Finalize, Refusal, Refuse, stores, callers
  <2>4. RefuseInsufficient => refused
    BY DEF RefuseInsufficient, Finalize, Refusal, Refuse, stores, callers
  <2> QED
    BY <1>2, <2>1, <2>2, <2>3, <2>4, CompositionAssumption
<1>3. CASE AuthorizerRaises \/ GeneratorRaises \/ Generate
  BY <1>3 DEF AuthorizerRaises, GeneratorRaises, Generate, Escape, stores, callers
<1>4. CASE Capture \/ CaptureFails \/ Return
  BY <1>4 DEF Capture, CaptureFails, Return, callers, stores, Typed, TypeOK
<1>5. CASE StoreRecord \/ StoreRefuses
  BY <1>5 DEF StoreRecord, StoreRefuses, Escape, callers
<1> QED
  BY <1>1, <1>2, <1>3, <1>4, <1>5 DEF OwnStep

\* Storing turns a pending refusal into a recorded one.
LEMMA StoringBalances ==
  ASSUME BothTyped, Balances, StoreRecord, UNCHANGED <<breakerVars, outages>>
  PROVE  Balances'
<1> DEFINE record == DecisionRecord(ids.dec + 1)
<1>1. /\ pc = "finalize" /\ pc' = "capture"
      /\ records' = Append(records, record)
      /\ UNCHANGED <<resets, healthEvents, outages>>
      /\ record.mechanism = draft.decision.mechanism
      /\ record.outcome = draft.decision.outcome
      /\ record.decision_id = ids.dec + 1
  BY DEF StoreRecord, callers, breakerVars, DecisionRecord
<1>2. ids' = [ids EXCEPT !.dec = ids.dec + 1] /\ ids \in [dec : Nat, evt : Nat]
  BY DEF StoreRecord, BothTyped, Typed, TypeOK
<1>3. ids.dec \in Nat /\ ids'.dec = ids.dec + 1
  BY <1>2
<1> HIDE DEF record
<1>4. records \in Seq(Record) /\ Len(records) \in Nat
  BY DEF BothTyped, Typed, TypeOK
<1>5. /\ DOMAIN records' = 1 .. Len(records) + 1
      /\ DOMAIN records = 1 .. Len(records)
      /\ \A i \in DOMAIN records : records'[i] = records[i]
      /\ records'[Len(records) + 1] = record
  BY <1>1, <1>4
<1>6. Cardinality(RefusedByBreaker') = Cardinality(RefusedByBreaker) + Pending
  <2>1. /\ \A i \in DOMAIN records : i \in RefusedByBreaker' <=> i \in RefusedByBreaker
        /\ Len(records) + 1 \in RefusedByBreaker' <=> draft.decision.mechanism = VerifierName
        /\ RefusedByBreaker \subseteq DOMAIN records
        /\ RefusedByBreaker' \subseteq DOMAIN records'
    BY <1>1, <1>4, <1>5 DEF RefusedByBreaker
  <2>2. Cardinality(RefusedByBreaker')
          = Cardinality(RefusedByBreaker)
              + (IF Len(records) + 1 \in RefusedByBreaker' THEN 1 ELSE 0)
    BY <1>1, <1>4, <2>1, EndIsCounted
  <2> QED
    BY <1>1, <2>1, <2>2 DEF Pending
<1>7. Pending' = 0 /\ Lapses' = Lapses
  BY <1>1 DEF Pending, Lapses, HealthFaults
<1>8. /\ Cardinality(RefusedByBreaker) \in Nat
      /\ Cardinality(RefusedByBreaker') \in Nat
      /\ Pending \in {0, 1}
  BY <1>6, LogsAreCounted DEF Pending
<1>9. \A i \in RefusedByBreaker' : records'[i].outcome = "REFUSED"
  BY <1>1, <1>5 DEF Balances, RefusedByBreaker
<1>10. ASSUME resets = 0, NEW i \in DOMAIN records'
       PROVE  records'[i].decision_id <= ids'.dec
  <2>1. CASE i \in DOMAIN records
    <3>1. records[i].decision_id \in Nat
      <4>1. records[i] \in Record
        BY <1>4, <2>1
      <4> QED
        BY <4>1 DEF Record
    <3>2. records[i].decision_id <= ids.dec
      BY <1>10, <2>1 DEF Balances
    <3> QED
      BY <1>3, <1>5, <2>1, <3>1, <3>2
  <2>2. CASE i = Len(records) + 1
    BY <1>1, <1>3, <1>5, <2>2
  <2> QED
    BY <1>5, <2>1, <2>2
<1>11. outages' \in Nat
  BY <1>1 DEF Balances
<1>12. pc' # "finalize" /\ resets' = resets
  BY <1>1
<1>13. Cardinality(RefusedByBreaker') + Pending' = Cardinality(RefusedByBreaker) + Pending
  BY <1>6, <1>7, <1>8
<1> QED
  BY <1>7, <1>9, <1>10, <1>11, <1>12, <1>13 DEF Balances

\* A step that leaves both ledgers alone balances if nothing pending is dropped.
LEMMA NothingDropped ==
  ASSUME BothTyped, Balances, UNCHANGED records,
         resets' = 0 => resets = 0 /\ ids'.dec = ids.dec,
         pc' = "finalize" /\ draft'.decision.mechanism = VerifierName
           => draft'.decision.outcome = "REFUSED",
         outages' \in Nat,
         Cardinality(HealthFaults') \in Nat,
         \/ Pending' - Pending = Lapses' - Lapses
         \/ Pending' <= Pending /\ Lapses' = Lapses /\ resets' # 0
  PROVE  Balances'
<1>1. /\ RefusedByBreaker' = RefusedByBreaker
      /\ Cardinality(RefusedByBreaker) \in Nat
      /\ Cardinality(RefusedByBreaker') \in Nat
      /\ Cardinality(HealthFaults) \in Nat
      /\ Pending \in {0, 1} /\ Pending' \in {0, 1}
      /\ outages \in Nat
  BY LogsAreCounted DEF RefusedByBreaker, Pending, Balances
<1>2. Lapses \in Nat /\ Lapses' \in Nat
  BY <1>1 DEF Lapses
<1>3. Cardinality(RefusedByBreaker') + Pending' <= Lapses'
  BY <1>1, <1>2 DEF Balances
<1>4. resets' = 0 => Cardinality(RefusedByBreaker') + Pending' = Lapses'
  BY <1>1, <1>2 DEF Balances
<1>5. \A i \in RefusedByBreaker' : records'[i].outcome = "REFUSED"
  BY <1>1 DEF Balances
<1>6. resets' = 0 => \A i \in DOMAIN records' : records'[i].decision_id <= ids'.dec
  BY DEF Balances
<1> QED
  BY <1>3, <1>4, <1>5, <1>6 DEF Balances

LEMMA NextKeepsBalances == BothTyped /\ Balances /\ [GovernedNext]_governedVars => Balances'
<1> SUFFICES ASSUME BothTyped, Balances, [GovernedNext]_governedVars PROVE Balances'
  OBVIOUS
<1>0. /\ Typed /\ TypeOK /\ resets \in Nat /\ outages \in Nat
      /\ Cardinality(HealthFaults) \in Nat /\ Lapses \in Nat
  BY LogsAreCounted, ServiceAssumption DEF BothTyped, Typed, TypeOK, Balances, Lapses
<1>1. CASE UNCHANGED <<vars, healthEvents, outages>>
  BY <1>0, <1>1, NothingDropped
     DEF vars, Pending, Lapses, HealthFaults, Balances
<1>2. CASE Caller
  <2>1. /\ UNCHANGED <<records, healthEvents, outages>> /\ pc = "idle" /\ pc' # "finalize"
        /\ UNCHANGED <<ids, resets>> \/ resets' = resets + 1
    BY <1>2 DEF Caller, Submit, ResetIds, stores, breakerVars
  <2>2. Pending = 0 /\ Pending' = 0 /\ Lapses' = Lapses /\ HealthFaults' = HealthFaults
    BY <2>1 DEF Pending, Lapses, HealthFaults
  <2>3. resets' = 0 => resets = 0 /\ ids'.dec = ids.dec
    BY <1>0, <2>1
  <2> QED
    BY <1>0, <2>1, <2>2, <2>3, NothingDropped
<1>3. CASE Handle
  <2>1. OwnStep /\ UNCHANGED <<healthEvents, outages>> /\ UNCHANGED <<breakerVars, outages>>
    BY <1>3 DEF Handle, breakerVars
  <2>2. Lapses' = Lapses /\ HealthFaults' = HealthFaults
    BY <2>1 DEF Lapses, HealthFaults
  <2>3. CASE StoreRecord
    BY <2>1, <2>3, StoringBalances
  <2>4. CASE StoreRefuses
    <3>1. /\ pc = "finalize" /\ pc' = "idle" /\ UNCHANGED <<records, resets>>
          /\ ~RecordIsValid(DecisionRecord(ids.dec + 1)) \/ get(ids.dec + 1) # {}
      BY <2>4 DEF StoreRefuses, Escape
    <3>2. RecordIsValid(DecisionRecord(ids.dec + 1)) /\ ids.dec \in Nat
      <4>1. ids.dec + 1 \in Nat \ {0} /\ ids.dec \in Nat
        BY <1>0 DEF TypeOK
      <4> QED
        BY <1>0, <3>1, <4>1, SoundDraftIsValid DEF Typed, DraftOK, Final
    <3>3. PICK i \in DOMAIN records : records[i].decision_id = ids.dec + 1
      BY <3>1, <3>2 DEF get
    <3>4. resets # 0
      BY <3>2, <3>3 DEF Balances
    <3>5. Pending' = 0 /\ Pending \in {0, 1}
      BY <3>1 DEF Pending
    <3> QED
      BY <1>0, <2>1, <2>2, <3>1, <3>4, <3>5, NothingDropped
  <2>5. CASE /\ UNCHANGED <<records, resets>> /\ ids'.dec = ids.dec
             /\ pc # "finalize"
             /\ pc' = "finalize" => draft'.decision.mechanism # VerifierName
    <3>1. Pending = 0 /\ Pending' = 0
      BY <2>5 DEF Pending
    <3> QED
      BY <1>0, <2>1, <2>2, <2>5, <3>1, NothingDropped
  <2> QED
    BY <1>0, <2>1, <2>3, <2>4, <2>5, OwnRefusalsAreNotTheBreakers
<1>4. CASE AskBreaker \/ PassOver
  <2>1. UNCHANGED <<vars, outages>> /\ Cardinality(HealthFaults') = Cardinality(HealthFaults)
    <3>1. CASE Breaker!SkipUnhealthy
      BY <1>4, <3>1, OwnEventsAreNoLapses DEF AskBreaker, PassOver
    <3>2. CASE UNCHANGED healthEvents
      BY <1>4, <3>2 DEF AskBreaker, PassOver, HealthFaults
    <3> QED
      BY <1>4, <3>1, <3>2 DEF AskBreaker, PassOver, Breaker!Call, Breaker!SkipTripped
  <2>2. UNCHANGED <<pc, draft, ids, records, resets, outages>>
    BY <2>1 DEF vars
  <2>3. Pending' = Pending /\ Lapses' = Lapses /\ Pending \in {0, 1}
    BY <2>1, <2>2 DEF Pending, Lapses
  <2>4. Lapses \in Nat
    BY <1>0 DEF Lapses
  <2>5. pc' = "finalize" /\ draft'.decision.mechanism = VerifierName
          => draft'.decision.outcome = "REFUSED"
    BY <2>2 DEF Balances
  <2> QED
    BY <1>0, <2>1, <2>2, <2>3, <2>4, <2>5, NothingDropped
<1>5. CASE Served
  <2>1. PICK response \in Response :
          response.mechanism = Candidate[cursor] /\ VerifierAnswers(response)
    BY <1>5 DEF Served
  <2>2. /\ pc = "verify" /\ pc' = "finalize"
        /\ draft'.decision = decide(response)
        /\ UNCHANGED <<records, resets, ids, healthEvents, outages>>
    BY <1>5, <2>1 DEF Served, VerifierAnswers, FinalizeVerified, Finalize, stores, callers,
                      Breaker!Answers
  <2>3. draft'.decision.mechanism # VerifierName
    <3>1. decide(response).mechanism = response.mechanism
      BY DecideIsSound, ServiceAssumption
    <3>2. Candidate[cursor] \in Breaker!Name
      BY <1>5 DEF Served, Breaker!Answers, Breaker!Considering, Breaker!Name
    <3> QED
      BY <2>1, <2>2, <3>1, <3>2, CompositionAssumption
  <2>4. /\ Pending = 0 /\ Pending' = 0
        /\ Lapses' = Lapses /\ HealthFaults' = HealthFaults
    BY <2>2, <2>3 DEF Pending, Lapses, HealthFaults
  <2> QED
    BY <1>0, <2>2, <2>3, <2>4, NothingDropped
<1>6. CASE Failed \/ Unserved
  <2>1. PICK code : VerifierFails(code)
    BY <1>6 DEF Failed, Unserved
  <2>2. /\ pc = "verify" /\ pc' = "finalize"
        /\ draft'.decision = Refusal(reason_code_or_error(code), VerifierName)
        /\ UNCHANGED <<records, resets, ids>>
    BY <2>1 DEF VerifierFails, FinalizeVerified, Finalize, stores, callers
  <2>3. /\ draft'.decision.mechanism = VerifierName
        /\ draft'.decision.outcome = "REFUSED"
    BY <2>2 DEF Refusal, Refuse
  <2>4. Pending = 0 /\ Pending' = 1
    BY <2>2, <2>3 DEF Pending
  <2>5. Cardinality(HealthFaults') \in Nat /\ outages' \in Nat /\ Lapses' = Lapses + 1
    <3>1. CASE Failed
      <4>1. Cardinality(HealthFaults') = Cardinality(HealthFaults) + 1 /\ outages' = outages
        BY <3>1, FaultIsALapse DEF Failed
      <4> QED
        BY <1>0, <4>1 DEF Lapses
    <3>2. CASE Unserved
      <4>1. HealthFaults' = HealthFaults /\ outages' = outages + 1
        BY <3>2 DEF Unserved, Breaker!Exhausted, HealthFaults
      <4> QED
        BY <1>0, <4>1 DEF Lapses
    <3> QED
      BY <1>6, <3>1, <3>2
  <2>6. Lapses \in Nat
    BY <1>0 DEF Lapses
  <2> QED
    BY <1>0, <2>2, <2>3, <2>4, <2>5, <2>6, NothingDropped
<1>7. CASE Uncaught
  <2>1. /\ pc = "verify" /\ pc' = "idle"
        /\ UNCHANGED <<records, resets, ids, healthEvents, outages>>
    BY <1>7 DEF Uncaught, VerifierRaises, Escape, stores, Breaker!Raises
  <2>2. /\ Pending = 0 /\ Pending' = 0
        /\ Lapses' = Lapses /\ HealthFaults' = HealthFaults
    BY <2>1 DEF Pending, Lapses, HealthFaults
  <2> QED
    BY <1>0, <2>1, <2>2, NothingDropped
<1>8. CASE ResetHealth
  BY <1>1, <1>8 DEF ResetHealth, Breaker!Reset
<1>9. CASE UNCHANGED governedVars
  BY <1>1, <1>9 DEF governedVars, breakerVars
<1> QED
  BY <1>2, <1>3, <1>4, <1>5, <1>6, <1>7, <1>8, <1>9 DEF GovernedNext, Walk

\* The health log and the decision ledger account for each other, for any
\* mechanisms, answers, faults and resets: what the breaker could not have served
\* is refused once and under the breaker's name, and the ledger lacks such a
\* refusal only after identifiers were handed out a second time.
THEOREM FaultsBecomeRefusals == GovernedSpec => []FaultsAreRefusals
<1>1. GovernedInit => Balances
  <2> SUFFICES ASSUME GovernedInit PROVE Balances
    OBVIOUS
  <2>1. RefusedByBreaker = {} /\ HealthFaults = {} /\ outages = 0 /\ pc = "idle" /\ records = <<>>
    BY DEF GovernedInit, Init, Breaker!Init, RefusedByBreaker, HealthFaults
  <2> QED
    BY <2>1, FS_EmptySet DEF Balances, Pending, Lapses
<1>2. BothTyped /\ Balances => FaultsAreRefusals
  BY DEF Balances, FaultsAreRefusals, BreakerRefusals, Pending, Lapses
<1> QED
  BY <1>1, <1>2, NextKeepsBalances, BothTypedAlways, PTL DEF GovernedSpec

===============================================================================
