---------------------------- MODULE FunctionsProofs ----------------------------
(***************************************************************************)
(* Theorems about the pure functions, for any inputs they are given: any   *)
(* claims, wrappers, evidence, thresholds, policies, sentences, passages   *)
(* events and cases, in any number.                                        *)
(*                                                                         *)
(* The inputs grow freely, so the only invariant of the behaviours is what *)
(* the inputs are (InputsTyped).  Everything else is a theorem about the   *)
(* functions.                                                              *)
(***************************************************************************)
EXTENDS MCFunctions, DecisionProofs, SequenceTheorems, WellFoundedInduction

-------------------------------------------------------------------------------
(***************************************************************************)
(* The inputs.                                                             *)
(***************************************************************************)
\* An event as it is stored, classified.
Stored == [reason_code : FaultReason \cup JudgementReason \cup {None},
           environment : Environment, population : {"observed", "synthetic"},
           latency_ms : Nat]

CaseResult == [category : Category, expected : Verdict, actual : Verdict,
               times : BatchSize]

Scripted == [mechanism : {"scripted"}, claims : Seq(RawClaim),
             answers_question : {None, "true", "false"}, truncated : BOOLEAN]

InputsTyped ==
  /\ response \in Scripted /\ IsResponse(response)
  /\ stack \in Seq(Behavior)
  /\ items \in EvidenceSet
  /\ policy \in Seq(RoleGrant)
  /\ answer \in Seq(Sentence)
  /\ passages \in Seq(Passage)
  /\ question \in SUBSET Word
  /\ events \in Seq(Stored)
  /\ results \in Seq(CaseResult)

LEMMA InitTypes == Init => InputsTyped
<1> SUFFICES ASSUME Init PROVE InputsTyped
  OBVIOUS
<1>0. \A S : <<>> \in Seq(S)
  OBVIOUS
<1>1. response \in Scripted
  <2>1. CASE subject = "decide"
    BY <1>0, <2>1 DEF Init, Scripted
  <2>2. CASE subject # "decide"
    <3>1. response = NoResponse
      BY <2>2 DEF Init
    <3>2. NoResponse \in Scripted
      BY <1>0 DEF NoResponse, Scripted
    <3> QED
      BY <3>1, <3>2
  <2> QED
    BY <2>1, <2>2
<1>2. IsResponse(response)
  BY <1>1 DEF Scripted, IsResponse
<1> QED
  BY <1>0, <1>1, <1>2 DEF Init, InputsTyped, EvidenceSet

\* A sequence with one more element in its midst.
LEMMA Inserted ==
  ASSUME NEW S, NEW seq \in Seq(S), NEW k \in 1 .. Len(seq) + 1, NEW new \in S,
         NEW t, t = InsertAt(seq, k, new)
  PROVE  /\ t \in Seq(S) /\ Len(t) = Len(seq) + 1
         /\ \A i \in 1 .. k - 1 : t[i] = seq[i]
         /\ t[k] = new
         /\ \A i \in k .. Len(seq) : t[i + 1] = seq[i]
<1> DEFINE front == SubSeq(seq, 1, k - 1)
           back == SubSeq(seq, k, Len(seq))
           head == front \o <<new>>
<1>0. Len(seq) \in Nat /\ k \in Nat
  OBVIOUS
<1>1. /\ front \in Seq(S) /\ Len(front) = k - 1
      /\ \A i \in 1 .. k - 1 : front[i] = seq[i]
  OBVIOUS
<1>2. /\ back \in Seq(S) /\ Len(back) = Len(seq) - k + 1
      /\ \A i \in 1 .. Len(seq) - k + 1 : back[i] = seq[k + i - 1]
  OBVIOUS
<1>3. t = head \o back
  BY DEF InsertAt
<1> HIDE DEF front, back
<1>4. /\ head \in Seq(S) /\ Len(head) = k
      /\ \A i \in 1 .. k - 1 : head[i] = seq[i]
      /\ head[k] = new
  BY <1>0, <1>1
<1> HIDE DEF head
<1>c. /\ t \in Seq(S) /\ Len(t) = Len(head) + Len(back)
      /\ \A i \in 1 .. Len(head) + Len(back) :
           t[i] = IF i <= Len(head) THEN head[i] ELSE back[i - Len(head)]
  BY <1>2, <1>3, <1>4, ConcatProperties
<1>5. /\ t \in Seq(S) /\ Len(t) = Len(seq) + 1
      /\ \A i \in 1 .. k : t[i] = head[i]
  BY <1>0, <1>2, <1>4, <1>c
<1>6. \A i \in 1 .. Len(seq) - k + 1 : t[k + i] = back[i]
  BY <1>0, <1>2, <1>4, <1>c
<1>7. ASSUME NEW i \in k .. Len(seq) PROVE t[i + 1] = seq[i]
  <2>1. i - k + 1 \in 1 .. Len(seq) - k + 1 /\ k + (i - k + 1) = i + 1
        /\ k + (i - k + 1) - 1 = i
    BY <1>0
  <2> QED
    BY <1>2, <1>6, <2>1
<1> QED
  BY <1>0, <1>4, <1>5, <1>7

LEMMA NextTypes == InputsTyped /\ [Next]_vars => InputsTyped'
<1> SUFFICES ASSUME InputsTyped, [Next]_vars PROVE InputsTyped'
  OBVIOUS
<1>0. response \in Scripted
  BY DEF InputsTyped
<1>1. CASE UNCHANGED vars
  BY <1>1 DEF vars, inputs, measured, InputsTyped, IsResponse
<1>2. CASE Retrieve
  <2>1. PICK item \in [id : Ids, score : Scores, provenance : Source] :
          items' = Append(items, item)
    BY <1>2 DEF Retrieve
  <2>2. item \in EvidenceItem
    BY InputsAssumption DEF EvidenceItem
  <2>3. items' \in EvidenceSet
    BY <2>1, <2>2 DEF InputsTyped, EvidenceSet
  <2> QED
    BY <1>2, <2>3 DEF Retrieve, measured, InputsTyped, IsResponse
<1>3. CASE EmitClaim
  <2>1. PICK raw \in Samples : response' = [response EXCEPT !.claims = Append(@, raw)]
    BY <1>3 DEF EmitClaim
  <2>2. raw \in RawClaim
    BY InputsAssumption
  <2>3. Append(response.claims, raw) \in Seq(RawClaim)
    BY <1>0, <2>2 DEF Scripted
  <2>4. response' \in Scripted
    BY <1>0, <2>1, <2>3 DEF Scripted
  <2>5. IsResponse(response')
    BY <2>4 DEF Scripted, IsResponse
  <2> QED
    BY <1>3, <2>4, <2>5 DEF EmitClaim, measured, InputsTyped
<1>4. CASE CutOff
  <2>1. response' \in Scripted
    BY <1>0, <1>4 DEF CutOff, Scripted
  <2>2. IsResponse(response')
    BY <2>1 DEF Scripted, IsResponse
  <2> QED
    BY <1>4, <2>1, <2>2 DEF CutOff, measured, InputsTyped
<1>5. CASE Wrap
  <2>1. stack' \in Seq(Behavior)
    BY <1>5 DEF Wrap, InputsTyped
  <2> QED
    BY <1>5, <2>1 DEF Wrap, measured, InputsTyped, IsResponse
<1>6. CASE AddGrant
  <2>1. PICK k \in 1 .. Len(policy) + 1, role \in Role, p \in ResourceName,
             q \in ResourceName :
          policy' = InsertAt(policy, k, [role |-> role, resources |-> {p, q}])
    BY <1>6 DEF AddGrant
  <2>2. [role |-> role, resources |-> {p, q}] \in RoleGrant
    BY DEF RoleGrant
  <2>3. policy' \in Seq(RoleGrant)
    BY <2>1, <2>2, Inserted DEF InputsTyped
  <2> QED
    BY <1>6, <2>3 DEF AddGrant, measured, InputsTyped, IsResponse
<1>7. CASE Write
  <2>1. PICK sentence \in [words : SUBSET Word \ {{}}, limits : {FALSE}] :
          answer' = Append(answer, sentence)
    BY <1>7 DEF Write
  <2>2. sentence \in Sentence
    BY DEF Sentence
  <2>3. answer' \in Seq(Sentence)
    BY <2>1, <2>2 DEF InputsTyped
  <2> QED
    BY <1>7, <2>3 DEF Write, measured, InputsTyped, IsResponse
<1>8. CASE RetrievePassage
  <2>1. passages' \in Seq(Passage)
    BY <1>8 DEF RetrievePassage, InputsTyped
  <2> QED
    BY <1>8, <2>1 DEF RetrievePassage, measured, InputsTyped, IsResponse
<1>9. CASE Observe
  <2>1. PICK e \in Traffic : Capture(e)
    BY <1>9 DEF Observe
  <2>2. e \in TrafficType
    BY MetricsAssumption
  <2>3. /\ classify_environment(e.environment) \in Environment
        /\ classify_population(e.population) \in {"observed", "synthetic"}
    BY MetricsAssumption DEF classify_environment, classify_population
  <2>4. [e EXCEPT !.environment = classify_environment(@),
                  !.population = classify_population(@)] \in Stored
    BY <2>2, <2>3 DEF TrafficType, Stored
  <2>5. events' \in Seq(Stored)
    BY <2>1, <2>4 DEF Capture, InputsTyped
  <2> QED
    BY <1>9, <2>5 DEF Observe, inputs, InputsTyped, IsResponse
<1>10. CASE RunCases
  <2>1. PICK c \in Category, e \in Verdict, a \in Verdict, n \in BatchSize :
          Evaluate(c, e, a, n)
    BY <1>10 DEF RunCases
  <2>2. [category |-> c, expected |-> e, actual |-> a, times |-> n] \in CaseResult
    BY DEF CaseResult
  <2>3. results' \in Seq(CaseResult)
    BY <2>1, <2>2 DEF Evaluate, InputsTyped
  <2> QED
    BY <1>10, <2>3 DEF RunCases, inputs, InputsTyped, IsResponse
<1> QED
  BY <1>1, <1>2, <1>3, <1>4, <1>5, <1>6, <1>7, <1>8, <1>9, <1>10 DEF Next

LEMMA InputsAlwaysTyped == Spec => []InputsTyped
BY InitTypes, NextTypes, PTL DEF Spec

-------------------------------------------------------------------------------
(***************************************************************************)
(* The evidence gate.                                                      *)
(***************************************************************************)
\* Whatever retrieval returns, the gate opens exactly when enough items fit the
\* window and the best item retrieved reaches the bar (evaluate_gate()).
THEOREM GateOpens == Spec => []GateOpensOnBestScore
<1>1. InputsTyped => GateOpensOnBestScore
  BY GateIsExact DEF InputsTyped, GateOpensOnBestScore
<1> QED
  BY <1>1, InputsAlwaysTyped, PTL

\* The window is the same set of items, in whatever order they were retrieved.
LEMMA WindowIgnoresOrder ==
  ASSUME NEW set \in EvidenceSet, DistinctIds(set), NEW other \in Reorderings(set)
  PROVE  {other[i] : i \in Window(other)} = {set[i] : i \in Window(set)}
<1> DEFINE n == Len(set)
<1>1. /\ n \in Nat /\ DOMAIN set = 1 .. n
      /\ \A i \in 1 .. n : set[i].id \in Nat /\ set[i].score \in Nat
  BY ItemsTyped
<1> HIDE DEF n
<1>2. PICK p \in [1 .. n -> 1 .. n] :
        /\ Rearranges(p, n)
        /\ other = [i \in 1 .. n |-> set[p[i]]]
  BY <1>1 DEF Reorderings, Rearranges
<1>3. DOMAIN other = 1 .. n /\ \A i \in 1 .. n : other[i] = set[p[i]]
  BY <1>2
<1>4. \A i, j \in 1 .. n : Precedes(other, i, j) <=> Precedes(set, p[i], p[j])
  <2> SUFFICES ASSUME NEW i \in 1 .. n, NEW j \in 1 .. n
               PROVE  Precedes(other, i, j) <=> Precedes(set, p[i], p[j])
    OBVIOUS
  <2>1. p[i] \in 1 .. n /\ p[j] \in 1 .. n
    BY <1>2
  <2>2. CASE i = j
    <3>1. set[p[i]].id \in Nat /\ set[p[i]].score \in Nat /\ i \in Nat /\ p[i] \in Nat
      BY <1>1, <2>1
    <3> QED
      BY <1>3, <2>2, <3>1 DEF Precedes
  <2>3. CASE i # j
    <3>1. set[p[i]].id # set[p[j]].id
      BY <1>1, <1>2, <2>1, <2>3 DEF DistinctIds, Rearranges
    <3> QED
      BY <1>3, <3>1 DEF Precedes
  <2> QED
    BY <2>2, <2>3
<1>5. ASSUME NEW j \in 1 .. n
      PROVE  j \in Window(other) <=> p[j] \in Window(set)
  <2> DEFINE S == {i \in 1 .. n : Precedes(other, i, j)}
             T == {i \in 1 .. n : Precedes(set, i, p[j])}
  <2>1. Carries(p, n, S, T)
    BY <1>2, <1>4 DEF Carries
  <2>2. Cardinality(S) = Cardinality(T)
    <3> HIDE DEF S, T
    <3> QED
      BY <1>1, <1>2, <2>1, RearrangementKeepsCounts
  <2>3. p[j] \in 1 .. n
    BY <1>2
  <2> QED
    BY <1>1, <1>3, <2>2, <2>3 DEF Window, S, T
<1>6. Window(set) \subseteq 1 .. n /\ Window(other) \subseteq 1 .. n
  BY <1>1, <1>3 DEF Window
<1>7. \A k \in 1 .. n : \E i \in 1 .. n : p[i] = k
  BY <1>1, <1>2, RearrangementIsBijection
<1>8. \A i \in Window(other) : \E k \in Window(set) : other[i] = set[k]
  BY <1>2, <1>3, <1>5, <1>6
<1>9. \A k \in Window(set) : \E i \in Window(other) : other[i] = set[k]
  BY <1>3, <1>5, <1>6, <1>7
<1> QED
  BY <1>8, <1>9

\* Ties in relevance are broken by identifier, so that a baseline can be
\* reproduced, however many items tie (truncated_to()).
THEOREM WindowReproducible == Spec => []WindowIsOrderFree
<1>1. InputsTyped => WindowIsOrderFree
  BY WindowIgnoresOrder DEF InputsTyped, WindowIsOrderFree
<1> QED
  BY <1>1, InputsAlwaysTyped, PTL

-------------------------------------------------------------------------------
(***************************************************************************)
(* The decision function.                                                  *)
(***************************************************************************)
\* What is counted and looked for in a response does not depend on the order of
\* its claims.
LEMMA ReorderedAlike ==
  ASSUME NEW r, IsResponse(r), NEW s \in Reordered(r)
  PROVE  /\ IsResponse(s)
         /\ MayGround(s) <=> MayGround(r)
         /\ s.truncated = r.truncated
         /\ Defective(s.claims) = {} <=> Defective(r.claims) = {}
         /\ SelectStrategy(s.claims) = SelectStrategy(r.claims)
         /\ from_claims(s.claims) = from_claims(r.claims)
<1> DEFINE n == Len(r.claims)
<1>1. /\ r.claims \in Seq(RawClaim) /\ n \in Nat /\ DOMAIN r.claims = 1 .. n
      /\ \A i \in 1 .. n : r.claims[i] \in RawClaim
  BY DEF IsResponse
<1> HIDE DEF n
<1>2. PICK p \in [1 .. n -> 1 .. n] :
        /\ Rearranges(p, n)
        /\ s = [r EXCEPT !.claims = [i \in 1 .. n |-> r.claims[p[i]]]]
  BY <1>1 DEF Reordered, Rearranges
<1>3. /\ s.truncated = r.truncated /\ s.answers_question = r.answers_question
      /\ \/ s.claims = [i \in 1 .. n |-> r.claims[p[i]]]
         \/ s = r
  BY <1>2
<1>4. CASE s = r
  BY <1>4
<1>5. CASE s.claims = [i \in 1 .. n |-> r.claims[p[i]]]
  <2>1. /\ DOMAIN s.claims = 1 .. n
        /\ \A i \in 1 .. n : s.claims[i] = r.claims[p[i]] /\ p[i] \in 1 .. n
    BY <1>2, <1>5
  <2>2. s.claims \in [1 .. n -> RawClaim]
    BY <1>1, <1>5
  <2>3. s.claims \in Seq(RawClaim) /\ Len(s.claims) = n
    BY <1>1, <2>2
  <2>4. \A k \in 1 .. n : \E i \in 1 .. n : p[i] = k
    BY <1>1, <1>2, RearrangementIsBijection
  <2> DEFINE Values(c) == {c[i] : i \in 1 .. n}
  <2>5. Values(s.claims) = Values(r.claims)
    <3>1. \A i \in 1 .. n : s.claims[i] \in Values(r.claims)
      BY <2>1
    <3>2. ASSUME NEW k \in 1 .. n PROVE r.claims[k] \in Values(s.claims)
      <4>1. PICK i \in 1 .. n : p[i] = k
        BY <2>4
      <4> QED
        BY <2>1, <4>1
    <3> QED
      BY <3>1, <3>2
  <2>6. IsResponse(s)
    BY <1>3, <2>3 DEF IsResponse
  <2>7. Defective(s.claims) = {} <=> Defective(r.claims) = {}
    <3>1. \A c : DOMAIN c = 1 .. n =>
            (Defective(c) = {} <=> \A raw \in Values(c) : ClaimDefect(raw) = None)
      BY DEF Defective
    <3> HIDE DEF Values
    <3> QED
      BY <1>1, <2>1, <2>5, <3>1
  <2>8. (\A i \in 1 .. n : s.claims[i].verdict = "SUPPORTED")
          <=> \A i \in 1 .. n : r.claims[i].verdict = "SUPPORTED"
    <3>1. \A c : (\A i \in 1 .. n : c[i].verdict = "SUPPORTED")
                   <=> \A raw \in Values(c) : raw.verdict = "SUPPORTED"
      OBVIOUS
    <3> HIDE DEF Values
    <3> QED
      BY <2>5, <3>1
  <2>9. (\E i \in 1 .. n : s.claims[i].limits) <=> \E i \in 1 .. n : r.claims[i].limits
    <3>1. \A c : (\E i \in 1 .. n : c[i].limits)
                   <=> \E raw \in Values(c) : raw.limits
      OBVIOUS
    <3> HIDE DEF Values
    <3> QED
      BY <2>5, <3>1
  <2>10. s.claims = <<>> <=> r.claims = <<>>
    <3>1. \A c \in Seq(RawClaim) : c = <<>> <=> Len(c) = 0
      OBVIOUS
    <3> QED
      BY <1>1, <2>3, <3>1 DEF n
  <2>11. ASSUME NEW v
         PROVE  VerdictCount(s.claims, v) = VerdictCount(r.claims, v)
    <3> DEFINE S == {i \in 1 .. n : s.claims[i].verdict = v}
               T == {i \in 1 .. n : r.claims[i].verdict = v}
    <3>1. Carries(p, n, S, T)
      BY <2>1 DEF Carries
    <3>2. VerdictCount(s.claims, v) = Cardinality(S) /\ VerdictCount(r.claims, v) = Cardinality(T)
      BY <1>1, <2>1 DEF VerdictCount
    <3> HIDE DEF S, T
    <3> QED
      BY <1>1, <1>2, <3>1, <3>2, RearrangementKeepsCounts
  <2>12. from_claims(s.claims) = from_claims(r.claims)
    BY <2>3, <2>11 DEF from_claims, n
  <2>13. SelectStrategy(s.claims) = SelectStrategy(r.claims)
    BY <1>1, <2>1, <2>9 DEF SelectStrategy
  <2>14. MayGround(s) <=> MayGround(r)
    BY <1>1, <1>3, <2>1, <2>7, <2>8, <2>10 DEF MayGround, Grounds
  <2> QED
    BY <1>3, <2>6, <2>7, <2>12, <2>13, <2>14
<1> QED
  BY <1>3, <1>4, <1>5

\* Outcome, strategy and counts do not depend on the order of the claims, however
\* many there are (decide()).
THEOREM OrderIsIrrelevant == Spec => []ClaimOrderIsIrrelevant
<1>1. ASSUME InputsTyped, NEW s \in Reordered(response)
      PROVE  /\ decide(response).outcome = decide(s).outcome
             /\ decide(response).strategy = decide(s).strategy
             /\ decide(response).claim_counts = decide(s).claim_counts
  <2>1. IsResponse(response)
    BY <1>1 DEF InputsTyped
  <2> QED
    BY <1>1, <2>1, ReorderedAlike, DecideIsExact
<1>2. InputsTyped => ClaimOrderIsIrrelevant
  BY <1>1 DEF ClaimOrderIsIrrelevant
<1> QED
  BY <1>2, InputsAlwaysTyped, PTL

\* The claims that follow never rescue what was refused: the whole collection is
\* judged (decide()).
THEOREM OnlyMoreRefusals == Spec => MoreClaimsNeverGround
<1>1. ASSUME InputsTyped, [Next]_vars, response.claims # <<>>,
             decide(response).outcome = "REFUSED"
      PROVE  decide(response').outcome = "REFUSED"
  <2>1. IsResponse(response) /\ IsResponse(response')
    BY <1>1, NextTypes DEF InputsTyped
  <2>2. ~MayGround(response)
    BY <1>1, <2>1, DecideIsExact
  <2>3. ~MayGround(response')
    <3>1. CASE UNCHANGED response
      BY <2>2, <3>1
    <3>2. CASE EmitClaim
      <4> DEFINE claims == response.claims
      <4>1. PICK raw \in Samples :
              response' = [response EXCEPT !.claims = Append(claims, raw)]
        BY <3>2 DEF EmitClaim
      <4>2. \/ response' = response
            \/ /\ response'.claims = Append(claims, raw)
               /\ response'.truncated = response.truncated
               /\ response'.answers_question = response.answers_question
        BY <4>1
      <4>3. /\ claims \in Seq(RawClaim) /\ Len(claims) \in Nat /\ DOMAIN claims = 1 .. Len(claims)
            /\ raw \in RawClaim
        BY <2>1, InputsAssumption DEF IsResponse
      <4>4. /\ DOMAIN claims \subseteq DOMAIN Append(claims, raw)
            /\ \A i \in DOMAIN claims : Append(claims, raw)[i] = claims[i]
        BY <4>3
      <4>5. Defective(Append(claims, raw)) = {} => Defective(claims) = {}
        BY <4>4 DEF Defective
      <4>6. (\A i \in DOMAIN Append(claims, raw) : Append(claims, raw)[i].verdict = "SUPPORTED")
              => \A i \in DOMAIN claims : claims[i].verdict = "SUPPORTED"
        BY <4>4
      <4> QED
        BY <1>1, <2>2, <4>2, <4>5, <4>6 DEF MayGround, Grounds
    <3>3. CASE CutOff
      BY <2>1, <3>3 DEF CutOff, MayGround, Grounds, IsResponse
    <3> QED
      BY <1>1, <3>1, <3>2, <3>3 DEF Next, vars, inputs, measured, Retrieve, Wrap,
         AddGrant, Write, RetrievePassage, Observe, RunCases
  <2> QED
    BY <2>1, <2>3, DecideIsExact
<1>2. InputsTyped /\ [Next]_vars =>
        [(/\ response.claims # <<>>
          /\ decide(response).outcome = "REFUSED") => decide(response)'.outcome = "REFUSED"]_vars
  BY <1>1
<1> QED
  BY <1>2, InputsAlwaysTyped, PTL DEF Spec, MoreClaimsNeverGround

\* The objection to the first claim that cannot be parsed.
FirstDefect(claims) ==
  CHOOSE i \in Defective(claims) : Defective(claims) \cap 1 .. i = {i}

\* What parsing stops at is the first defect.
LEMMA FirstDefectIsParsed ==
  ASSUME NEW claims \in Seq(RawClaim), Defective(claims) # {}
  PROVE  /\ FirstDefect(claims) \in Defective(claims)
         /\ ParseFailure(claims) = ClaimDefect(claims[FirstDefect(claims)])
<1>1. PICK first \in Defective(claims) :
        /\ \A j \in Defective(claims) : first <= j
        /\ ParseFailure(claims) = ClaimDefect(claims[first])
  BY ParserFindsFirst
<1>2. Defective(claims) \subseteq Nat \ {0}
  BY DEF Defective
<1>3. Defective(claims) \cap 1 .. first = {first}
  BY <1>1, <1>2
<1>4. \A i \in Defective(claims) : Defective(claims) \cap 1 .. i = {i} => i = first
  <2> SUFFICES ASSUME NEW i \in Defective(claims), Defective(claims) \cap 1 .. i = {i}
               PROVE  i = first
    OBVIOUS
  <2>1. first <= i /\ first \in Nat \ {0} /\ i \in Nat
    BY <1>1, <1>2
  <2>2. first \in Defective(claims) \cap 1 .. i
    BY <2>1
  <2> QED
    BY <2>2
<1>5. FirstDefect(claims) = first
  BY <1>3, <1>4 DEF FirstDefect
<1> QED
  BY <1>1, <1>5

\* The objections to a response, one by one.
LEMMA ObjectionsListed ==
  ASSUME NEW r, NEW o
  PROVE  o \in Objections(r) <=>
           \/ o = <<1, "verifier_output_truncated">> /\ r.truncated
           \/ /\ FirstDefect(r.claims) \in Defective(r.claims)
              /\ o = <<2, ClaimDefect(r.claims[FirstDefect(r.claims)])>>
           \/ o = <<3, "empty_claim_set">> /\ r.claims = <<>>
           \/ o = <<4, "no_supported_claims">>
                /\ {i \in DOMAIN r.claims : r.claims[i].verdict = "SUPPORTED"} = {}
           \/ o = <<5, "unsupported_claim">>
                /\ {i \in DOMAIN r.claims : r.claims[i].verdict = "SUPPORTED"}
                     # DOMAIN r.claims
           \/ o = <<6, "malformed_verifier_output">> /\ r.answers_question = None
           \/ o = <<7, "does_not_address_question">> /\ r.answers_question = "false"
BY Zenon DEF Objections, FirstDefect

\* What the contract lists as the order of its rules is the order in which decide()
\* applies them, and there is a rule behind every refusal: for any claims.
LEMMA DecideRanks ==
  ASSUME NEW r, IsResponse(r)
  PROVE  IF Objections(r) = {}
           THEN decide(r).outcome = "GROUNDED" /\ decide(r).reason_code = None
           ELSE /\ decide(r).outcome = "REFUSED"
                /\ \E o \in Objections(r) :
                     /\ decide(r).reason_code = o[2]
                     /\ \A other \in Objections(r) : o[1] <= other[1]
<1> DEFINE good == {i \in DOMAIN r.claims : r.claims[i].verdict = "SUPPORTED"}
           first == FirstDefect(r.claims)
           defect == ClaimDefect(r.claims[first])
<1>0. /\ r.claims \in Seq(RawClaim) /\ r.truncated \in BOOLEAN
      /\ r.answers_question \in {None, "true", "false"}
      /\ r.claims = <<>> => DOMAIN r.claims = {}
  BY DEF IsResponse
<1>1. /\ decide(r).outcome = IF MayGround(r) THEN "GROUNDED" ELSE "REFUSED"
      /\ decide(r).reason_code =
           IF r.truncated THEN "verifier_output_truncated"
           ELSE IF Defective(r.claims) # {} THEN ParseFailure(r.claims)
           ELSE IF ClaimsFailure(r.claims) # None THEN ClaimsFailure(r.claims)
           ELSE RelevanceFailure(r.answers_question)
  BY DecideIsExact
<1>2. ClaimsFailure(r.claims) = IF r.claims = <<>> THEN "empty_claim_set"
                                ELSE IF good = {} THEN "no_supported_claims"
                                ELSE IF good # DOMAIN r.claims THEN "unsupported_claim"
                                ELSE None
  BY DEF ClaimsFailure
<1>3. /\ Defective(r.claims) # {} =>
           first \in Defective(r.claims) /\ ParseFailure(r.claims) = defect
      /\ first \in Defective(r.claims) => Defective(r.claims) # {}
  BY <1>0, FirstDefectIsParsed
<1>4. \A o : o \in Objections(r) <=>
         \/ o = <<1, "verifier_output_truncated">> /\ r.truncated
         \/ o = <<2, defect>> /\ Defective(r.claims) # {}
         \/ o = <<3, "empty_claim_set">> /\ r.claims = <<>>
         \/ o = <<4, "no_supported_claims">> /\ good = {}
         \/ o = <<5, "unsupported_claim">> /\ good # DOMAIN r.claims
         \/ o = <<6, "malformed_verifier_output">> /\ r.answers_question = None
         \/ o = <<7, "does_not_address_question">> /\ r.answers_question = "false"
  BY <1>3, ObjectionsListed, Zenon
<1>5. MayGround(r) <=> /\ ~r.truncated /\ Defective(r.claims) = {} /\ r.claims # <<>>
                       /\ good = DOMAIN r.claims /\ r.answers_question = "true"
  BY DEF MayGround, Grounds
<1>6. good # {} \/ r.claims = <<>> \/ good # DOMAIN r.claims
  <2>1. \A c \in Seq(RawClaim) : DOMAIN c = {} => c = <<>>
    <3>1. \A c \in Seq(RawClaim) : /\ DOMAIN c = 1 .. Len(c) /\ Len(c) \in Nat
                                   /\ c = <<>> <=> Len(c) = 0
      OBVIOUS
    <3>2. \A n \in Nat : n # 0 => 1 \in 1 .. n
      OBVIOUS
    <3> QED
      BY <3>1, <3>2
  <2> QED
    BY <1>0, <2>1
<1>7. /\ RelevanceFailure(None) = "malformed_verifier_output"
      /\ RelevanceFailure("false") = "does_not_address_question"
      /\ RelevanceFailure("true") = None
      /\ None \notin {"true", "false"}
  BY DEF RelevanceFailure, None
<1> HIDE DEF good, defect, first
<1>8. CASE Objections(r) = {}
  <2>1. /\ ~r.truncated /\ Defective(r.claims) = {} /\ r.claims # <<>>
        /\ good # {} /\ good = DOMAIN r.claims /\ r.answers_question = "true"
    BY <1>0, <1>4, <1>8
  <2> QED
    BY <1>1, <1>2, <1>5, <1>7, <1>8, <2>1
<1>9. ASSUME NEW rank \in 1 .. 7, NEW code, <<rank, code>> \in Objections(r),
             ~MayGround(r), decide(r).reason_code = code,
             \A o \in Objections(r) : rank <= o[1]
      PROVE  /\ Objections(r) # {} /\ decide(r).outcome = "REFUSED"
             /\ \E o \in Objections(r) : /\ decide(r).reason_code = o[2]
                                         /\ \A other \in Objections(r) : o[1] <= other[1]
  <2>1. <<rank, code>>[1] = rank /\ <<rank, code>>[2] = code
    OBVIOUS
  <2>2. decide(r).outcome = "REFUSED"
    BY <1>1, <1>9
  <2> QED
    BY <1>9, <2>1, <2>2
<1>10. CASE r.truncated
  <2>1. <<1, "verifier_output_truncated">> \in Objections(r)
    BY <1>4, <1>10
  <2>2. \A o \in Objections(r) : 1 <= o[1]
    BY <1>4, <1>7, <1>10
  <2>3. ~MayGround(r)
    BY <1>5, <1>7, <1>10
  <2>4. decide(r).reason_code = "verifier_output_truncated"
    BY <1>1, <1>2, <1>3, <1>7, <1>10 DEF None
  <2> QED
    BY <1>9, <2>1, <2>2, <2>3, <2>4
<1>11. CASE ~r.truncated /\ Defective(r.claims) # {}
  <2>1. <<2, defect>> \in Objections(r)
    BY <1>4, <1>11
  <2>2. \A o \in Objections(r) : 2 <= o[1]
    BY <1>4, <1>7, <1>11
  <2>3. ~MayGround(r)
    BY <1>5, <1>7, <1>11
  <2>4. decide(r).reason_code = defect
    BY <1>1, <1>2, <1>3, <1>7, <1>11 DEF None
  <2> QED
    BY <1>9, <2>1, <2>2, <2>3, <2>4
<1>12. CASE ~r.truncated /\ Defective(r.claims) = {} /\ r.claims = <<>>
  <2>1. <<3, "empty_claim_set">> \in Objections(r)
    BY <1>4, <1>12
  <2>2. \A o \in Objections(r) : 3 <= o[1]
    BY <1>4, <1>7, <1>12
  <2>3. ~MayGround(r)
    BY <1>5, <1>7, <1>12
  <2>4. decide(r).reason_code = "empty_claim_set"
    BY <1>1, <1>2, <1>3, <1>7, <1>12 DEF None
  <2> QED
    BY <1>9, <2>1, <2>2, <2>3, <2>4
<1>13. CASE /\ ~r.truncated /\ Defective(r.claims) = {} /\ r.claims # <<>>
            /\ good = {}
  <2>1. <<4, "no_supported_claims">> \in Objections(r)
    BY <1>4, <1>13
  <2>2. \A o \in Objections(r) : 4 <= o[1]
    BY <1>4, <1>7, <1>13
  <2>3. ~MayGround(r)
    BY <1>5, <1>6, <1>13
  <2>4. decide(r).reason_code = "no_supported_claims"
    BY <1>1, <1>2, <1>3, <1>7, <1>13 DEF None
  <2> QED
    BY <1>9, <2>1, <2>2, <2>3, <2>4
<1>14. CASE /\ ~r.truncated /\ Defective(r.claims) = {} /\ r.claims # <<>>
            /\ good # {} /\ good # DOMAIN r.claims
  <2>1. <<5, "unsupported_claim">> \in Objections(r)
    BY <1>4, <1>14
  <2>2. \A o \in Objections(r) : 5 <= o[1]
    BY <1>4, <1>7, <1>14
  <2>3. ~MayGround(r)
    BY <1>5, <1>7, <1>14
  <2>4. decide(r).reason_code = "unsupported_claim"
    BY <1>1, <1>2, <1>3, <1>7, <1>14 DEF None
  <2> QED
    BY <1>9, <2>1, <2>2, <2>3, <2>4
<1>15. CASE /\ ~r.truncated /\ Defective(r.claims) = {} /\ r.claims # <<>>
            /\ good # {} /\ good = DOMAIN r.claims /\ r.answers_question = None
  <2>1. <<6, "malformed_verifier_output">> \in Objections(r)
    BY <1>4, <1>15
  <2>2. \A o \in Objections(r) : 6 <= o[1]
    BY <1>4, <1>7, <1>15
  <2>3. ~MayGround(r)
    BY <1>5, <1>7, <1>15
  <2>4. decide(r).reason_code = "malformed_verifier_output"
    BY <1>1, <1>2, <1>3, <1>7, <1>15 DEF None
  <2> QED
    BY <1>9, <2>1, <2>2, <2>3, <2>4
<1>16. CASE /\ ~r.truncated /\ Defective(r.claims) = {} /\ r.claims # <<>>
            /\ good # {} /\ good = DOMAIN r.claims /\ r.answers_question = "false"
  <2>1. <<7, "does_not_address_question">> \in Objections(r)
    BY <1>4, <1>16
  <2>2. \A o \in Objections(r) : 7 <= o[1]
    BY <1>4, <1>7, <1>16
  <2>3. ~MayGround(r)
    BY <1>5, <1>7, <1>16
  <2>4. decide(r).reason_code = "does_not_address_question"
    BY <1>1, <1>2, <1>3, <1>7, <1>16 DEF None
  <2> QED
    BY <1>9, <2>1, <2>2, <2>3, <2>4
<1>17. CASE /\ ~r.truncated /\ Defective(r.claims) = {} /\ r.claims # <<>>
            /\ good # {} /\ good = DOMAIN r.claims /\ r.answers_question = "true"
  <2>1. Objections(r) = {}
    BY <1>4, <1>7, <1>17
  <2> QED
    BY <1>8, <2>1
<1> QED
  BY <1>0, <1>6, <1>8, <1>10, <1>11, <1>12, <1>13, <1>14, <1>15, <1>16, <1>17

\* decide() refuses exactly when a rule of the contract objects, and for the rule
\* that the contract ranks first.
THEOREM ContractIsFollowed == Spec => []DecidesAsTheContractRanks
<1>1. InputsTyped => DecidesAsTheContractRanks
  BY DecideRanks DEF InputsTyped, DecidesAsTheContractRanks
<1> QED
  BY <1>1, InputsAlwaysTyped, PTL

-------------------------------------------------------------------------------
(***************************************************************************)
(* The authorizer.                                                         *)
(***************************************************************************)
\* If a role has a grant, one of them is its first.
LEMMA FirstPlace ==
  ASSUME NEW grants \in Seq(RoleGrant), NEW role,
         \E j \in DOMAIN grants : grants[j].role = role
  PROVE  \E i \in DOMAIN grants :
           grants[i].role = role /\ \A j \in 1 .. i - 1 : grants[j].role # role
<1> DEFINE S == {j \in DOMAIN grants : grants[j].role = role}
<1>1. S \subseteq Nat /\ S # {}
  OBVIOUS
<1>0. DOMAIN grants \subseteq Nat
  OBVIOUS
<1>2. PICK i \in S : \A j \in S : ~(<<j, i>> \in OpToRel(<, Nat))
  BY <1>1, NatLessThanWellFounded, WFMin
<1>3. \A j \in S : ~(j < i)
  BY <1>1, <1>2 DEF OpToRel
<1>4. ASSUME NEW j \in 1 .. i - 1 PROVE grants[j].role # role
  <2>1. j < i /\ j \in DOMAIN grants
    BY <1>0
  <2> QED
    BY <1>3, <2>1
<1> QED
  BY <1>4

\* The first grant written for a role, if there is one, is one grant of the policy.
LEMMA FirstGrant ==
  ASSUME NEW grants \in Seq(RoleGrant), NEW role, NEW i \in DOMAIN grants,
         grants[i].role = role, \A j \in 1 .. i - 1 : grants[j].role # role
  PROVE  grant_for(grants, role) = {grants[i]}
<1>1. \A j \in DOMAIN grants :
        grants[j].role = role /\ (\A k \in DOMAIN grants : grants[k].role = role => j <= k)
          <=> j = i
  OBVIOUS
<1> QED
  BY <1>1 DEF grant_for

\* A policy with one more grant, and whose access that moves.
LEMMA InsertedGrant ==
  ASSUME NEW before \in Seq(RoleGrant), NEW k \in 1 .. Len(before) + 1,
         NEW new \in RoleGrant, NEW after, after = InsertAt(before, k, new),
         NEW actor \in Actor, NEW resource
  PROVE  authorize(after, actor, resource) <=>
           IF new.role = actor.role /\ \A j \in 1 .. k - 1 : before[j].role # actor.role
           THEN actor.actor_type = "principal" /\ permits(new, resource)
           ELSE authorize(before, actor, resource)
<1>1. /\ after \in Seq(RoleGrant) /\ Len(after) = Len(before) + 1
      /\ \A i \in 1 .. k - 1 : after[i] = before[i]
      /\ after[k] = new
      /\ \A i \in k .. Len(before) : after[i + 1] = before[i]
  <2>1. after \in Seq(RoleGrant) /\ Len(after) = Len(before) + 1
    BY Inserted
  <2>2. \A i \in 1 .. k - 1 : after[i] = before[i]
    BY Inserted
  <2>3. after[k] = new
    BY Inserted
  <2>4. \A i \in k .. Len(before) : after[i + 1] = before[i]
    BY Inserted
  <2> QED
    BY <2>1, <2>2, <2>3, <2>4
<1>2. /\ Len(before) \in Nat /\ k \in Nat /\ DOMAIN before = 1 .. Len(before)
      /\ DOMAIN after = 1 .. Len(before) + 1
  BY <1>1
<1>3. CASE new.role = actor.role /\ \A j \in 1 .. k - 1 : before[j].role # actor.role
  <2>1. \A j \in 1 .. k - 1 : after[j].role # actor.role
    BY <1>1, <1>3
  <2>2. grant_for(after, actor.role) = {after[k]}
    BY <1>1, <1>2, <1>3, <2>1, FirstGrant
  <2>3. actor.role # NoRole
    BY <1>3, AuthorizationAssumption DEF RoleGrant
  <2> QED
    BY <1>1, <1>3, <2>2, <2>3 DEF authorize
<1>4. CASE ~(new.role = actor.role /\ \A j \in 1 .. k - 1 : before[j].role # actor.role)
  <2>1. CASE \A j \in DOMAIN before : before[j].role # actor.role
    <3>1. new.role # actor.role
      BY <1>2, <1>4, <2>1
    <3>2. ASSUME NEW j \in DOMAIN after PROVE after[j].role # actor.role
      <4>1. CASE j < k
        BY <1>1, <1>2, <2>1, <4>1
      <4>2. CASE j = k
        BY <1>1, <3>1, <4>2
      <4>3. CASE j > k
        <5>1. j - 1 \in k .. Len(before) /\ j - 1 \in DOMAIN before /\ (j - 1) + 1 = j
          BY <1>2, <4>3
        <5> QED
          BY <1>1, <2>1, <5>1
      <4> QED
        BY <1>2, <4>1, <4>2, <4>3
    <3>3. grant_for(before, actor.role) = {} /\ grant_for(after, actor.role) = {}
      BY <2>1, <3>2 DEF grant_for
    <3> QED
      BY <1>4, <3>3 DEF authorize
  <2>2. CASE \E j \in DOMAIN before : before[j].role = actor.role
    <3>1. PICK i \in DOMAIN before :
            before[i].role = actor.role /\ \A j \in 1 .. i - 1 : before[j].role # actor.role
      BY <2>2, FirstPlace
    <3>2. grant_for(before, actor.role) = {before[i]}
      BY <3>1, FirstGrant
    <3>3. grant_for(after, actor.role) = {before[i]}
      <4>1. CASE i < k
        <5>1. /\ i \in DOMAIN after /\ after[i] = before[i]
              /\ \A j \in 1 .. i - 1 : after[j] = before[j]
          BY <1>1, <1>2, <4>1
        <5>2. \A j \in 1 .. i - 1 : after[j].role # actor.role
          BY <3>1, <5>1
        <5>3. after[i].role = actor.role
          BY <3>1, <5>1
        <5>4. grant_for(after, actor.role) = {after[i]}
          BY <1>1, <5>1, <5>2, <5>3, FirstGrant
        <5> QED
          BY <5>1, <5>4
      <4>2. CASE ~(i < k)
        <5>1. i + 1 \in DOMAIN after /\ after[i + 1] = before[i] /\ i \in Nat
          BY <1>1, <1>2, <4>2
        <5>2. new.role # actor.role
          <6>1. \A j \in 1 .. k - 1 : before[j].role # actor.role
            BY <1>2, <3>1, <4>2
          <6> QED
            BY <1>4, <6>1
        <5>3. ASSUME NEW j \in 1 .. i PROVE after[j].role # actor.role
          <6>1. CASE j < k
            BY <1>1, <1>2, <3>1, <4>2, <5>1, <6>1
          <6>2. CASE j = k
            BY <1>1, <5>2, <6>2
          <6>3. CASE j > k
            <7>1. j - 1 \in k .. Len(before) /\ j - 1 \in 1 .. i - 1 /\ (j - 1) + 1 = j
              BY <1>2, <5>1, <6>3
            <7> QED
              BY <1>1, <3>1, <7>1
          <6> QED
            BY <1>2, <6>1, <6>2, <6>3
        <5> DEFINE n == i + 1
        <5>4. after[n].role = actor.role /\ n \in DOMAIN after /\ after[n] = before[i]
          BY <3>1, <5>1
        <5>5. \A j \in 1 .. n - 1 : after[j].role # actor.role
          <6>1. n - 1 = i
            BY <5>1
          <6> QED
            BY <5>3, <6>1
        <5> HIDE DEF n
        <5>6. grant_for(after, actor.role) = {after[n]}
          BY <1>1, <5>4, <5>5, FirstGrant
        <5> QED
          BY <5>4, <5>6
      <4> QED
        BY <4>1, <4>2
    <3> QED
      BY <1>4, <3>2, <3>3 DEF authorize
  <2> QED
    BY <2>1, <2>2
<1> QED
  BY <1>3, <1>4

\* Where a grant is inserted decides whose access it moves (grant_for()), in a
\* policy of any length.
THEOREM InsertionMoves == Spec => InsertionMovesItsRoleOnly
<1> DEFINE Moves ==
       \A k \in DOMAIN policy' :
         AddGrant /\ policy' = InsertAt(policy, k, policy'[k]) =>
           \A actor \in Actor, resource \in ResourceName :
             authorize(policy', actor, resource) <=>
               IF /\ policy'[k].role = actor.role
                  /\ \A j \in 1 .. k - 1 : policy[j].role # actor.role
               THEN actor.actor_type = "principal" /\ permits(policy'[k], resource)
               ELSE authorize(policy, actor, resource)
<1>1. ASSUME InputsTyped, [Next]_vars PROVE Moves
  <2> SUFFICES ASSUME NEW k \in DOMAIN policy', AddGrant,
                      policy' = InsertAt(policy, k, policy'[k]),
                      NEW actor \in Actor, NEW resource \in ResourceName
               PROVE  authorize(policy', actor, resource) <=>
                        IF /\ policy'[k].role = actor.role
                           /\ \A j \in 1 .. k - 1 : policy[j].role # actor.role
                        THEN actor.actor_type = "principal" /\ permits(policy'[k], resource)
                        ELSE authorize(policy, actor, resource)
    OBVIOUS
  <2>1. policy \in Seq(RoleGrant) /\ policy' \in Seq(RoleGrant)
    BY <1>1, NextTypes DEF InputsTyped
  <2>2. PICK m \in 1 .. Len(policy) + 1, role \in Role, p \in ResourceName,
             q \in ResourceName :
          policy' = InsertAt(policy, m, [role |-> role, resources |-> {p, q}])
    BY DEF AddGrant
  <2>3. [role |-> role, resources |-> {p, q}] \in RoleGrant
    BY DEF RoleGrant
  <2>4. Len(policy') = Len(policy) + 1
    BY <2>1, <2>2, <2>3, Inserted
  <2>5. k \in 1 .. Len(policy) + 1 /\ policy'[k] \in RoleGrant
    BY <2>1, <2>4
  <2> QED
    BY <2>1, <2>5, InsertedGrant
<1>2. InputsTyped /\ [Next]_vars => [Moves]_vars
  BY <1>1
<1> QED
  BY <1>2, InputsAlwaysTyped, PTL DEF Spec, InsertionMovesItsRoleOnly

-------------------------------------------------------------------------------
(***************************************************************************)
(* The keyword verifier.                                                   *)
(***************************************************************************)
\* What it responds always parses; a sentence is supported exactly if one passage
\* carries it.
LEMMA KeywordResponds ==
  ASSUME InputsTyped, NEW name
  PROVE  LET r == KeywordVerify(name, answer, passages, question)
         IN  /\ IsResponse(r) /\ ~r.truncated /\ Defective(r.claims) = {}
             /\ r.claims = <<>> <=> answer = <<>>
             /\ DOMAIN r.claims = DOMAIN answer
             /\ \A i \in DOMAIN answer : r.claims[i].verdict = "SUPPORTED" <=> Carried(answer[i])
             /\ r.answers_question \in {"true", "false"}
             /\ r.answers_question = "true" <=>
                  \E i \in DOMAIN answer :
                    /\ Carried(answer[i])
                    /\ answer[i].words \cap question \cap Significant # {}
<1> DEFINE r == KeywordVerify(name, answer, passages, question)
<1>1. /\ answer \in Seq(Sentence) /\ DOMAIN answer = 1 .. Len(answer) /\ Len(answer) \in Nat
      /\ passages \in Seq(Passage)
      /\ \A i \in DOMAIN answer : answer[i].words \subseteq Word /\ answer[i].limits \in BOOLEAN
      /\ \A i \in DOMAIN passages : passages[i] \subseteq Word
  <2>1. /\ answer \in Seq(Sentence) /\ passages \in Seq(Passage)
    BY DEF InputsTyped
  <2>2. \A i \in DOMAIN answer : answer[i] \in Sentence
    BY <2>1
  <2>3. \A i \in DOMAIN answer : answer[i].words \subseteq Word /\ answer[i].limits \in BOOLEAN
    BY <2>2 DEF Sentence
  <2>4. \A i \in DOMAIN passages : passages[i] \subseteq Word
    BY <2>1 DEF Passage
  <2> QED
    BY <2>1, <2>3, <2>4
<1>2. /\ r.claims = [i \in DOMAIN answer |-> JudgedSentence(answer[i], passages)]
      /\ r.answers_question =
           IF \E i \in DOMAIN answer : /\ Entailing(answer[i], passages) # {}
                                      /\ _overlaps(question, answer[i])
             THEN "true" ELSE "false"
      /\ r.truncated = FALSE
  BY DEF KeywordVerify
<1> HIDE DEF r
<1>3. \A i \in DOMAIN answer : Entailing(answer[i], passages) # {} <=> Carried(answer[i])
  <2> SUFFICES ASSUME NEW i \in DOMAIN answer
               PROVE  Entailing(answer[i], passages) # {} <=> Carried(answer[i])
    OBVIOUS
  <2>1. \A k \in DOMAIN passages : \A w :
          OccursIn(w, passages[k])
            <=> passages[k] \cap {v \in Word : <<w, v>> \in PartOf} # {}
    BY <1>1 DEF OccursIn
  <2> QED
    BY <2>1 DEF Entailing, Entails, Carried
<1>4. \A i \in DOMAIN answer :
        /\ r.claims[i] = JudgedSentence(answer[i], passages)
        /\ r.claims[i] \in RawClaim
        /\ r.claims[i].verdict = IF Carried(answer[i]) THEN "SUPPORTED" ELSE "UNSUPPORTED"
        /\ ClaimDefect(r.claims[i]) = None
  <2> SUFFICES ASSUME NEW i \in DOMAIN answer
               PROVE  /\ r.claims[i] = JudgedSentence(answer[i], passages)
                      /\ r.claims[i] \in RawClaim
                      /\ r.claims[i].verdict
                           = IF Carried(answer[i]) THEN "SUPPORTED" ELSE "UNSUPPORTED"
                      /\ ClaimDefect(r.claims[i]) = None
    OBVIOUS
  <2>1. /\ r.claims[i] = JudgedSentence(answer[i], passages)
        /\ answer[i].limits \in BOOLEAN
    BY <1>1, <1>2
  <2>2. \/ /\ Carried(answer[i])
           /\ r.claims[i] = [verdict |-> "SUPPORTED", text |-> "words",
                             evidence_ref |-> "ref", limits |-> answer[i].limits]
        \/ /\ ~Carried(answer[i])
           /\ r.claims[i] = [verdict |-> "UNSUPPORTED", text |-> "words",
                             evidence_ref |-> None, limits |-> answer[i].limits]
    BY <1>3, <2>1 DEF JudgedSentence
  <2>3. ASSUME NEW limits \in BOOLEAN, NEW verdict, NEW ref,
               \/ verdict = "SUPPORTED" /\ ref = "ref"
               \/ verdict = "UNSUPPORTED" /\ ref = None
        PROVE  LET raw == [verdict |-> verdict, text |-> "words",
                           evidence_ref |-> ref, limits |-> limits]
               IN  raw \in RawClaim /\ raw.verdict = verdict /\ ClaimDefect(raw) = None
    BY <2>3 DEF RawClaim, ClaimVerdict, ClaimDefect, ClaimIsValid, StrOfText, None
  <2> QED
    BY <2>1, <2>2, <2>3
<1>5. /\ r.claims \in [1 .. Len(answer) -> RawClaim]
      /\ DOMAIN r.claims = DOMAIN answer
  BY <1>1, <1>2, <1>4
<1>6. r.claims \in Seq(RawClaim) /\ Len(r.claims) = Len(answer)
  BY <1>1, <1>5
<1>7. r.claims = <<>> <=> answer = <<>>
  BY <1>1, <1>6
<1>8. Defective(r.claims) = {}
  BY <1>4, <1>5 DEF Defective
<1>9. r.answers_question = "true" <=>
        \E i \in DOMAIN answer : /\ Carried(answer[i])
                                 /\ answer[i].words \cap question \cap Significant # {}
  <2>1. \A i \in DOMAIN answer : _overlaps(question, answer[i])
          <=> answer[i].words \cap question \cap Significant # {}
    BY DEF _overlaps
  <2> QED
    BY <1>2, <1>3, <2>1
<1>10. IsResponse(r)
  BY <1>2, <1>6 DEF IsResponse
<1> QED
  BY <1>2, <1>4, <1>5, <1>7, <1>8, <1>9, <1>10 DEF r

\* An answer is grounded exactly if each sentence is carried by one passage and one
\* takes up the question, and is refused as a judgement otherwise, for any answer
\* and passages (KeywordVerifier.verify()).
THEOREM KeywordIsExact == Spec => []KeywordGroundsOnEvidence
<1>1. ASSUME InputsTyped PROVE KeywordGroundsOnEvidence
  <2> DEFINE r == KeywordVerify("keyword", answer, passages, question)
             grounded_ == /\ answer # <<>>
                          /\ \A i \in DOMAIN answer : Carried(answer[i])
                          /\ \E i \in DOMAIN answer :
                               answer[i].words \cap question \cap Significant # {}
  <2>1. /\ IsResponse(r) /\ ~r.truncated /\ Defective(r.claims) = {}
        /\ r.claims = <<>> <=> answer = <<>>
        /\ DOMAIN r.claims = DOMAIN answer
        /\ \A i \in DOMAIN answer : r.claims[i].verdict = "SUPPORTED" <=> Carried(answer[i])
        /\ r.answers_question \in {"true", "false"}
        /\ r.answers_question = "true" <=>
             \E i \in DOMAIN answer : /\ Carried(answer[i])
                                      /\ answer[i].words \cap question \cap Significant # {}
    BY <1>1, KeywordResponds
  <2> HIDE DEF r
  <2>2. MayGround(r) <=> grounded_
    BY <2>1 DEF MayGround, Grounds
  <2>3. /\ decide(r).outcome = IF MayGround(r) THEN "GROUNDED" ELSE "REFUSED"
        /\ decide(r).reason_code = IF ClaimsFailure(r.claims) # None
                                   THEN ClaimsFailure(r.claims)
                                   ELSE RelevanceFailure(r.answers_question)
    BY <2>1, DecideIsExact
  <2>4. ~MayGround(r) => decide(r).reason_code \in JudgementCode
    <3>1. ClaimsFailure(r.claims) \in JudgementCode \cup {None}
      BY DEF ClaimsFailure, JudgementCode
    <3>2. /\ RelevanceFailure("false") = "does_not_address_question"
          /\ "does_not_address_question" \in JudgementCode
      BY DEF RelevanceFailure, JudgementCode, None
    <3>3. ClaimsFailure(r.claims) = None =>
            r.claims # <<>> /\ \A i \in DOMAIN r.claims : r.claims[i].verdict = "SUPPORTED"
      BY DEF ClaimsFailure, None
    <3>4. ~MayGround(r) /\ ClaimsFailure(r.claims) = None => r.answers_question = "false"
      BY <2>1, <3>3 DEF MayGround, Grounds
    <3> QED
      BY <2>3, <3>1, <3>2, <3>4
  <2> HIDE DEF grounded_
  <2>5. IF grounded_ THEN decide(r).outcome = "GROUNDED"
        ELSE decide(r).outcome = "REFUSED" /\ decide(r).reason_code \in JudgementCode
    BY <2>2, <2>3, <2>4
  <2> QED
    BY <2>5 DEF KeywordGroundsOnEvidence, grounded_, r
<1> QED
  BY <1>1, InputsAlwaysTyped, PTL

-------------------------------------------------------------------------------
(***************************************************************************)
(* The wrappers that inject faults.                                        *)
(***************************************************************************)
\* A response has a flag and a name for a wrapper to overwrite.
CanBeCut(r) == r = [f \in DOMAIN r |-> r[f]] /\ {"mechanism", "truncated"} \subseteq DOMAIN r

\* The outcome under the first n wrappers, in terms of the one under n - 1.
Layered(layer, script, wraps) ==
  layer = [n \in 0 .. Len(wraps) |->
             IF n = 0 THEN Returned([script EXCEPT !.mechanism = <<@>>])
             ELSE Inject(wraps[n], NameOf(script, SubSeq(wraps, 1, n)), layer[n - 1])]

\* The recursion has a solution: each wrapper adds one value to it.
LEMMA LayersExist ==
  ASSUME NEW script, NEW wraps, Len(wraps) \in Nat
  PROVE  \E layer : Layered(layer, script, wraps)
<1> DEFINE base == Returned([script EXCEPT !.mechanism = <<@>>])
           Over(n, inner) == Inject(wraps[n], NameOf(script, SubSeq(wraps, 1, n)), inner)
           UpTo(f, k) == f = [n \in 0 .. k |-> IF n = 0 THEN base ELSE Over(n, f[n - 1])]
           missing == {k \in Nat : ~\E f : UpTo(f, k)}
<1> HIDE DEF base, Over
<1>1. CASE missing # {}
  <2>1. PICK k \in missing : \A j \in missing : k <= j
    BY <1>1, FirstOfPositions
  <2>2. CASE k = 0
    <3>1. UpTo([n \in 0 .. 0 |-> base], 0)
      OBVIOUS
    <3> QED
      BY <2>1, <2>2, <3>1
  <2>3. CASE k # 0
    <3>1. k - 1 \in Nat /\ k - 1 \notin missing
      BY <2>1, <2>3
    <3>2. PICK f : UpTo(f, k - 1)
      BY <3>1
    <3> DEFINE g == [n \in 0 .. k |-> IF n = k THEN Over(k, f[k - 1]) ELSE f[n]]
    <3>3. \A n \in 0 .. k - 1 : g[n] = f[n] /\ n \in 0 .. k
      BY <3>1
    <3>4. \A n \in 0 .. k - 1 : f[n] = IF n = 0 THEN base ELSE Over(n, f[n - 1])
      BY <3>1, <3>2
    <3>5. \A n \in 0 .. k : g[n] = IF n = 0 THEN base ELSE Over(n, g[n - 1])
      <4> SUFFICES ASSUME NEW n \in 0 .. k
                   PROVE  g[n] = IF n = 0 THEN base ELSE Over(n, g[n - 1])
        OBVIOUS
      <4>1. CASE n = k
        <5>1. g[n] = Over(k, f[k - 1]) /\ g[k - 1] = f[k - 1]
          BY <3>1, <3>3, <4>1
        <5> QED
          BY <2>3, <4>1, <5>1
      <4>2. CASE n # k
        <5>1. n \in 0 .. k - 1 /\ (n # 0 => n - 1 \in 0 .. k - 1)
          BY <3>1, <4>2
        <5>2. g[n] = f[n] /\ (n # 0 => g[n - 1] = f[n - 1])
          BY <3>3, <5>1
        <5> QED
          BY <3>4, <5>1, <5>2
      <4> QED
        BY <4>1, <4>2
    <3>6. g = [n \in 0 .. k |-> IF n = 0 THEN base ELSE Over(n, g[n - 1])]
      <4>1. g = [n \in 0 .. k |-> g[n]]
        OBVIOUS
      <4> HIDE DEF g
      <4> QED
        BY <3>5, <4>1
    <3> HIDE DEF g
    <3>7. UpTo(g, k)
      BY <3>6
    <3> QED
      BY <2>1, <3>7
  <2> QED
    BY <2>2, <2>3
<1>2. CASE missing = {}
  BY <1>2 DEF Layered, base, Over
<1> QED
  BY <1>1, <1>2

\* What comes out of a stack of wrappers is the last value of such a recursion.
LEMMA InjectedIsLayered ==
  ASSUME NEW script, NEW wraps, Len(wraps) \in Nat
  PROVE  \E layer : /\ Layered(layer, script, wraps)
                    /\ InjectedVerify(script, wraps) = layer[Len(wraps)]
<1>1. \E layer : Layered(layer, script, wraps)
  BY LayersExist
<1>2. Layered(CHOOSE layer : Layered(layer, script, wraps), script, wraps)
  BY <1>1
<1>3. InjectedVerify(script, wraps)
        = (CHOOSE layer : Layered(layer, script, wraps))[Len(wraps)]
  BY DEF InjectedVerify, Layered
<1> QED
  BY <1>2, <1>3

\* The faults among the first n wrappers, those a cut-off cannot hide, and the
\* last of a set of them.
FaultsIn(wraps, n) == {m \in 1 .. n : wraps[m] # "normal"}
Louder(wraps, n) == {m \in FaultsIn(wraps, n) : wraps[m] # "truncated"}
LastIn(faults, k) == k \in faults /\ \A m \in faults : m <= k

\* What comes out of n wrappers, of which some inject: the script's response, an
\* exception, output that cannot be parsed, or output that was cut off.
Untouched(script, wraps, n, outcome) ==
  /\ FaultsIn(wraps, n) = {}
  /\ outcome = Returned([script EXCEPT !.mechanism = <<@>>])

Fails(wraps, n, outcome) ==
  \E k \in 1 .. n : /\ LastIn(Louder(wraps, n), k)
                    /\ wraps[k] \in Raising
                    /\ outcome = Raise(CodeOf(wraps[k]))

Garbles(wraps, n, outcome) ==
  \E k \in 1 .. n : /\ LastIn(FaultsIn(wraps, n), k)
                    /\ wraps[k] = "malformed"
                    /\ \E name : outcome = Returned(Malformed(name))

CutsOff(wraps, n, outcome) ==
  /\ \E k \in 1 .. n : LastIn(FaultsIn(wraps, n), k) /\ wraps[k] = "truncated"
  /\ \A k \in 1 .. n : LastIn(Louder(wraps, n), k) => wraps[k] \notin Raising
  /\ \E r : outcome = Returned(r) /\ CanBeCut(r) /\ r.truncated

ComesOut(script, wraps, n, outcome) ==
  \/ Untouched(script, wraps, n, outcome)
  \/ Fails(wraps, n, outcome)
  \/ Garbles(wraps, n, outcome)
  \/ CutsOff(wraps, n, outcome)

\* One more wrapper.
LEMMA WrapperAdds ==
  ASSUME NEW script \in Scripted, NEW wraps \in Seq(Behavior),
         NEW n \in 1 .. Len(wraps), NEW inner, ComesOut(script, wraps, n - 1, inner), NEW name,
         NEW out, out = Inject(wraps[n], name, inner)
  PROVE  ComesOut(script, wraps, n, out)
<1> DEFINE F == FaultsIn(wraps, n - 1)
           G == FaultsIn(wraps, n)
           Lo == Louder(wraps, n - 1)
           Lu == Louder(wraps, n)
<1>1. /\ n \in Nat /\ n - 1 \in Nat /\ 1 .. n = (1 .. n - 1) \cup {n}
      /\ wraps[n] \in Behavior
  OBVIOUS
<1>2. /\ G = IF wraps[n] = "normal" THEN F ELSE F \cup {n}
      /\ Lu = IF wraps[n] \in {"normal", "truncated"} THEN Lo ELSE Lo \cup {n}
      /\ F \subseteq 1 .. n - 1 /\ Lo \subseteq F
  BY <1>1 DEF FaultsIn, Louder
<1>3. \A k \in 1 .. n - 1 : k \in 1 .. n /\ k < n
  OBVIOUS
<1>4. \A S : S \subseteq 1 .. n - 1 => LastIn(S \cup {n}, n)
  BY <1>1, <1>3 DEF LastIn
<1>5. CASE wraps[n] = "normal"
  <2>1. out = inner /\ G = F /\ Lu = Lo
    BY <1>2, <1>5 DEF Inject
  <2>2. \A k \in 1 .. n : LastIn(Lo, k) => k \in 1 .. n - 1
    BY <1>2 DEF LastIn
  <2>3. Untouched(script, wraps, n - 1, inner) => Untouched(script, wraps, n, out)
    BY <2>1 DEF Untouched
  <2>4. Fails(wraps, n - 1, inner) => Fails(wraps, n, out)
    BY <1>3, <2>1 DEF Fails
  <2>5. Garbles(wraps, n - 1, inner) => Garbles(wraps, n, out)
    BY <1>3, <2>1 DEF Garbles
  <2>6. CutsOff(wraps, n - 1, inner) => CutsOff(wraps, n, out)
    BY <1>3, <2>1, <2>2 DEF CutsOff
  <2> QED
    BY <2>3, <2>4, <2>5, <2>6 DEF ComesOut
<1>6. CASE wraps[n] = "malformed"
  <2>1. out = Returned(Malformed(name))
    BY <1>6 DEF Inject
  <2>2. LastIn(G, n)
    BY <1>2, <1>4, <1>6
  <2>3. Garbles(wraps, n, out)
    BY <1>1, <1>6, <2>1, <2>2 DEF Garbles
  <2> QED
    BY <2>3 DEF ComesOut
<1>7. CASE wraps[n] \in Raising
  <2>1. out = Raise(CodeOf(wraps[n]))
    BY <1>7 DEF Inject, Raising
  <2>2. LastIn(Lu, n)
    BY <1>2, <1>4, <1>7 DEF Raising
  <2>3. Fails(wraps, n, out)
    BY <1>1, <1>7, <2>1, <2>2 DEF Fails
  <2> QED
    BY <2>3 DEF ComesOut
<1>8. CASE wraps[n] = "truncated"
  <2>1. LastIn(G, n) /\ Lu = Lo
    BY <1>2, <1>4, <1>8
  <2>2. \A k \in 1 .. n : LastIn(Lo, k) => k \in 1 .. n - 1 /\ k \in F
    BY <1>2 DEF LastIn
  <2>3. ASSUME Fails(wraps, n - 1, inner)
        PROVE  ComesOut(script, wraps, n, out)
    <3>1. PICK k \in 1 .. n - 1 : /\ LastIn(Lo, k) /\ wraps[k] \in Raising
                                  /\ inner = Raise(CodeOf(wraps[k]))
      BY <2>3 DEF Fails
    <3>2. inner.raised # None
      BY <3>1 DEF Raise, CodeOf, Raising, None
    <3>3. out = inner
      BY <1>8, <3>2 DEF Inject
    <3>4. Fails(wraps, n, out)
      BY <1>3, <2>1, <3>1, <3>3 DEF Fails
    <3> QED
      BY <3>4 DEF ComesOut
  <2>4. ASSUME NEW r, inner = Returned(r), CanBeCut(r),
               \A k \in 1 .. n : LastIn(Lo, k) => wraps[k] \notin Raising
        PROVE  ComesOut(script, wraps, n, out)
    <3> DEFINE cut == [r EXCEPT !.truncated = TRUE, !.mechanism = name]
    <3>1. out = Returned(cut)
      BY <1>8, <2>4 DEF Inject, Returned
    <3>2. CanBeCut(cut) /\ cut.truncated
      BY <2>4 DEF CanBeCut
    <3> HIDE DEF cut
    <3>3. CutsOff(wraps, n, out)
      BY <1>1, <1>8, <2>1, <2>4, <3>1, <3>2 DEF CutsOff
    <3> QED
      BY <3>3 DEF ComesOut
  <2>5. ASSUME Untouched(script, wraps, n - 1, inner)
        PROVE  ComesOut(script, wraps, n, out)
    <3>1. \A m : CanBeCut([script EXCEPT !.mechanism = m])
      BY DEF CanBeCut, Scripted
    <3>2. Lo = {}
      BY <1>2, <2>5 DEF Untouched
    <3> QED
      BY <2>4, <2>5, <3>1, <3>2 DEF LastIn, Untouched
  <2>6. ASSUME Garbles(wraps, n - 1, inner)
        PROVE  ComesOut(script, wraps, n, out)
    <3>1. PICK k \in 1 .. n - 1 : /\ LastIn(F, k) /\ wraps[k] = "malformed"
                                  /\ \E m : inner = Returned(Malformed(m))
      BY <2>6 DEF Garbles
    <3>2. \A m : CanBeCut(Malformed(m))
      BY DEF Malformed, CanBeCut
    <3>3. k \in Lo
      BY <3>1 DEF LastIn, Louder
    <3>4. \A j \in 1 .. n : LastIn(Lo, j) => j = k
      BY <1>2, <2>2, <3>1, <3>3 DEF LastIn
    <3>5. \A j \in 1 .. n : LastIn(Lo, j) => wraps[j] \notin Raising
      BY <3>1, <3>4 DEF Raising
    <3> QED
      BY <2>4, <3>1, <3>2, <3>5
  <2>7. ASSUME CutsOff(wraps, n - 1, inner)
        PROVE  ComesOut(script, wraps, n, out)
    <3>1. \A k \in 1 .. n : LastIn(Lo, k) => wraps[k] \notin Raising
      BY <2>2, <2>7 DEF CutsOff
    <3> QED
      BY <2>4, <2>7, <3>1 DEF CutsOff
  <2> QED
    BY <2>3, <2>5, <2>6, <2>7 DEF ComesOut
<1> QED
  BY <1>1, <1>5, <1>6, <1>7, <1>8 DEF Behavior

\* All of them.
LEMMA WrappersCompose ==
  ASSUME NEW script \in Scripted, NEW wraps \in Seq(Behavior),
         NEW layer, Layered(layer, script, wraps)
  PROVE  \A n \in 0 .. Len(wraps) : ComesOut(script, wraps, n, layer[n])
<1> DEFINE bad == {n \in 0 .. Len(wraps) : ~ComesOut(script, wraps, n, layer[n])}
<1>0. Len(wraps) \in Nat
  OBVIOUS
<1>1. \A n \in 0 .. Len(wraps) :
        layer[n] = IF n = 0 THEN Returned([script EXCEPT !.mechanism = <<@>>])
                   ELSE Inject(wraps[n], NameOf(script, SubSeq(wraps, 1, n)), layer[n - 1])
  BY DEF Layered
<1>3. bad \subseteq Nat
  BY <1>0
<1> HIDE DEF bad
<1>2. CASE bad # {}
  <2>1. PICK n \in bad : \A m \in bad : n <= m
    BY <1>0, <1>2, <1>3, FirstOfPositions
  <2>0. n \in 0 .. Len(wraps) /\ ~ComesOut(script, wraps, n, layer[n])
    BY <2>1 DEF bad
  <2>2. CASE n = 0
    <3>1. FaultsIn(wraps, 0) = {}
      BY DEF FaultsIn
    <3>2. 0 \in 0 .. Len(wraps)
      BY <1>0
    <3>3. Untouched(script, wraps, 0, layer[0])
      BY <1>1, <3>1, <3>2 DEF Untouched
    <3> QED
      BY <2>0, <2>2, <3>3 DEF ComesOut
  <2>3. CASE n # 0
    <3>1. n \in 1 .. Len(wraps) /\ n - 1 \in 0 .. Len(wraps) /\ n - 1 \notin bad
      BY <1>0, <2>0, <2>1, <2>3
    <3>2. ComesOut(script, wraps, n - 1, layer[n - 1])
      BY <3>1 DEF bad
    <3>3. layer[n] = Inject(wraps[n], NameOf(script, SubSeq(wraps, 1, n)), layer[n - 1])
      BY <1>1, <2>0, <2>3
    <3>4. ComesOut(script, wraps, n, layer[n])
      BY <3>1, <3>2, <3>3, WrapperAdds
    <3> QED
      BY <2>0, <3>4
  <2> QED
    BY <2>2, <2>3
<1> QED
  BY <1>2 DEF bad

\* The name under which a response is given is passed on, and decides nothing.
LEMMA RenamedIsDecidedAlike ==
  ASSUME NEW script \in Scripted
  PROVE  decide([script EXCEPT !.mechanism = <<@>>])
           = [decide(script) EXCEPT !.mechanism = <<@>>]
<1> DEFINE plain == [script EXCEPT !.mechanism = <<@>>]
           m == <<script.mechanism>>
<1>1. /\ plain.mechanism = m /\ plain.claims = script.claims
      /\ plain.truncated = script.truncated
      /\ plain.answers_question = script.answers_question
  BY DEF Scripted
<1> HIDE DEF plain
<1>2. \A reason, claims, counts :
        Refuse(reason, m, claims, counts)
          = [Refuse(reason, script.mechanism, claims, counts) EXCEPT !.mechanism = <<@>>]
  BY DEF Refuse
<1>3. \A strategy, claims :
        Ground(strategy, m, claims)
          = [Ground(strategy, script.mechanism, claims) EXCEPT !.mechanism = <<@>>]
  BY DEF Ground
<1> HIDE DEF m
<1>4. decide(plain) = [decide(script) EXCEPT !.mechanism = <<@>>]
  BY <1>1, <1>2, <1>3 DEF decide
<1> QED
  BY <1>4 DEF plain

\* What a malformed response is decided to be.
LEMMA MalformedIsRefused ==
  ASSUME NEW m
  PROVE  /\ decide(Malformed(m)).outcome = "REFUSED"
         /\ decide(Malformed(m)).reason_code = "unknown_claim_verdict"
<1> DEFINE r == Malformed(m)
           raw == [verdict |-> "other", text |-> "words", evidence_ref |-> None,
                   limits |-> FALSE]
<1>1. /\ r.claims = <<raw>> /\ r.truncated = FALSE /\ r.answers_question = "true"
      /\ raw \in RawClaim
  BY DEF Malformed, RawClaim, None, ClaimVerdict
<1>2. ClaimDefect(raw) = "unknown_claim_verdict"
  BY DEF ClaimDefect, ClaimVerdict
<1> HIDE DEF r, raw
<1>3. IsResponse(r)
  <2>1. <<raw>> \in Seq(RawClaim)
    BY <1>1
  <2> QED
    BY <1>1, <2>1 DEF IsResponse
<1>4. Defective(r.claims) = {1} /\ r.claims[1] = raw
  BY <1>1, <1>2 DEF Defective, None
<1>5. ParseFailure(r.claims) = "unknown_claim_verdict"
  <2>1. (CHOOSE i \in {1} : \A j \in {1} : i <= j) = 1
    OBVIOUS
  <2> QED
    BY <1>2, <1>4, <2>1 DEF ParseFailure
<1>6. ~MayGround(r)
  BY <1>1, <1>4 DEF MayGround, Grounds
<1> QED
  BY <1>1, <1>3, <1>4, <1>5, <1>6, DecideIsExact DEF r

\* A verifier that says it is unhealthy has a wrapper outermost that raises.
LEMMA UnhealthyRaises ==
  ASSUME NEW script \in Scripted, NEW wraps \in Seq(Behavior), ~healthy(wraps)
  PROVE  InjectedVerify(script, wraps).raised # None
<1>1. /\ Len(wraps) \in Nat /\ Len(wraps) # 0 /\ wraps # <<>>
      /\ wraps[Len(wraps)] \in Raising
  BY DEF healthy, Last
<1>2. PICK layer : /\ Layered(layer, script, wraps)
                   /\ InjectedVerify(script, wraps) = layer[Len(wraps)]
  BY <1>1, InjectedIsLayered
<1> DEFINE N == Len(wraps)
<1>3. layer[N] = Inject(wraps[N], NameOf(script, SubSeq(wraps, 1, N)), layer[N - 1])
  <2>1. N \in 0 .. N
    BY <1>1
  <2> HIDE DEF N
  <2> QED
    BY <1>1, <1>2, <2>1 DEF Layered, N
<1>4. layer[N] = Raise(CodeOf(wraps[N]))
  BY <1>1, <1>3 DEF Inject, Raising
<1>5. CodeOf(wraps[N]) # None
  BY <1>1 DEF CodeOf, Raising, None
<1> QED
  BY <1>2, <1>4, <1>5 DEF Raise

\* What comes out of a stack of wrappers is one of the four.
LEMMA InjectedComesOut ==
  ASSUME NEW script \in Scripted, NEW wraps \in Seq(Behavior)
  PROVE  ComesOut(script, wraps, Len(wraps), InjectedVerify(script, wraps))
<1>1. Len(wraps) \in Nat
  OBVIOUS
<1>2. PICK layer : /\ Layered(layer, script, wraps)
                   /\ InjectedVerify(script, wraps) = layer[Len(wraps)]
  BY <1>1, InjectedIsLayered
<1>3. \A n \in 0 .. Len(wraps) : ComesOut(script, wraps, n, layer[n])
  BY <1>2, WrappersCompose
<1> QED
  BY <1>1, <1>2, <1>3

\* Some positions have a last one, if there are any.
LEMMA LastExists ==
  ASSUME NEW n \in Nat, NEW faults, faults \subseteq 1 .. n, faults # {}
  PROVE  \E k \in faults : LastIn(faults, k)
<1> DEFINE above == {m \in Nat : \A k \in faults : k <= m}
<1>1. above \subseteq Nat /\ n \in above
  OBVIOUS
<1>2. \A m \in Nat : m \in above <=> \A k \in faults : k <= m
  OBVIOUS
<1> HIDE DEF above
<1>3. PICK m \in above : \A j \in above : m <= j
  BY <1>1, FirstOfPositions
<1>4. m \in Nat /\ \A k \in faults : k <= m
  BY <1>1, <1>2, <1>3
<1>5. CASE m \in faults
  BY <1>4, <1>5 DEF LastIn
<1>6. CASE m \notin faults
  <2>1. ASSUME NEW k \in faults PROVE k \in Nat /\ k >= 1 /\ k <= m - 1
    <3>1. k \in 1 .. n /\ k # m
      BY <1>6
    <3>2. k <= m
      BY <1>4
    <3> QED
      BY <1>4, <3>1, <3>2
  <2>2. m - 1 \in Nat
    <3>1. PICK k \in faults : TRUE
      OBVIOUS
    <3>2. k \in Nat /\ k >= 1 /\ k <= m - 1
      BY <2>1
    <3> QED
      BY <1>4, <3>2
  <2>3. m - 1 \in above
    BY <1>2, <2>1, <2>2
  <2> QED
    BY <1>3, <1>4, <2>3
<1> QED
  BY <1>5, <1>6

\* The last of some positions names the outermost of their wrappers.
LEMMA OutermostIsLast ==
  ASSUME NEW n \in Nat, NEW faults, faults \subseteq 1 .. n, NEW k, LastIn(faults, k)
  PROVE  Outermost(faults) = stack[k]
<1> DEFINE j == CHOOSE j \in faults : \A m \in faults : m <= j
<1>1. j \in faults /\ \A m \in faults : m <= j
  BY DEF LastIn
<1>2. k \in faults /\ \A m \in faults : m <= k
  BY DEF LastIn
<1>3. Outermost(faults) = stack[j]
  BY DEF Outermost
<1> HIDE DEF j
<1>4. j \in Nat /\ k \in Nat
  BY <1>1, <1>2
<1> QED
  BY <1>1, <1>2, <1>3, <1>4

\* However wrappers are stacked, an injected fault refuses the request with the
\* code of the outermost fault, but for an exception, which no cut-off hides;
\* without one a wrapper changes nothing.
THEOREM InjectedRefuses == Spec => []InjectedFaultsRefuse
<1>1. InputsTyped => InjectedFaultsRefuse
  <2> SUFFICES ASSUME InputsTyped PROVE InjectedFaultsRefuse
    OBVIOUS
  <2> DEFINE N == Len(stack)
             outcome == InjectedVerify(response, stack)
             name == NameOf(response, stack)
             judged == Judge(outcome, name)
             F == FaultsIn(stack, N)
             Lo == Louder(stack, N)
             coded == CASE Lo # {} /\ Outermost(Lo) \in Raising -> CodeOf(Outermost(Lo))
                        [] Outermost(F) = "malformed" -> "unknown_claim_verdict"
                        [] Outermost(F) = "truncated"
                             /\ (Lo = {} \/ Outermost(Lo) \notin Raising)
                             -> "verifier_output_truncated"
             Conclusion == IF F = {} THEN judged = [decide(response) EXCEPT !.mechanism = <<@>>]
                           ELSE judged.outcome = "REFUSED" /\ judged.reason_code = coded
  <2>1. /\ stack \in Seq(Behavior) /\ response \in Scripted /\ IsResponse(response)
        /\ N \in Nat /\ DOMAIN stack = 1 .. N
    BY DEF InputsTyped
  <2>2. Faulty = F /\ {n \in Faulty : stack[n] # "truncated"} = Lo
    BY <2>1 DEF Faulty, FaultsIn, Louder
  <2>3. F \subseteq 1 .. N /\ Lo \subseteq F /\ Lo \subseteq 1 .. N
    BY DEF FaultsIn, Louder
  <2>4. ComesOut(response, stack, N, outcome)
    BY <2>1, InjectedComesOut
  <2> HIDE DEF N, outcome
  <2>5. /\ \A k : LastIn(F, k) => Outermost(F) = stack[k]
        /\ \A k : LastIn(Lo, k) => Outermost(Lo) = stack[k]
    BY <2>1, <2>3, OutermostIsLast
  <2>6. /\ F # {} => \E k \in F : LastIn(F, k)
        /\ Lo # {} => \E k \in Lo : LastIn(Lo, k)
    BY <2>1, <2>3, LastExists
  <2>7. ASSUME Untouched(response, stack, N, outcome)
        PROVE  Conclusion
    <3> DEFINE plain == [response EXCEPT !.mechanism = <<@>>]
    <3>1. F = {} /\ outcome = Returned(plain)
      BY <2>7 DEF Untouched
    <3>2. judged = decide(plain)
      BY <3>1 DEF Judge, Returned
    <3>3. decide(plain) = [decide(response) EXCEPT !.mechanism = <<@>>]
      BY <2>1, RenamedIsDecidedAlike
    <3> HIDE DEF plain
    <3>4. judged = [decide(response) EXCEPT !.mechanism = <<@>>]
      BY <3>2, <3>3
    <3> QED
      BY <3>1, <3>4
  <2>8. ASSUME Fails(stack, N, outcome)
        PROVE  Conclusion
    <3>1. PICK k \in 1 .. N : LastIn(Lo, k) /\ stack[k] \in Raising
                              /\ outcome = Raise(CodeOf(stack[k]))
      BY <2>8 DEF Fails
    <3>2. Outermost(Lo) = stack[k] /\ Lo # {}
      BY <2>5, <3>1 DEF LastIn
    <3>3. CodeOf(stack[k]) # None
      BY <3>1 DEF CodeOf, Raising, None
    <3>4. judged.outcome = "REFUSED" /\ judged.reason_code = CodeOf(stack[k])
      BY <3>1, <3>3 DEF Judge, Raise, Refuse
    <3>5. Outermost(F) # "malformed"
      <4>1. PICK j \in F : LastIn(F, j)
        BY <2>3, <2>6, <3>2
      <4>2. Outermost(F) = stack[j]
        BY <2>5, <4>1
      <4>3. stack[j] = "malformed" => j \in Lo
        BY DEF Louder
      <4>4. j \in Lo => j = k
        BY <2>1, <2>3, <3>1, <4>1 DEF LastIn
      <4> QED
        BY <3>1, <4>2, <4>3, <4>4 DEF Raising
    <3>6. coded = CodeOf(stack[k])
      BY <3>1, <3>2, <3>5
    <3> QED
      BY <2>3, <3>2, <3>4, <3>6
  <2>9. ASSUME Garbles(stack, N, outcome)
        PROVE  Conclusion
    <3>1. PICK k \in 1 .. N : /\ LastIn(F, k) /\ stack[k] = "malformed"
                              /\ \E m : outcome = Returned(Malformed(m))
      BY <2>9 DEF Garbles
    <3>2. PICK m : outcome = Returned(Malformed(m))
      BY <3>1
    <3>3. judged = decide(Malformed(m))
      BY <3>2 DEF Judge, Returned
    <3>4. decide(Malformed(m)).outcome = "REFUSED"
          /\ decide(Malformed(m)).reason_code = "unknown_claim_verdict"
      BY MalformedIsRefused
    <3>5. LastIn(Lo, k)
      BY <2>3, <3>1 DEF LastIn, Louder
    <3>6. Outermost(F) = "malformed" /\ Outermost(Lo) = "malformed" /\ F # {}
      BY <2>5, <3>1, <3>5 DEF LastIn
    <3>7. coded = "unknown_claim_verdict"
      BY <3>6 DEF Raising
    <3> QED
      BY <3>3, <3>4, <3>6, <3>7
  <2>10. ASSUME CutsOff(stack, N, outcome)
         PROVE  Conclusion
    <3>1. PICK k \in 1 .. N : LastIn(F, k) /\ stack[k] = "truncated"
      BY <2>10 DEF CutsOff
    <3>2. PICK r : outcome = Returned(r) /\ r.truncated
      BY <2>10 DEF CutsOff
    <3>3. judged.outcome = "REFUSED" /\ judged.reason_code = "verifier_output_truncated"
      BY <3>2 DEF Judge, Returned, decide, Refuse
    <3>4. Outermost(F) = "truncated" /\ F # {}
      BY <2>5, <3>1 DEF LastIn
    <3>5. Lo = {} \/ Outermost(Lo) \notin Raising
      <4>1. \A j \in 1 .. N : LastIn(Lo, j) => stack[j] \notin Raising
        BY <2>10 DEF CutsOff
      <4> QED
        BY <2>3, <2>5, <2>6, <4>1
    <3>6. coded = "verifier_output_truncated"
      BY <3>4, <3>5
    <3> QED
      BY <3>3, <3>4, <3>6
  <2>11. Conclusion
    BY <2>4, <2>7, <2>8, <2>9, <2>10 DEF ComesOut
  <2>12. ~healthy(stack) => outcome.raised # None
    BY <2>1, UnhealthyRaises DEF outcome
  <2> QED
    BY <2>2, <2>11, <2>12 DEF InjectedFaultsRefuse, outcome
<1> QED
  BY <1>1, InputsAlwaysTyped, PTL

-------------------------------------------------------------------------------
(***************************************************************************)
(* The metrics: the latency that takes a place of the sorted window, and   *)
(* the figures as what the rows of the window determine.                   *)
(***************************************************************************)
\* The rows of a window that come before, or not after, a latency.
Lower(rows, window, ms) == {i \in window : rows[i].latency_ms < ms}
NotHigher(rows, window, ms) == {i \in window : rows[i].latency_ms <= ms}

\* ms takes place k when the window is sorted.
Places(rows, window, k, ms) ==
  /\ ms \in {rows[i].latency_ms : i \in window}
  /\ Cardinality(Lower(rows, window, ms)) < k
  /\ k <= Cardinality(NotHigher(rows, window, ms))

Timed(rows, n) == n \in Nat /\ \A i \in 1 .. n : rows[i].latency_ms \in Nat

\* A window and what is below or up to a latency in it can be counted.
LEMMA WindowCounts ==
  ASSUME NEW n \in Nat, NEW window, window \subseteq 1 .. n, NEW rows
  PROVE  /\ IsFiniteSet(window) /\ Cardinality(window) \in Nat
         /\ \A ms : /\ Cardinality(Lower(rows, window, ms)) \in Nat
                    /\ Cardinality(NotHigher(rows, window, ms)) \in Nat
                    /\ IsFiniteSet(NotHigher(rows, window, ms))
                    /\ IsFiniteSet(Lower(rows, window, ms))
                    /\ Cardinality(NotHigher(rows, window, ms)) <= Cardinality(window)
<1>1. IsFiniteSet(window) /\ Cardinality(window) \in Nat
  BY PositionsAreCounted
<1>2. \A ms : /\ Lower(rows, window, ms) \in SUBSET window
              /\ NotHigher(rows, window, ms) \in SUBSET window
  BY DEF Lower, NotHigher
<1> QED
  BY <1>1, <1>2, FS_Subset, FS_CardinalityType

\* Some latency bounds them all.
LEMMA LatenciesAreBounded ==
  ASSUME NEW n, NEW rows, Timed(rows, n)
  PROVE  \E b \in Nat : \A i \in 1 .. n : rows[i].latency_ms <= b
<1> DEFINE Bounds(m, b) == \A i \in 1 .. m : rows[i].latency_ms <= b
           bad == {m \in 0 .. n : ~\E b \in Nat : Bounds(m, b)}
<1>0. n \in Nat /\ \A i \in 1 .. n : rows[i].latency_ms \in Nat
  BY DEF Timed
<1>1. bad \subseteq Nat
  BY <1>0
<1>2. CASE bad # {}
  <2>1. PICK m \in bad : \A j \in bad : m <= j
    BY <1>1, <1>2, FirstOfPositions
  <2>2. m \in 0 .. n /\ ~\E b \in Nat : Bounds(m, b)
    BY <2>1
  <2>3. m # 0
    BY <2>2
  <2>4. m - 1 \in 0 .. n /\ m - 1 \notin bad /\ m \in 1 .. n
    <3>1. m \in Nat /\ m >= 1 /\ m <= n
      BY <1>0, <2>2, <2>3
    <3> HIDE DEF bad
    <3>2. m - 1 \notin bad
      BY <2>1, <3>1, <1>1
    <3> QED
      BY <1>0, <3>1, <3>2
  <2>5. PICK b \in Nat : Bounds(m - 1, b)
    BY <2>4
  <2> DEFINE t == rows[m].latency_ms
             c == IF b < t THEN t ELSE b
  <2>6. t \in Nat
    BY <1>0, <2>4
  <2>7. c \in Nat /\ b <= c /\ t <= c
    BY <2>6
  <2>8. ASSUME NEW i \in 1 .. m PROVE rows[i].latency_ms <= c
    <3>0. m \in Nat /\ m <= n
      BY <1>0, <2>2
    <3>1. i = m \/ i \in 1 .. m - 1
      BY <3>0
    <3>2. i \in 1 .. n
      BY <1>0, <3>0
    <3>3. rows[i].latency_ms \in Nat
      BY <1>0, <3>2
    <3>4. i \in 1 .. m - 1 => rows[i].latency_ms <= b
      BY <2>5
    <3> HIDE DEF c
    <3>5. i \in 1 .. m - 1 => rows[i].latency_ms <= c
      BY <2>7, <3>3, <3>4
    <3> QED
      BY <2>7, <3>1, <3>5
  <2> HIDE DEF c
  <2> QED
    BY <2>2, <2>7, <2>8
<1>3. CASE bad = {}
  <2>1. n \in 0 .. n
    BY <1>0
  <2> QED
    BY <1>3, <2>1
<1> QED
  BY <1>2, <1>3

\* Each place of a window is taken by a latency,
LEMMA PlacesAreTaken ==
  ASSUME NEW n, NEW rows, Timed(rows, n), NEW window, window \subseteq 1 .. n,
         NEW k \in Nat \ {0}, k <= Cardinality(window)
  PROVE  \E ms : Places(rows, window, k, ms)
<1> DEFINE enough == {m \in Nat : k <= Cardinality(NotHigher(rows, window, m))}
<1>0. n \in Nat /\ \A i \in window : rows[i].latency_ms \in Nat
  BY DEF Timed
<1>1. enough # {}
  <2>1. PICK b \in Nat : \A i \in 1 .. n : rows[i].latency_ms <= b
    BY LatenciesAreBounded
  <2>2. NotHigher(rows, window, b) = window
    BY <2>1 DEF NotHigher
  <2>3. b \in enough
    BY <2>2
  <2> QED
    BY <2>3
<1>2. PICK m \in enough : \A j \in enough : m <= j
  BY <1>1, FirstOfPositions
<1>3. Cardinality(Lower(rows, window, m)) < k
  <2>1. CASE m = 0
    <3>1. Lower(rows, window, m) = {}
      <4>1. \A t \in Nat : ~(t < m)
        BY <2>1
      <4> QED
        BY <1>0, <4>1 DEF Lower
    <3> QED
      BY <3>1, FS_EmptySet
  <2>2. CASE m # 0
    <3>1. m - 1 \in Nat /\ m - 1 \notin enough
      BY <1>2, <2>2
    <3>0. \A t \in Nat : t < m <=> t <= m - 1
      BY <3>1, <1>2
    <3>2. Lower(rows, window, m) = NotHigher(rows, window, m - 1)
      BY <1>0, <3>0 DEF Lower, NotHigher
    <3>3. Cardinality(NotHigher(rows, window, m - 1)) \in Nat
      BY <1>0, WindowCounts
    <3> QED
      BY <3>1, <3>2, <3>3
  <2> QED
    BY <2>1, <2>2
<1>4. \E i \in window : rows[i].latency_ms = m
  <2>1. Lower(rows, window, m) # NotHigher(rows, window, m)
    <3>1. /\ Cardinality(Lower(rows, window, m)) \in Nat
          /\ Cardinality(NotHigher(rows, window, m)) \in Nat
      BY <1>0, WindowCounts
    <3>2. k <= Cardinality(NotHigher(rows, window, m))
      BY <1>2
    <3> QED
      BY <1>3, <3>1, <3>2
  <2>2. m \in Nat /\ \A t \in Nat : t <= m => t < m \/ t = m
    BY <1>2
  <2>3. \A t \in Nat : t < m => t <= m
    BY <2>2
  <2> QED
    BY <1>0, <2>1, <2>2, <2>3 DEF Lower, NotHigher
<1> QED
  BY <1>2, <1>3, <1>4 DEF Places

\* a later place by no lesser one.
LEMMA PlacesAreOrdered ==
  ASSUME NEW n, NEW rows, Timed(rows, n), NEW window, window \subseteq 1 .. n,
         NEW k \in Nat, NEW l \in Nat, k <= l,
         NEW x, NEW y, Places(rows, window, k, x), Places(rows, window, l, y)
  PROVE  x \in Nat /\ y \in Nat /\ x <= y
<1>0. n \in Nat /\ \A i \in window : rows[i].latency_ms \in Nat
  BY DEF Timed
<1>1. x \in Nat /\ y \in Nat
  BY <1>0 DEF Places
<1>2. ASSUME y < x PROVE FALSE
  <2>0. \A t \in Nat : t <= y => t < x
    BY <1>1, <1>2
  <2>1. NotHigher(rows, window, y) \in SUBSET Lower(rows, window, x)
    BY <1>0, <2>0 DEF NotHigher, Lower
  <2>2. /\ Cardinality(Lower(rows, window, x)) \in Nat
        /\ Cardinality(NotHigher(rows, window, y)) \in Nat
        /\ IsFiniteSet(Lower(rows, window, x))
    BY <1>0, WindowCounts
  <2>3. Cardinality(NotHigher(rows, window, y)) <= Cardinality(Lower(rows, window, x))
    BY <2>1, <2>2, FS_Subset
  <2>4. l <= Cardinality(NotHigher(rows, window, y)) /\ Cardinality(Lower(rows, window, x)) < k
    BY DEF Places
  <2> QED
    BY <2>2, <2>3, <2>4
<1> QED
  BY <1>1, <1>2
\* What division gives.
LEMMA Division ==
  ASSUME NEW n \in Nat, NEW d \in Nat \ {0}
  PROVE  /\ n \div d \in Nat /\ n % d \in Nat /\ n % d < d
         /\ n = d * (n \div d) + (n % d)
  OBVIOUS

\* A positive factor keeps an order, and can be cancelled.
LEMMA ProductsCompare ==
  ASSUME NEW x \in Int, NEW y \in Int, NEW z \in Nat \ {0}
  PROVE  (x <= y <=> z * x <= z * y) /\ (x < y <=> z * x < z * y)
  OBVIOUS

\* Rounding goes to an integer that is at most half away.
LEMMA RoundsToNearest ==
  ASSUME NEW n \in Nat, NEW d \in Nat \ {0}
  PROVE  /\ RoundHalfEven(n, d) \in Nat
         /\ 2 * n <= 2 * (d * RoundHalfEven(n, d)) + d
         /\ 2 * (d * RoundHalfEven(n, d)) <= 2 * n + d
<1> DEFINE q == n \div d
           r == n % d
           up == ~(2 * r < d \/ (2 * r = d /\ q % 2 = 0))
<1>1. q \in Nat /\ r \in Nat /\ r < d /\ n = d * q + r
  BY Division
<1>2. RoundHalfEven(n, d) = IF up THEN q + 1 ELSE q
  BY DEF RoundHalfEven
<1>3. up => 2 * r >= d
  BY <1>1
<1>4. ~up => 2 * r <= d
  BY <1>1
<1> HIDE DEF q, r, up
<1>5. CASE up
  <2>1. d * (q + 1) = d * q + d /\ d * q \in Nat
    BY <1>1
  <2> QED
    BY <1>1, <1>2, <1>3, <1>5, <2>1
<1>6. CASE ~up
  <2>1. d * q \in Nat
    BY <1>1
  <2> QED
    BY <1>1, <1>2, <1>4, <1>6, <2>1
<1> QED
  BY <1>5, <1>6

\* The greater ratio is not rounded to less.
LEMMA RoundingIsMonotone ==
  ASSUME NEW a \in Nat, NEW b \in Nat \ {0}, NEW c \in Nat, NEW d \in Nat \ {0},
         a * d <= c * b
  PROVE  RoundHalfEven(a, b) <= RoundHalfEven(c, d)
<1> DEFINE q == a \div b
           r == a % b
           p == c \div d
           s == c % d
           up == ~(2 * r < b \/ (2 * r = b /\ q % 2 = 0))
           vp == ~(2 * s < d \/ (2 * s = d /\ p % 2 = 0))
<1>1. /\ q \in Nat /\ r \in Nat /\ r < b /\ a = b * q + r
      /\ p \in Nat /\ s \in Nat /\ s < d /\ c = d * p + s
  BY Division
<1>2. /\ RoundHalfEven(a, b) = IF up THEN q + 1 ELSE q
      /\ RoundHalfEven(c, d) = IF vp THEN p + 1 ELSE p
  BY DEF RoundHalfEven
<1> HIDE DEF q, r, p, s
<1>3. /\ a * d = (b * d) * q + r * d
      /\ c * b = (b * d) * p + s * b
  BY <1>1
<1>4. b * d \in Nat \ {0}
  OBVIOUS
<1>5. r * d < b * d /\ s * b < b * d
  BY <1>1
<1>6. (b * d) * q < (b * d) * (p + 1)
  <2>1. (b * d) * (p + 1) = (b * d) * p + b * d
    BY <1>1
  <2>2. r * d \in Nat /\ s * b \in Nat /\ (b * d) * q \in Nat /\ (b * d) * p \in Nat
    BY <1>1
  <2> QED
    BY <1>3, <1>4, <1>5, <2>1, <2>2
<1>7. q < p + 1
  BY <1>1, <1>4, <1>6, ProductsCompare
<1>8. CASE q < p
  BY <1>1, <1>2, <1>8
<1>9. CASE q = p
  <2>1. d * r <= b * s
    BY <1>1, <1>3, <1>4, <1>9
  <2>2. ASSUME up PROVE vp
    <3>1. 2 * r >= b
      BY <1>1, <2>2
    <3>2. d * b <= d * (2 * r)
      BY <1>1, <3>1
    <3>3. b * d <= b * (2 * s)
      BY <1>1, <2>1, <3>2
    <3>4. d <= 2 * s
      BY <1>1, <3>3
    <3>5. ASSUME 2 * s = d PROVE 2 * r = b
      <4>1. d * (2 * r) <= d * b
        BY <1>1, <2>1, <3>5
      <4>2. 2 * r <= b
        BY <1>1, <4>1
      <4> QED
        BY <1>1, <3>1, <4>2
    <3> QED
      BY <1>1, <1>9, <2>2, <3>4, <3>5
  <2> QED
    BY <1>1, <1>2, <1>9, <2>2
<1> QED
  BY <1>1, <1>7, <1>8, <1>9

RankedIn(rows, window, k) ==
  CHOOSE ms \in {rows[i].latency_ms : i \in window} :
    /\ Cardinality({i \in window : rows[i].latency_ms < ms}) < k
    /\ k <= Cardinality({i \in window : rows[i].latency_ms <= ms})

\* The latency chosen for a place takes it.
LEMMA RankedTakesItsPlace ==
  ASSUME NEW n, NEW rows, Timed(rows, n), NEW window, window \subseteq 1 .. n,
         NEW k \in Nat \ {0}, k <= Cardinality(window)
  PROVE  Places(rows, window, k, RankedIn(rows, window, k))
<1> DEFINE latencies == {rows[i].latency_ms : i \in window}
           Ok(ms) == /\ Cardinality({i \in window : rows[i].latency_ms < ms}) < k
                     /\ k <= Cardinality({i \in window : rows[i].latency_ms <= ms})
<1>1. \A ms : Places(rows, window, k, ms) <=> ms \in latencies /\ Ok(ms)
  BY DEF Places, Lower, NotHigher
<1>2. RankedIn(rows, window, k) = CHOOSE ms \in latencies : Ok(ms)
  BY DEF RankedIn
<1>3. \E ms : Places(rows, window, k, ms)
  BY PlacesAreTaken
<1> HIDE DEF latencies, Ok
<1>4. \E ms \in latencies : Ok(ms)
  BY <1>1, <1>3
<1>5. (CHOOSE ms \in latencies : Ok(ms)) \in latencies /\ Ok(CHOOSE ms \in latencies : Ok(ms))
  BY <1>4
<1> QED
  BY <1>1, <1>2, <1>5

\* The rank of a percentile is a place of the window.
LEMMA RankIsPlace ==
  ASSUME NEW n \in Nat \ {0}, NEW p \in 0 .. 100
  PROVE  Rank(n, p) \in Nat \ {0} /\ Rank(n, p) <= n
<1> DEFINE r == RoundHalfEven(p * n, 100)
<1>1. p \in Nat /\ p <= 100
  OBVIOUS
<1>2. p * n \in Nat /\ p * n <= 100 * n
  BY <1>1
<1>3. r \in Nat /\ 2 * (100 * r) <= 2 * (p * n) + 100
  BY <1>2, RoundsToNearest
<1>4. Rank(n, p) = IF r < 1 THEN 1 ELSE r
  BY DEF Rank, AtLeastOne
<1> HIDE DEF r
<1> QED
  BY <1>2, <1>3, <1>4

\* The 95th percentile is not ranked before the median,
LEMMA RankGrows ==
  ASSUME NEW n \in Nat \ {0}
  PROVE  Rank(n, 50) <= Rank(n, 95)
<1> DEFINE r == RoundHalfEven(50 * n, 100)
           s == RoundHalfEven(95 * n, 100)
<1>1. r \in Nat /\ s \in Nat
  <2>1. 50 * n \in Nat /\ 95 * n \in Nat /\ 100 \in Nat \ {0}
    OBVIOUS
  <2> QED
    BY <2>1, RoundsToNearest
<1>2. r <= s
  BY RoundingIsMonotone
<1>3. Rank(n, 50) = (IF r < 1 THEN 1 ELSE r) /\ Rank(n, 95) = (IF s < 1 THEN 1 ELSE s)
  BY DEF Rank, AtLeastOne
<1> HIDE DEF r, s
<1> QED
  BY <1>1, <1>2, <1>3

\* and the median takes the rank of the nearest, or in one case in four the one below.
LEMMA MedianRank ==
  ASSUME NEW n \in Nat \ {0}
  PROVE  LET half == IF n > 1 /\ n % 4 = 1 THEN n - 1 ELSE n
         IN  2 * (Rank(n, 50) - 1) < half /\ half <= 2 * Rank(n, 50)
<1> DEFINE q == (50 * n) \div 100
           t == 2 * ((50 * n) % 100)
           r == RoundHalfEven(50 * n, 100)
<1>1. r = IF t < 100 \/ (t = 100 /\ q % 2 = 0) THEN q ELSE q + 1
  BY DEF RoundHalfEven
<1>2. Rank(n, 50) = IF r < 1 THEN 1 ELSE r
  BY DEF Rank, AtLeastOne
<1>3. PICK k \in Nat : n = 4 * k \/ n = 4 * k + 1 \/ n = 4 * k + 2 \/ n = 4 * k + 3
  <2>1. n \div 4 \in Nat /\ n % 4 \in 0 .. 3 /\ n = 4 * (n \div 4) + (n % 4)
    OBVIOUS
  <2> QED
    BY <2>1
<1>4. CASE n = 4 * k
  <2>1. q = 2 * k /\ t = 0 /\ n % 4 = 0
    BY <1>4
  <2> HIDE DEF q, t, r
  <2> QED
    BY <1>1, <1>2, <1>4, <2>1
<1>5. CASE n = 4 * k + 1
  <2>1. q = 2 * k /\ t = 100 /\ q % 2 = 0 /\ n % 4 = 1
    BY <1>5
  <2> HIDE DEF q, t, r
  <2> QED
    BY <1>1, <1>2, <1>5, <2>1
<1>6. CASE n = 4 * k + 2
  <2>1. q = 2 * k + 1 /\ t = 0 /\ n % 4 = 2
    BY <1>6
  <2> HIDE DEF q, t, r
  <2> QED
    BY <1>1, <1>2, <1>6, <2>1
<1>7. CASE n = 4 * k + 3
  <2>1. q = 2 * k + 1 /\ t = 100 /\ q % 2 = 1 /\ n % 4 = 3
    BY <1>7
  <2> HIDE DEF q, t, r
  <2> QED
    BY <1>1, <1>2, <1>7, <2>1
<1> QED
  BY <1>3, <1>4, <1>5, <1>6, <1>7

\* The telemetry store is such rows, now
LEMMA EventsTimed ==
  ASSUME InputsTyped
  PROVE  /\ Timed(events, Len(events)) /\ Len(events) \in Nat
         /\ DOMAIN events = 1 .. Len(events)
<1>1. events \in Seq(Stored)
  BY DEF InputsTyped
<1>2. \A i \in 1 .. Len(events) : events[i] \in Stored
  BY <1>1
<1>3. Len(events) \in Nat /\ DOMAIN events = 1 .. Len(events)
  BY <1>1
<1> QED
  BY <1>2, <1>3 DEF Timed, Stored

\* The median takes its rank in the observed window.
LEMMA MedianRanked == InputsTyped => MedianTakesItsRank
<1> SUFFICES ASSUME InputsTyped, observed_events # {} PROVE MedianTakesItsRank
  BY DEF MedianTakesItsRank
<1> DEFINE W == observed_events
           n == Cardinality(W)
           N == Len(events)
           m == BehaviorMetrics(TRUE)
           p50 == Ranked(W, Rank(n, 50))
           p95 == Ranked(W, Rank(n, 95))
           half == IF n > 1 /\ n % 4 = 1 THEN n - 1 ELSE n
<1>1. Timed(events, N) /\ W \subseteq 1 .. N /\ N \in Nat
  BY EventsTimed DEF observed_events
<1>2. n \in Nat /\ IsFiniteSet(W)
  BY <1>1, WindowCounts
<1>3. n # 0
  BY <1>2, FS_EmptySet
<1>4. m.total = n /\ m.latency_ms_p50 = <<p50>> /\ m.latency_ms_p95 = <<p95>>
  BY DEF BehaviorMetrics, _percentile
<1>5. p50 = RankedIn(events, W, Rank(n, 50)) /\ p95 = RankedIn(events, W, Rank(n, 95))
  BY DEF Ranked, RankedIn
<1>h. 2 * (Rank(n, 50) - 1) < half /\ half <= 2 * Rank(n, 50) /\ half \in Nat
  BY <1>2, <1>3, MedianRank
<1>t. half = IF m.total > 1 /\ m.total % 4 = 1 THEN m.total - 1 ELSE m.total
  BY <1>4
<1> HIDE DEF W, n, N, m, p50, p95, half
<1>6. /\ Rank(n, 50) \in Nat \ {0} /\ Rank(n, 50) <= n
      /\ Rank(n, 95) \in Nat \ {0} /\ Rank(n, 95) <= n
  BY <1>2, <1>3, RankIsPlace
<1>7. Places(events, W, Rank(n, 50), p50) /\ Places(events, W, Rank(n, 95), p95)
  BY <1>1, <1>5, <1>6, RankedTakesItsPlace DEF n
<1>8. p50 \in Nat /\ p50 <= p95
  BY <1>1, <1>2, <1>3, <1>6, <1>7, RankGrows, PlacesAreOrdered
<1>9. 2 * Cardinality(Lower(events, W, p50)) < half
  <2>1. Cardinality(Lower(events, W, p50)) \in Nat
    BY <1>1, WindowCounts
  <2>2. Cardinality(Lower(events, W, p50)) < Rank(n, 50)
    BY <1>7 DEF Places
  <2> QED
    BY <1>6, <1>h, <2>1, <2>2
<1>10. 2 * Cardinality(NotHigher(events, W, p50)) >= half
  <2>1. Cardinality(NotHigher(events, W, p50)) \in Nat
    BY <1>1, WindowCounts
  <2>2. Rank(n, 50) <= Cardinality(NotHigher(events, W, p50))
    BY <1>7 DEF Places
  <2> QED
    BY <1>6, <1>h, <2>1, <2>2
<1>11. /\ Lower(events, W, p50) = {i \in W : events[i].latency_ms < p50}
       /\ NotHigher(events, W, p50) = {i \in W : events[i].latency_ms <= p50}
  BY DEF Lower, NotHigher
<1>12. m.latency_ms_p50[1] = p50 /\ m.latency_ms_p95[1] = p95
  BY <1>4
<1> QED
  BY <1>8, <1>9, <1>10, <1>11, <1>12, <1>t DEF MedianTakesItsRank, W, m

\* The median is the nearest rank or, for 5, 9, 13, ... latencies, the rank below.
THEOREM MedianIsExact == Spec => []MedianTakesItsRank
  BY MedianRanked, InputsAlwaysTyped, PTL

\* A report, field by field, and what is left of it when it is blind to exclusions.
Report(t, s, g, r, f, c, gr, rr, fr, p50, p95, x, y) ==
  [total |-> t, insufficient_sample |-> s, grounded |-> g, refused |-> r, faults |-> f,
   reason_code_counts |-> c, grounded_rate |-> gr, refused_rate |-> rr, fault_rate |-> fr,
   latency_ms_p50 |-> p50, latency_ms_p95 |-> p95,
   synthetic_events_excluded |-> x, other_environment_events_excluded |-> y]

\* What the figures are computed from, of some rows and a window of them.
RefusedIn(rows, window) == {i \in window : rows[i].reason_code # None}
FaultsAmong(rows, window) == {i \in window : rows[i].reason_code \in FaultReason}
CountsIn(rows, window) ==
  [code \in {rows[i].reason_code : i \in RefusedIn(rows, window)} |->
     Cardinality({i \in window : rows[i].reason_code = code})]
RateIn(part, window) ==
  IF ~(Cardinality(window) >= MinimumSample) \/ window = {} THEN NoFigure
  ELSE <<FourDecimals(Cardinality(part), Cardinality(window))>>
PercentileIn(rows, window, percent) ==
  IF window = {} THEN NoFigure
  ELSE <<RankedIn(rows, window, Rank(Cardinality(window), percent))>>

FiguresOf(rows, window) ==
  LET refused == RefusedIn(rows, window)
      faults == FaultsAmong(rows, window)
  IN  Report(Cardinality(window), ~(Cardinality(window) >= MinimumSample),
             Cardinality(window \ refused), Cardinality(refused), Cardinality(faults),
             CountsIn(rows, window),
             RateIn(window \ refused, window), RateIn(refused, window), RateIn(faults, window),
             PercentileIn(rows, window, 50), PercentileIn(rows, window, 95), 0, 0)

\* The figures are those of the rows observed.
LEMMA FiguresAreOfRows == Figures = FiguresOf(events, observed_events)
<1> DEFINE W == observed_events
           refused == RefusedIn(events, W)
           faults == FaultsAmong(events, W)
           few == ~(Cardinality(W) >= MinimumSample)
           x == Cardinality(synthetic_excluded)
           y == Cardinality(other_env_excluded)
<1>1. BehaviorMetrics(TRUE) =
        Report(Cardinality(W), few,
               Cardinality(W \ refused), Cardinality(refused), Cardinality(faults),
               CountsIn(events, W),
               _rate(W \ refused, W), _rate(refused, W), _rate(faults, W),
               _percentile(W, 50), _percentile(W, 95), x, y)
  BY DEF BehaviorMetrics, Report, RefusedIn, FaultsAmong, CountsIn, grounded, is_fault, Sufficient
<1>2. /\ _rate(W \ refused, W) = RateIn(W \ refused, W)
      /\ _rate(refused, W) = RateIn(refused, W)
      /\ _rate(faults, W) = RateIn(faults, W)
  BY DEF _rate, RateIn, Sufficient
<1>3. /\ _percentile(W, 50) = PercentileIn(events, W, 50)
      /\ _percentile(W, 95) = PercentileIn(events, W, 95)
  BY DEF _percentile, PercentileIn, Ranked, RankedIn
<1>4. FiguresOf(events, W) =
        Report(Cardinality(W), few,
               Cardinality(W \ refused), Cardinality(refused), Cardinality(faults),
               CountsIn(events, W),
               RateIn(W \ refused, W), RateIn(refused, W), RateIn(faults, W),
               PercentileIn(events, W, 50), PercentileIn(events, W, 95), 0, 0)
  BY DEF FiguresOf
<1> HIDE DEF W, refused, faults, few, x, y
<1> DEFINE m(x1, y1) ==
        Report(Cardinality(W), few,
               Cardinality(W \ refused), Cardinality(refused), Cardinality(faults),
               CountsIn(events, W),
               RateIn(W \ refused, W), RateIn(refused, W), RateIn(faults, W),
               PercentileIn(events, W, 50), PercentileIn(events, W, 95), x1, y1)
<1>5. BehaviorMetrics(TRUE) = m(x, y)
  BY <1>1, <1>2, <1>3
<1>6. FiguresOf(events, W) = m(0, 0)
  BY <1>4
<1>7. /\ [m(x, y) EXCEPT !.synthetic_events_excluded = 0] = m(0, y)
      /\ [m(0, y) EXCEPT !.other_environment_events_excluded = 0] = m(0, 0)
  BY DEF Report
<1> HIDE DEF m
<1>8. Figures = [[m(x, y) EXCEPT !.synthetic_events_excluded = 0]
                   EXCEPT !.other_environment_events_excluded = 0]
  BY <1>5 DEF Figures
<1> QED
  BY <1>6, <1>7, <1>8 DEF W

\* Rows may agree on a window.
WindowOf(n, window) == window \subseteq 1 .. n
Agree(rows, other, window) == \A i \in window : rows[i] = other[i]

\* A place is taken by the same latency,
LEMMA RankedOfAgreeing ==
  ASSUME NEW n, NEW rows, Timed(rows, n), NEW m, NEW other, Timed(other, m),
         NEW window, WindowOf(n, window), WindowOf(m, window),
         Agree(rows, other, window),
         NEW k \in Nat \ {0}, k <= Cardinality(window)
  PROVE  RankedIn(rows, window, k) = RankedIn(other, window, k)
<1> DEFINE x == RankedIn(rows, window, k)
           y == RankedIn(other, window, k)
<1>0. window \subseteq 1 .. n /\ window \subseteq 1 .. m
  BY DEF WindowOf
<1>1. Places(rows, window, k, x) /\ Places(other, window, k, y)
  BY <1>0, RankedTakesItsPlace
<1>2. \A ms : /\ Lower(rows, window, ms) = Lower(other, window, ms)
              /\ NotHigher(rows, window, ms) = NotHigher(other, window, ms)
  BY DEF Lower, NotHigher, Agree
<1>3. {rows[i].latency_ms : i \in window} = {other[i].latency_ms : i \in window}
  BY DEF Agree
<1> HIDE DEF x, y
<1>4. Places(rows, window, k, y)
  BY <1>1, <1>2, <1>3 DEF Places
<1>5. k \in Nat /\ k <= k
  OBVIOUS
<1>6. x \in Nat /\ y \in Nat /\ x <= y
  BY <1>0, <1>1, <1>4, <1>5, PlacesAreOrdered
<1>7. y <= x
  BY <1>0, <1>1, <1>4, <1>5, PlacesAreOrdered
<1>8. x = y
  BY <1>6, <1>7
<1> QED
  BY <1>8 DEF x, y

\* and every figure is the same.
LEMMA FiguresOfAgreeing ==
  ASSUME NEW n, NEW rows, Timed(rows, n), NEW m, NEW other, Timed(other, m),
         NEW window, WindowOf(n, window), WindowOf(m, window),
         Agree(rows, other, window)
  PROVE  FiguresOf(rows, window) = FiguresOf(other, window)
<1>0. n \in Nat /\ window \subseteq 1 .. n
  BY DEF Timed, WindowOf
<1>1. RefusedIn(rows, window) = RefusedIn(other, window)
  BY DEF RefusedIn, Agree
<1>2. FaultsAmong(rows, window) = FaultsAmong(other, window)
  BY DEF FaultsAmong, Agree
<1>3. CountsIn(rows, window) = CountsIn(other, window)
  <2> DEFINE R == RefusedIn(rows, window)
  <2>1. \A i \in R : i \in window
    BY DEF RefusedIn
  <2>2. {rows[i].reason_code : i \in R} = {other[i].reason_code : i \in R}
    BY <2>1 DEF Agree
  <2>3. \A code : {i \in window : rows[i].reason_code = code}
                    = {i \in window : other[i].reason_code = code}
    BY DEF Agree
  <2>4. CountsIn(rows, window) = [code \in {rows[i].reason_code : i \in R} |->
                                    Cardinality({i \in window : rows[i].reason_code = code})]
    BY DEF CountsIn
  <2>5. CountsIn(other, window) = [code \in {other[i].reason_code : i \in R} |->
                                    Cardinality({i \in window : other[i].reason_code = code})]
    BY <1>1 DEF CountsIn
  <2> HIDE DEF R
  <2> QED
    BY <2>2, <2>3, <2>4, <2>5
<1>4. ASSUME NEW percent \in {50, 95}
      PROVE  PercentileIn(rows, window, percent) = PercentileIn(other, window, percent)
  <2> DEFINE c == Cardinality(window)
  <2>1. c \in Nat /\ (window # {} => c # 0)
    BY <1>0, WindowCounts, FS_EmptySet
  <2>2. CASE window # {}
    <3>1. percent \in 0 .. 100 /\ c \in Nat \ {0}
      BY <2>1, <2>2
    <3>2. Rank(c, percent) \in Nat \ {0} /\ Rank(c, percent) <= c
      BY <3>1, RankIsPlace
    <3>3. RankedIn(rows, window, Rank(c, percent)) = RankedIn(other, window, Rank(c, percent))
      BY <3>2, RankedOfAgreeing
    <3> QED
      BY <3>3 DEF PercentileIn
  <2> QED
    BY <2>2 DEF PercentileIn
<1> QED
  BY <1>1, <1>2, <1>3, <1>4 DEF FiguresOf

\* and after a step.
LEMMA EventsTimedNext ==
  ASSUME InputsTyped'
  PROVE  Timed(events', Len(events'))
<1>1. events' \in Seq(Stored)
  BY DEF InputsTyped
<1>2. \A i \in 1 .. Len(events') : events'[i] \in Stored
  BY <1>1
<1>3. Len(events') \in Nat
  BY <1>1
<1> QED
  BY <1>2, <1>3 DEF Timed, Stored

\* What was not labelled observed, or names another environment, moves no figure.
LEMMA OtherTrafficIsBlind ==
  ASSUME InputsTyped, InputsTyped', NEW e \in Traffic, Capture(e),
         \/ e.population # "observed"
         \/ e.environment \in Environment \ PermittedEnvironment
  PROVE  Figures' = Figures
<1> DEFINE W == observed_events
           N == Len(events)
           f == [e EXCEPT !.environment = classify_environment(@),
                          !.population = classify_population(@)]
<1>1. Timed(events, N) /\ N \in Nat /\ DOMAIN events = 1 .. N
  BY EventsTimed
<1>2. events' = Append(events, f) /\ events \in Seq(Stored)
  BY DEF Capture, InputsTyped
<1>3. e \in TrafficType
  BY MetricsAssumption
<1>4. f.environment \notin PermittedEnvironment \/ f.population # "observed"
  <2>1. /\ f.environment = classify_environment(e.environment)
        /\ f.population = classify_population(e.population)
    BY <1>3 DEF TrafficType
  <2> HIDE DEF f
  <2> QED
    BY <2>1 DEF classify_environment, classify_population
<1> HIDE DEF f
<1>5. /\ Len(events') = N + 1 /\ DOMAIN events' = 1 .. N + 1
      /\ \A i \in 1 .. N : events'[i] = events[i]
      /\ events'[N + 1] = f
  BY <1>1, <1>2
<1>6. 1 .. N + 1 = (1 .. N) \cup {N + 1}
  BY <1>1
<1>7. W' = W
  <2>1. W' = {i \in 1 .. N + 1 : /\ events'[i].environment \in PermittedEnvironment
                                 /\ events'[i].population = "observed"}
    BY <1>5 DEF observed_events
  <2>2. W = {i \in 1 .. N : /\ events[i].environment \in PermittedEnvironment
                            /\ events[i].population = "observed"}
    BY <1>1 DEF observed_events
  <2> HIDE DEF W, N
  <2> QED
    BY <1>4, <1>5, <1>6, <2>1, <2>2
<1>8. W \subseteq 1 .. N
  BY <1>1 DEF observed_events
<1>9. Timed(events', N + 1)
  BY <1>5, EventsTimedNext
<1>10. /\ Figures = FiguresOf(events, W)
       /\ Figures' = FiguresOf(events', W')
  <2>1. Figures = FiguresOf(events, observed_events)
    BY FiguresAreOfRows
  <2>2. (Figures = FiguresOf(events, observed_events))'
    BY FiguresAreOfRows, PTL
  <2> QED
    BY <2>1, <2>2
<1> HIDE DEF W
<1>11. FiguresOf(events', W) = FiguresOf(events, W)
  <2>1. WindowOf(N, W) /\ WindowOf(N + 1, W)
    BY <1>6, <1>8 DEF WindowOf
  <2>2. Agree(events', events, W)
    BY <1>5, <1>8 DEF Agree
  <2> QED
    BY <1>1, <1>8, <1>9, <2>1, <2>2, FiguresOfAgreeing
<1> QED
  BY <1>7, <1>10, <1>11

\* What was not labelled observed, or names another environment, moves none of the
\* figures that describe production.
THEOREM TestTrafficIsInert == Spec => TestTrafficMovesNothing
<1>1. ASSUME InputsTyped, InputsTyped'
      PROVE  \A e \in Traffic :
               /\ \/ e.population # "observed"
                  \/ e.environment \in Environment \ PermittedEnvironment
               /\ Capture(e)
               => Figures' = Figures
  BY <1>1, OtherTrafficIsBlind
<1> QED
  BY <1>1, InputsAlwaysTyped, PTL DEF TestTrafficMovesNothing

-------------------------------------------------------------------------------
(***************************************************************************)
(* The evaluation gate: sums of batches, and the rates they make.          *)
(***************************************************************************)
\* The running sums of the cases that some batches stand for.
Sums(f, rows, indices) ==
  f = [n \in 0 .. Len(rows) |->
         IF n = 0 THEN 0
         ELSE f[n - 1] + (IF n \in indices THEN rows[n].times ELSE 0)]

SumOf(rows, indices) == (CHOOSE f : Sums(f, rows, indices))[Len(rows)]

\* The totals of a suite are such sums.
LEMMA TimesAreSums ==
  /\ total = SumOf(results, DOMAIN results)
  /\ Times(passing) = SumOf(results, passing)
  BY DEF total, Times, SumOf, Sums

\* Running sums exist: each batch adds one to them.
LEMMA SumsExist ==
  ASSUME NEW rows, NEW indices, Len(rows) \in Nat
  PROVE  \E f : Sums(f, rows, indices)
<1> DEFINE add(n) == IF n \in indices THEN rows[n].times ELSE 0
           UpTo(f, k) == f = [n \in 0 .. k |-> IF n = 0 THEN 0 ELSE f[n - 1] + add(n)]
           missing == {k \in Nat : ~\E f : UpTo(f, k)}
<1> HIDE DEF add
<1>1. CASE missing # {}
  <2>1. PICK k \in missing : \A j \in missing : k <= j
    BY <1>1, FirstOfPositions
  <2>2. CASE k = 0
    <3>1. UpTo([n \in 0 .. 0 |-> 0], 0)
      OBVIOUS
    <3> QED
      BY <2>1, <2>2, <3>1
  <2>3. CASE k # 0
    <3>1. k - 1 \in Nat /\ k - 1 \notin missing
      BY <2>1, <2>3
    <3>2. PICK f : UpTo(f, k - 1)
      BY <3>1
    <3> DEFINE g == [n \in 0 .. k |-> IF n = k THEN f[k - 1] + add(k) ELSE f[n]]
    <3>3. \A n \in 0 .. k - 1 : g[n] = f[n] /\ n \in 0 .. k
      BY <3>1
    <3>4. \A n \in 0 .. k - 1 : f[n] = IF n = 0 THEN 0 ELSE f[n - 1] + add(n)
      BY <3>1, <3>2
    <3>5. \A n \in 0 .. k : g[n] = IF n = 0 THEN 0 ELSE g[n - 1] + add(n)
      <4> SUFFICES ASSUME NEW n \in 0 .. k
                   PROVE  g[n] = IF n = 0 THEN 0 ELSE g[n - 1] + add(n)
        OBVIOUS
      <4>1. CASE n = k
        <5>1. g[n] = f[k - 1] + add(k) /\ g[k - 1] = f[k - 1]
          BY <3>1, <3>3, <4>1
        <5> QED
          BY <2>3, <4>1, <5>1
      <4>2. CASE n # k
        <5>1. n \in 0 .. k - 1 /\ (n # 0 => n - 1 \in 0 .. k - 1)
          BY <3>1, <4>2
        <5>2. g[n] = f[n] /\ (n # 0 => g[n - 1] = f[n - 1])
          BY <3>3, <5>1
        <5> QED
          BY <3>4, <5>1, <5>2
      <4> QED
        BY <4>1, <4>2
    <3>6. g = [n \in 0 .. k |-> IF n = 0 THEN 0 ELSE g[n - 1] + add(n)]
      <4>1. g = [n \in 0 .. k |-> g[n]]
        OBVIOUS
      <4> HIDE DEF g
      <4> QED
        BY <3>5, <4>1
    <3> HIDE DEF g
    <3>7. UpTo(g, k)
      BY <3>6
    <3> QED
      BY <2>1, <3>7
  <2> QED
    BY <2>2, <2>3
<1>2. CASE missing = {}
  BY <1>2 DEF Sums, add
<1> QED
  BY <1>1, <1>2

\* So a sum is the last of some running sums.
LEMMA SumIsOfSums ==
  ASSUME NEW rows, NEW indices, Len(rows) \in Nat
  PROVE  \E f : Sums(f, rows, indices) /\ SumOf(rows, indices) = f[Len(rows)]
<1>1. Sums(CHOOSE f : Sums(f, rows, indices), rows, indices)
  BY SumsExist
<1> QED
  BY <1>1 DEF SumOf

\* What the batches are, and how sums advance.
Batches(rows) ==
  Len(rows) \in Nat /\ \A n \in 1 .. Len(rows) : rows[n].times \in Nat \ {0}

\* Running sums start from nothing and advance by what the batch adds.
LEMMA SumsAdvance ==
  ASSUME NEW rows, NEW indices, NEW f, Sums(f, rows, indices), Len(rows) \in Nat
  PROVE  /\ f[0] = 0
         /\ \A n \in 1 .. Len(rows) :
              f[n] = f[n - 1] + (IF n \in indices THEN rows[n].times ELSE 0)
<1>1. \A n \in 0 .. Len(rows) :
        f[n] = IF n = 0 THEN 0 ELSE f[n - 1] + (IF n \in indices THEN rows[n].times ELSE 0)
  BY DEF Sums
<1>2. 0 \in 0 .. Len(rows) /\ \A n \in 1 .. Len(rows) : n \in 0 .. Len(rows) /\ n # 0
  OBVIOUS
<1> QED
  BY <1>1, <1>2

\* Sums of batches are naturals, and zero only of no batch.
LEMMA SumsCount ==
  ASSUME NEW rows, NEW indices, Batches(rows), NEW f, Sums(f, rows, indices)
  PROVE  \A n \in 0 .. Len(rows) :
           f[n] \in Nat /\ (f[n] = 0 <=> \A k \in 1 .. n : k \notin indices)
<1> DEFINE N == Len(rows)
           Ok(n) == f[n] \in Nat /\ (f[n] = 0 <=> \A k \in 1 .. n : k \notin indices)
           bad == {n \in 0 .. N : ~Ok(n)}
<1>0. N \in Nat /\ \A n \in 1 .. N : rows[n].times \in Nat \ {0}
  BY DEF Batches
<1>1. /\ f[0] = 0
      /\ \A n \in 1 .. N : f[n] = f[n - 1] + (IF n \in indices THEN rows[n].times ELSE 0)
  BY <1>0, SumsAdvance
<1> HIDE DEF N
<1>2. bad \subseteq Nat
  BY <1>0
<1>3. CASE bad # {}
  <2>1. PICK n \in bad : \A m \in bad : n <= m
    BY <1>2, <1>3, FirstOfPositions
  <2>2. n \in 0 .. N /\ ~Ok(n)
    BY <2>1
  <2>3. Ok(0)
    BY <1>1
  <2>4. n \in Nat /\ n # 0 /\ n <= N /\ n - 1 \in 0 .. N /\ n \in 1 .. N
    <3>1. n # 0
      BY <2>2, <2>3
    <3> HIDE DEF Ok, bad
    <3> QED
      BY <1>0, <2>2, <3>1
  <2>5. Ok(n - 1)
    <3>1. n - 1 \notin bad
      <4> HIDE DEF bad
      <4> QED
        BY <1>2, <2>1, <2>4
    <3> QED
      BY <2>4, <3>1
  <2>6. 1 .. n = (1 .. n - 1) \cup {n}
    BY <2>4
  <2>7. f[n] = f[n - 1] + (IF n \in indices THEN rows[n].times ELSE 0)
    BY <1>1, <2>4
  <2>8. rows[n].times \in Nat \ {0}
    BY <1>0, <2>4
  <2>9. f[n] \in Nat /\ (f[n] = 0 <=> f[n - 1] = 0 /\ n \notin indices)
    BY <2>5, <2>7, <2>8
  <2>10. Ok(n)
    BY <2>5, <2>6, <2>9
  <2> QED
    BY <2>2, <2>10
<1>4. CASE bad = {}
  BY <1>4 DEF N
<1> QED
  BY <1>3, <1>4

\* Sums of disjoint batches add up.
Joins(U, S, T) == U = S \cup T /\ S \cap T = {}

LEMMA SumsAddUp ==
  ASSUME NEW rows, Batches(rows), NEW S, NEW T, NEW U, Joins(U, S, T),
         NEW f, NEW g, NEW h, Sums(f, rows, S), Sums(g, rows, T), Sums(h, rows, U)
  PROVE  \A n \in 0 .. Len(rows) : h[n] = f[n] + g[n]
<1> DEFINE N == Len(rows)
           bad == {n \in 0 .. N : h[n] # f[n] + g[n]}
<1>0. N \in Nat /\ \A n \in 1 .. N : rows[n].times \in Nat \ {0}
  BY DEF Batches
<1>1. /\ f[0] = 0 /\ g[0] = 0 /\ h[0] = 0
      /\ \A n \in 1 .. N : f[n] = f[n - 1] + (IF n \in S THEN rows[n].times ELSE 0)
      /\ \A n \in 1 .. N : g[n] = g[n - 1] + (IF n \in T THEN rows[n].times ELSE 0)
      /\ \A n \in 1 .. N : h[n] = h[n - 1] + (IF n \in U THEN rows[n].times ELSE 0)
  BY <1>0, SumsAdvance
<1>2. \A n \in 0 .. N : f[n] \in Nat /\ g[n] \in Nat /\ h[n] \in Nat
  BY SumsCount
<1> HIDE DEF N
<1>3. bad \subseteq Nat
  BY <1>0
<1>4. CASE bad # {}
  <2>1. PICK n \in bad : \A m \in bad : n <= m
    BY <1>3, <1>4, FirstOfPositions
  <2>2. n \in 0 .. N /\ h[n] # f[n] + g[n]
    BY <2>1
  <2>3. n # 0
    BY <1>1, <2>2
  <2> HIDE DEF bad
  <2>4. n \in Nat /\ n - 1 \in 0 .. N /\ n \in 1 .. N
    BY <1>0, <2>2, <2>3
  <2>5. n - 1 \notin bad
    BY <1>3, <2>1, <2>4
  <2>6. h[n - 1] = f[n - 1] + g[n - 1]
    BY <2>4, <2>5 DEF bad
  <2>7. /\ f[n] = f[n - 1] + (IF n \in S THEN rows[n].times ELSE 0)
        /\ g[n] = g[n - 1] + (IF n \in T THEN rows[n].times ELSE 0)
        /\ h[n] = h[n - 1] + (IF n \in U THEN rows[n].times ELSE 0)
    BY <1>1, <2>4
  <2>8. rows[n].times \in Nat /\ f[n - 1] \in Nat /\ g[n - 1] \in Nat
    BY <1>0, <1>2, <2>4
  <2>9. ~(n \in S /\ n \in T) /\ (n \in U <=> n \in S \/ n \in T)
    BY DEF Joins
  <2> QED
    BY <2>2, <2>6, <2>7, <2>8, <2>9
<1>5. CASE bad = {}
  BY <1>5 DEF N
<1> QED
  BY <1>4, <1>5

\* A batch more leaves the sums before it alone.
LEMMA SumsExtend ==
  ASSUME NEW rows, Len(rows) \in Nat, NEW longer, Len(longer) = Len(rows) + 1,
         \A n \in 1 .. Len(rows) : longer[n] = rows[n],
         NEW S, NEW T, \A n \in 1 .. Len(rows) : n \in T <=> n \in S,
         NEW f, NEW g, Sums(f, rows, S), Sums(g, longer, T)
  PROVE  \A n \in 0 .. Len(rows) : g[n] = f[n]
<1> DEFINE N == Len(rows)
           bad == {n \in 0 .. N : g[n] # f[n]}
<1>0. N \in Nat /\ \A n \in 1 .. N : n \in 1 .. Len(longer)
  OBVIOUS
<1>1. f[0] = 0 /\ \A n \in 1 .. N : f[n] = f[n - 1] + (IF n \in S THEN rows[n].times ELSE 0)
  BY <1>0, SumsAdvance
<1>2. g[0] = 0 /\ \A n \in 1 .. N : g[n] = g[n - 1] + (IF n \in S THEN rows[n].times ELSE 0)
  <2>1. /\ g[0] = 0
        /\ \A n \in 1 .. Len(longer) :
             g[n] = g[n - 1] + (IF n \in T THEN longer[n].times ELSE 0)
    BY <1>0, SumsAdvance
  <2> QED
    BY <1>0, <2>1
<1> HIDE DEF N
<1>3. bad \subseteq Nat
  BY <1>0
<1>4. CASE bad # {}
  <2>1. PICK n \in bad : \A m \in bad : n <= m
    BY <1>3, <1>4, FirstOfPositions
  <2>2. n \in 0 .. N /\ g[n] # f[n]
    BY <2>1
  <2>3. n # 0
    BY <1>1, <1>2, <2>2
  <2> HIDE DEF bad
  <2>4. n \in Nat /\ n - 1 \in 0 .. N /\ n \in 1 .. N
    BY <1>0, <2>2, <2>3
  <2>5. n - 1 \notin bad
    BY <1>3, <2>1, <2>4
  <2>6. g[n - 1] = f[n - 1]
    BY <2>4, <2>5 DEF bad
  <2> QED
    BY <1>1, <1>2, <2>2, <2>4, <2>6
<1>5. CASE bad = {}
  BY <1>5 DEF N
<1> QED
  BY <1>4, <1>5

\* The sum over some batches is at most the sum over all, and less if one is left out.
LEMMA SumsOfParts ==
  ASSUME NEW rows, Batches(rows), NEW S, S \subseteq 1 .. Len(rows)
  PROVE  LET all == SumOf(rows, 1 .. Len(rows))
             part == SumOf(rows, S)
         IN  /\ all \in Nat /\ part \in Nat /\ part <= all
             /\ part = all <=> S = 1 .. Len(rows)
             /\ all = 0 <=> Len(rows) = 0
<1> DEFINE N == Len(rows)
           all == SumOf(rows, 1 .. N)
           part == SumOf(rows, S)
           rest == SumOf(rows, (1 .. N) \ S)
<1>0. N \in Nat
  BY DEF Batches
<1>1. PICK f : Sums(f, rows, S) /\ part = f[N]
  BY <1>0, SumIsOfSums
<1>2. PICK g : Sums(g, rows, (1 .. N) \ S) /\ rest = g[N]
  BY <1>0, SumIsOfSums
<1>3. PICK h : Sums(h, rows, 1 .. N) /\ all = h[N]
  BY <1>0, SumIsOfSums
<1>4. N \in 0 .. N
  BY <1>0
<1>5. part \in Nat
  BY <1>1, <1>4, SumsCount
<1>6. rest \in Nat /\ (rest = 0 <=> \A k \in 1 .. N : k \notin (1 .. N) \ S)
  BY <1>2, <1>4, SumsCount
<1>7. all \in Nat /\ (all = 0 <=> \A k \in 1 .. N : k \notin 1 .. N)
  <2> DEFINE A == 1 .. N
  <2>1. Sums(h, rows, A)
    BY <1>3
  <2> HIDE DEF A
  <2>2. h[N] \in Nat /\ (h[N] = 0 <=> \A k \in 1 .. N : k \notin A)
    BY <1>4, <2>1, SumsCount
  <2> QED
    BY <1>3, <2>2 DEF A
<1>8. all = part + rest
  <2>1. Joins(1 .. N, S, (1 .. N) \ S)
    BY DEF Joins
  <2>2. h[N] = f[N] + g[N]
    BY <1>1, <1>2, <1>3, <1>4, <2>1, SumsAddUp
  <2> QED
    BY <1>1, <1>2, <1>3, <2>2
<1>9. rest = 0 <=> S = 1 .. N
  BY <1>6
<1>10. (\A k \in 1 .. N : k \notin 1 .. N) <=> N = 0
  <2>1. N # 0 => 1 \in 1 .. N
    BY <1>0
  <2> QED
    BY <1>0, <2>1
<1> HIDE DEF all, part, rest, N
<1>11. /\ part <= all /\ (part = all <=> rest = 0)
  BY <1>5, <1>6, <1>7, <1>8
<1> QED
  BY <1>5, <1>7, <1>9, <1>10, <1>11 DEF all, part, N

\* Rows that go on by one batch, and batches picked as they were among the first n.
Extends(longer, rows) ==
  Len(longer) = Len(rows) + 1 /\ \A n \in 1 .. Len(rows) : longer[n] = rows[n]

Continues(T, S, n) == \A k \in 1 .. n : k \in T <=> k \in S

\* One batch more adds itself, if it is among those summed.
LEMMA SumsOfMore ==
  ASSUME NEW rows, Batches(rows), NEW longer, Batches(longer), Extends(longer, rows),
         NEW S, NEW T, Continues(T, S, Len(rows))
  PROVE  SumOf(longer, T) = SumOf(rows, S)
           + (IF Len(rows) + 1 \in T THEN longer[Len(rows) + 1].times ELSE 0)
<1> DEFINE N == Len(rows)
<1>0. N \in Nat /\ Len(longer) = N + 1 /\ Len(longer) \in Nat
  BY DEF Batches, Extends
<1>1. PICK f : Sums(f, rows, S) /\ SumOf(rows, S) = f[N]
  BY <1>0, SumIsOfSums
<1>2. PICK g : Sums(g, longer, T) /\ SumOf(longer, T) = g[Len(longer)]
  BY <1>0, SumIsOfSums
<1>3. \A n \in 0 .. N : g[n] = f[n]
  BY <1>0, <1>1, <1>2, SumsExtend DEF Extends, Continues
<1>4. g[N + 1] = g[N + 1 - 1] + (IF N + 1 \in T THEN longer[N + 1].times ELSE 0)
  <2>1. \A n \in 1 .. Len(longer) :
          g[n] = g[n - 1] + (IF n \in T THEN longer[n].times ELSE 0)
    BY <1>0, <1>2, SumsAdvance
  <2>2. N + 1 \in 1 .. Len(longer)
    BY <1>0
  <2> QED
    BY <2>1, <2>2
<1>5. N + 1 - 1 = N /\ N \in 0 .. N
  BY <1>0
<1> QED
  BY <1>0, <1>1, <1>2, <1>3, <1>4, <1>5

-------------------------------------------------------------------------------
\* Two verdicts that agree in their parts are the same.
LEMMA VerdictsDiffer ==
  ASSUME NEW r \in CaseResult
  PROVE  passed(r) <=> r.expected = r.actual
<1>1. r.expected \in Verdict /\ r.actual \in Verdict
  BY DEF CaseResult
<1>2. \A v \in Verdict :
        v = [outcome |-> v.outcome, strategy |-> v.strategy, reason_code |-> v.reason_code]
  BY DEF Verdict
<1> QED
  BY <1>1, <1>2 DEF passed

\* The results of a suite are batches.
LEMMA ResultsAreBatches ==
  ASSUME NEW rows \in Seq(CaseResult)
  PROVE  Batches(rows) /\ DOMAIN rows = 1 .. Len(rows)
<1>1. \A n \in 1 .. Len(rows) : rows[n] \in CaseResult
  OBVIOUS
<1>2. Len(rows) \in Nat /\ DOMAIN rows = 1 .. Len(rows)
  OBVIOUS
<1> QED
  BY <1>1, <1>2, EvaluationAssumption DEF Batches, CaseResult

PassingIn(rows) == {i \in DOMAIN rows : passed(rows[i])}

\* The gate, by the results it is applied to.
Open(rows, minimum) ==
  LET all == SumOf(rows, DOMAIN rows)
  IN  all > 0 /\ FourDecimals(SumOf(rows, PassingIn(rows)), all) >= minimum

GateReadsResults ==
  \A minimum \in Nat : summarize(minimum).gate_passed <=> Open(results, minimum)

\* summarize() opens the gate exactly so.
LEMMA GateIsOpen == GateReadsResults
<1> SUFFICES ASSUME NEW minimum \in Nat
             PROVE  summarize(minimum).gate_passed <=> Open(results, minimum)
  BY DEF GateReadsResults
<1>1. summarize(minimum).gate_passed <=> total > 0 /\ pass_rate >= minimum
  BY DEF summarize
<1>2. total > 0 => total # 0
  OBVIOUS
<1>3. total > 0 => pass_rate = FourDecimals(Times(passing), total)
  BY <1>2 DEF pass_rate
<1>4. passing = PassingIn(results)
  BY DEF passing, PassingIn
<1> QED
  BY <1>1, <1>3, <1>4, TimesAreSums DEF Open

\* A perfect rate, to four decimals, of fewer than twice as many cases as they can
\* tell apart.
LEMMA PerfectIsAll ==
  ASSUME NEW t \in 1 .. 2 * Whole - 1, NEW p \in Nat, p <= t
  PROVE  FourDecimals(p, t) >= Whole <=> p = t
<1> DEFINE r == RoundHalfEven(Whole * p, t)
<1>1. FourDecimals(p, t) = r
  BY DEF FourDecimals
<1>2. t \in Nat \ {0} /\ t <= 19999 /\ Whole * p = 10000 * p /\ 10000 * p \in Nat
  BY DEF Whole
<1>3. /\ r \in Nat
      /\ 2 * (10000 * p) <= 2 * (t * r) + t
      /\ 2 * (t * r) <= 2 * (10000 * p) + t
  BY <1>2, RoundsToNearest
<1> HIDE DEF r
<1>4. ASSUME r >= 10000 PROVE p = t
  <2>1. t * 10000 <= t * r
    BY <1>2, <1>3, <1>4, ProductsCompare
  <2>2. t * 10000 = 10000 * t /\ t * r \in Nat
    BY <1>2, <1>3
  <2>3. 2 * (10000 * t) <= 2 * (10000 * p) + t
    BY <1>2, <1>3, <2>1, <2>2
  <2> QED
    BY <1>2, <2>3
<1>5. ASSUME p = t PROVE r >= 10000
  <2>1. CASE r <= 9999
    <3>1. t * r <= t * 9999
      BY <1>2, <1>3, <2>1, ProductsCompare
    <3>2. t * 9999 = 9999 * t /\ t * r \in Nat
      BY <1>2, <1>3
    <3> QED
      BY <1>2, <1>3, <1>5, <3>1, <3>2
  <2> QED
    BY <1>3, <2>1
<1> QED
  BY <1>1, <1>4, <1>5 DEF Whole

\* So a perfect rate is required of every case.
LEMMA PerfectIsExact == InputsTyped => PerfectGateIsExact
<1> SUFFICES ASSUME InputsTyped, total \in 1 .. 2 * Whole - 1
             PROVE  summarize(Whole).gate_passed <=> \A i \in DOMAIN results : ~Diverges(i)
  BY DEF PerfectGateIsExact
<1> DEFINE P == PassingIn(results)
           N == Len(results)
           p == SumOf(results, P)
<1>1. results \in Seq(CaseResult)
  BY DEF InputsTyped
<1>2. Batches(results) /\ DOMAIN results = 1 .. N
  BY <1>1, ResultsAreBatches
<1>3. P \subseteq 1 .. N
  BY <1>2 DEF PassingIn
<1>4. total = SumOf(results, 1 .. N)
  BY <1>2, TimesAreSums
<1>5. p \in Nat /\ p <= total /\ (p = total <=> P = 1 .. N)
  BY <1>2, <1>3, <1>4, SumsOfParts
<1>6. P = 1 .. N <=> \A i \in DOMAIN results : ~Diverges(i)
  <2>1. \A i \in 1 .. N : passed(results[i]) <=> ~Diverges(i)
    BY <1>1, <1>2, VerdictsDiffer DEF Diverges
  <2> QED
    BY <1>2, <2>1 DEF PassingIn
<1>7. summarize(Whole).gate_passed <=> total > 0 /\ FourDecimals(p, total) >= Whole
  BY <1>2, <1>4, GateIsOpen DEF GateReadsResults, Open, Whole
<1> HIDE DEF P, p, N
<1>8. FourDecimals(p, total) >= Whole <=> p = total
  BY <1>5, PerfectIsAll
<1>9. total > 0
  BY DEF Whole
<1> QED
  BY <1>5, <1>6, <1>7, <1>8, <1>9

\* A failed case lowers the rate, and a passed one raises it.
LEMMA RatesMove ==
  ASSUME NEW p \in Nat, NEW t \in Nat \ {0}, p <= t, NEW n \in Nat \ {0}
  PROVE  /\ FourDecimals(p, t + n) <= FourDecimals(p, t)
         /\ FourDecimals(p, t) <= FourDecimals(p + n, t + n)
         /\ FourDecimals(p, t) \in Nat /\ FourDecimals(p, t + n) \in Nat
         /\ FourDecimals(p + n, t + n) \in Nat
<1>1. /\ Whole * p = 10000 * p /\ Whole * (p + n) = 10000 * (p + n)
      /\ 10000 * p \in Nat /\ 10000 * (p + n) \in Nat /\ t + n \in Nat \ {0}
  BY DEF Whole
<1>2. (10000 * p) * t <= (10000 * p) * (t + n)
  BY <1>1, ProductsCompare
<1>3. (10000 * p) * (t + n) <= (10000 * (p + n)) * t
  <2>1. n * p <= n * t
    BY ProductsCompare
  <2>2. p * (t + n) <= (p + n) * t
    BY <2>1
  <2>3. /\ (10000 * p) * (t + n) = 10000 * (p * (t + n))
        /\ (10000 * (p + n)) * t = 10000 * ((p + n) * t)
    OBVIOUS
  <2>4. p * (t + n) \in Nat /\ (p + n) * t \in Nat
    OBVIOUS
  <2> QED
    BY <2>2, <2>3, <2>4
<1>4. RoundHalfEven(10000 * p, t + n) <= RoundHalfEven(10000 * p, t)
  BY <1>1, <1>2, RoundingIsMonotone
<1>5. RoundHalfEven(10000 * p, t) <= RoundHalfEven(10000 * (p + n), t + n)
  <2> DEFINE x == 10000 * (p + n)
             y == t + n
  <2>1. x \in Nat /\ y \in Nat \ {0} /\ 10000 * p \in Nat /\ (10000 * p) * y <= x * t
    BY <1>1, <1>3
  <2> HIDE DEF x, y
  <2>2. RoundHalfEven(10000 * p, t) <= RoundHalfEven(x, y)
    BY <2>1, RoundingIsMonotone
  <2> QED
    BY <2>2 DEF x, y
<1>6. /\ RoundHalfEven(10000 * p, t) \in Nat /\ RoundHalfEven(10000 * p, t + n) \in Nat
      /\ RoundHalfEven(10000 * (p + n), t + n) \in Nat
  BY <1>1, RoundsToNearest
<1> QED
  BY <1>1, <1>4, <1>5, <1>6 DEF FourDecimals

\* Where nothing passed the rate is nothing.
LEMMA RateOfNothing ==
  ASSUME NEW n \in Nat \ {0}
  PROVE  FourDecimals(0, n) = 0
<1>1. 0 \div n = 0 /\ 0 % n = 0 /\ Whole * 0 = 0
  BY DEF Whole
<1> QED
  BY <1>1 DEF FourDecimals, RoundHalfEven

\* One more result: rows become longer by a batch that passes or fails.
LEMMA GateMoves ==
  ASSUME NEW rows \in Seq(CaseResult), NEW longer \in Seq(CaseResult),
         Extends(longer, rows), NEW minimum \in Nat
  PROVE  IF passed(longer[Len(longer)])
           THEN Open(rows, minimum) => Open(longer, minimum)
           ELSE Open(longer, minimum) =>
                  Open(rows, minimum) \/ (minimum = 0 /\ rows = <<>>)
<1> DEFINE N == Len(rows)
           t == SumOf(rows, 1 .. N)
           p == SumOf(rows, PassingIn(rows))
           u == SumOf(longer, 1 .. N + 1)
           q == SumOf(longer, PassingIn(longer))
           latest == longer[N + 1]
           n == latest.times
<1>1. /\ Batches(rows) /\ DOMAIN rows = 1 .. N /\ N \in Nat
      /\ Batches(longer) /\ DOMAIN longer = 1 .. N + 1 /\ Len(longer) = N + 1
  BY ResultsAreBatches DEF Extends
<1>2. n \in Nat \ {0} /\ N + 1 \in 1 .. N + 1 /\ \A k \in 1 .. N : k \in 1 .. N + 1
  BY <1>1 DEF Batches
<1>3. u = t + n
  <2>1. Continues(1 .. N + 1, 1 .. N, N)
    BY <1>2 DEF Continues
  <2> QED
    BY <1>1, <1>2, <2>1, SumsOfMore
<1>4. q = p + (IF passed(latest) THEN n ELSE 0)
  <2>1. Continues(PassingIn(longer), PassingIn(rows), N)
    BY <1>1, <1>2 DEF Continues, PassingIn, Extends
  <2>2. N + 1 \in PassingIn(longer) <=> passed(latest)
    BY <1>1, <1>2 DEF PassingIn
  <2>3. q = p + (IF N + 1 \in PassingIn(longer) THEN n ELSE 0)
    BY <1>1, <2>1, SumsOfMore
  <2> QED
    BY <2>2, <2>3
<1>5. t \in Nat /\ p \in Nat /\ p <= t /\ (t = 0 <=> N = 0)
  <2>1. PassingIn(rows) \subseteq 1 .. N
    BY <1>1 DEF PassingIn
  <2> QED
    BY <1>1, <2>1, SumsOfParts
<1>6. /\ Open(rows, minimum) <=> t > 0 /\ FourDecimals(p, t) >= minimum
      /\ Open(longer, minimum) <=> u > 0 /\ FourDecimals(q, u) >= minimum
  BY <1>1 DEF Open
<1>7. N = 0 => rows = <<>>
  OBVIOUS
<1> HIDE DEF N, t, p, u, q, n
<1>8. CASE t = 0
  <2>1. p = 0 /\ rows = <<>> /\ ~Open(rows, minimum)
    BY <1>5, <1>6, <1>7, <1>8
  <2>2. ASSUME ~passed(latest), Open(longer, minimum)
        PROVE  minimum = 0
    <3>1. q = 0 /\ u = n
      BY <1>2, <1>3, <1>4, <1>8, <2>1, <2>2
    <3>2. FourDecimals(q, u) = 0
      BY <1>2, <3>1, RateOfNothing
    <3> QED
      BY <1>6, <2>2, <3>2
  <2> QED
    BY <1>1, <2>1, <2>2
<1>9. CASE t # 0
  <2>0. t \in Nat \ {0} /\ t > 0 /\ u > 0
    BY <1>2, <1>3, <1>5, <1>9
  <2>1. /\ FourDecimals(p, t + n) <= FourDecimals(p, t)
        /\ FourDecimals(p, t) <= FourDecimals(p + n, t + n)
        /\ FourDecimals(p, t) \in Nat /\ FourDecimals(p, t + n) \in Nat
        /\ FourDecimals(p + n, t + n) \in Nat
    BY <1>2, <1>5, <2>0, RatesMove
  <2>2. CASE passed(latest)
    <3>1. q = p + n
      BY <1>4, <2>2
    <3> QED
      BY <1>1, <1>3, <1>6, <2>0, <2>1, <2>2, <3>1
  <2>3. CASE ~passed(latest)
    <3>1. q = p
      BY <1>4, <1>5, <2>3
    <3> QED
      BY <1>1, <1>3, <1>6, <2>0, <2>1, <2>3, <3>1
  <2> QED
    BY <2>2, <2>3
<1> QED
  BY <1>8, <1>9

\* A step of the harness is such a result.
LEMMA GateSteps ==
  ASSUME InputsTyped, InputsTyped', [Next]_vars, results' # results,
         NEW minimum \in MinimumRate
  PROVE  LET latest == results'[Len(results')]
         IN  IF latest.expected # latest.actual
               THEN summarize(minimum)'.gate_passed =>
                      \/ summarize(minimum).gate_passed
                      \/ minimum = 0 /\ results = <<>>
               ELSE summarize(minimum).gate_passed => summarize(minimum)'.gate_passed
<1> DEFINE N == Len(results)
           latest == results'[Len(results')]
<1>1. results \in Seq(CaseResult) /\ results' \in Seq(CaseResult)
  BY DEF InputsTyped
<1>2. \E b : results' = Append(results, b)
  BY DEF Next, vars, inputs, measured, Retrieve, EmitClaim, CutOff, Wrap, AddGrant, Write,
         RetrievePassage, Observe, RunCases, Evaluate
<1>3. Extends(results', results) /\ N \in Nat /\ Len(results') = N + 1
  BY <1>1, <1>2 DEF Extends
<1>4. latest \in CaseResult
  <2>1. N + 1 \in 1 .. N + 1
    BY <1>3
  <2> HIDE DEF N
  <2> QED
    BY <1>1, <1>3, <2>1
<1>5. passed(latest) <=> latest.expected = latest.actual
  BY <1>4, VerdictsDiffer
<1>6. minimum \in Nat
  BY EvaluationAssumption
<1>7. summarize(minimum).gate_passed <=> Open(results, minimum)
  BY <1>6, GateIsOpen DEF GateReadsResults
<1>8. summarize(minimum)'.gate_passed <=> Open(results', minimum)
  <2>1. GateReadsResults'
    BY GateIsOpen, PTL
  <2> QED
    BY <1>6, <2>1 DEF GateReadsResults
<1> HIDE DEF latest
<1>9. IF passed(latest)
        THEN Open(results, minimum) => Open(results', minimum)
        ELSE Open(results', minimum) =>
               Open(results, minimum) \/ (minimum = 0 /\ results = <<>>)
  BY <1>1, <1>3, <1>6, GateMoves DEF latest
<1>10. CASE passed(latest)
  BY <1>5, <1>7, <1>8, <1>9, <1>10 DEF latest
<1>11. CASE ~passed(latest)
  BY <1>5, <1>7, <1>8, <1>9, <1>11 DEF latest
<1> QED
  BY <1>10, <1>11

\* While four decimals tell one failure apart, a gate that requires a perfect rate
\* is open only if no case diverged.
THEOREM PerfectRateIsExact == Spec => []PerfectGateIsExact
  BY PerfectIsExact, InputsAlwaysTyped, PTL

\* A diverging case never opens the gate of a contract that requires something, and
\* a conforming one never closes it.
THEOREM GateMovesRight == Spec => GateMovesTheRightWay
<1>1. ASSUME InputsTyped, InputsTyped', [Next]_vars, results' # results
      PROVE  LET latest == results'[Len(results')]
             IN  \A minimum \in MinimumRate :
                   IF latest.expected # latest.actual
                     THEN summarize(minimum)'.gate_passed =>
                            \/ summarize(minimum).gate_passed
                            \/ minimum = 0 /\ results = <<>>
                     ELSE summarize(minimum).gate_passed => summarize(minimum)'.gate_passed
  BY <1>1, GateSteps
<1> QED
  BY <1>1, InputsAlwaysTyped, PTL DEF GateMovesTheRightWay, Spec

===============================================================================
