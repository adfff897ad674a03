---------------------------- MODULE DecisionProofs ----------------------------
(***************************************************************************)
(* What the decision function and the evidence gate return, for any        *)
(* response, any retrieved set and any thresholds.                         *)
(*                                                                         *)
(* The window of the gate is defined by counting: an item is in it if      *)
(* fewer than TopK items come before it.  How many items that makes        *)
(* follows from the ranks: a strict total order of n positions gives each  *)
(* of the numbers 0 .. n - 1 to exactly one position.                      *)
(***************************************************************************)
EXTENDS DecisionFunction, EvidenceGate, FiniteSetTheorems, FunctionTheorems, TLAPS

-------------------------------------------------------------------------------
(***************************************************************************)
(* Positions, ranks and counts.                                            *)
(***************************************************************************)
LEMMA FirstOfPositions ==
  ASSUME NEW S, S \subseteq Nat, S # {}
  PROVE  \E i \in S : \A j \in S : i <= j
<1>1. PICK i \in S : \A j \in S : ~(<<j, i>> \in OpToRel(<, Nat))
  BY NatLessThanWellFounded, WFMin
<1>2. \A j \in S : ~(j < i)
  BY <1>1 DEF OpToRel
<1> QED
  BY <1>2

\* Positions of a sequence can be counted, and are no more than its length.
LEMMA PositionsAreCounted ==
  ASSUME NEW n \in Nat, NEW S, S \subseteq 1 .. n
  PROVE  IsFiniteSet(S) /\ Cardinality(S) \in Nat /\ Cardinality(S) <= n
<1>1. IsFiniteSet(1 .. n) /\ Cardinality(1 .. n) = n
  BY FS_Interval
<1> QED
  BY <1>1, FS_Subset, FS_CardinalityType

\* A rearrangement of positions confuses no two of them.
Rearranges(p, n) ==
  p \in [1 .. n -> 1 .. n] /\ \A i, j \in 1 .. n : p[i] = p[j] => i = j

\* It takes the positions in S, and no other, to positions in T.
Carries(p, n, S, T) ==
  /\ S \subseteq 1 .. n /\ T \subseteq 1 .. n
  /\ \A i \in 1 .. n : i \in S <=> p[i] \in T

\* So it reaches all positions,
LEMMA RearrangementIsBijection ==
  ASSUME NEW n \in Nat, NEW p, Rearranges(p, n)
  PROVE  \A j \in 1 .. n : \E i \in 1 .. n : p[i] = j
<1>1. p \in Injection(1 .. n, 1 .. n)
  BY Fun_IsInj DEF Rearranges
<1>2. IsFiniteSet(1 .. n)
  BY FS_Interval
<1>3. p \in Surjection(1 .. n, 1 .. n)
  BY <1>1, <1>2, FS_Injection
<1> QED
  BY <1>3 DEF Surjection

\* and as many positions satisfy a condition before it as after it.
LEMMA RearrangementKeepsCounts ==
  ASSUME NEW n \in Nat, NEW p, Rearranges(p, n),
         NEW S, NEW T, Carries(p, n, S, T)
  PROVE  Cardinality(S) = Cardinality(T)
<1> DEFINE f == [i \in S |-> p[i]]
<1>1. f \in [S -> T] /\ \A a, b \in S : f[a] = f[b] => a = b
  BY DEF Rearranges, Carries
<1>2. \A t \in T : \E s \in S : f[s] = t
  <2>1. \A t \in 1 .. n : \E s \in 1 .. n : p[s] = t
    BY RearrangementIsBijection
  <2> QED
    BY <2>1 DEF Carries
<1>3. f \in Bijection(S, T)
  BY <1>1, <1>2, Fun_IsBij
<1>4. ExistsBijection(S, T)
  BY <1>3 DEF ExistsBijection
<1>5. IsFiniteSet(S)
  BY PositionsAreCounted DEF Carries
<1> QED
  BY <1>4, <1>5, FS_Bijection

\* The positions that come before j in the order R.
Before(R, n, j) == {i \in 1 .. n : <<i, j>> \in R}

OrdersStrictly(R, n) ==
  /\ \A i \in 1 .. n : <<i, i>> \notin R
  /\ \A i, j \in 1 .. n : i = j \/ <<i, j>> \in R \/ <<j, i>> \in R
  /\ \A i, j, k \in 1 .. n : <<i, j>> \in R /\ <<j, k>> \in R => <<i, k>> \in R

RankOf(R, n) == [j \in 1 .. n |-> Cardinality(Before(R, n, j))]

\* Every rank from 0 to n - 1 is the rank of exactly one position.
LEMMA RanksAreDistinct ==
  ASSUME NEW n \in Nat, NEW R, OrdersStrictly(R, n)
  PROVE  RankOf(R, n) \in Bijection(1 .. n, 0 .. n - 1)
<1> DEFINE B(j) == Before(R, n, j)
           C(j) == Cardinality(B(j))
<1>1. \A j \in 1 .. n : B(j) \subseteq 1 .. n /\ j \notin B(j)
  BY DEF Before, OrdersStrictly
<1>2. \A j \in 1 .. n : IsFiniteSet(B(j)) /\ C(j) \in Nat
  BY <1>1, PositionsAreCounted
<1>3. \A j \in 1 .. n : /\ IsFiniteSet(B(j) \cup {j})
                        /\ Cardinality(B(j) \cup {j}) = C(j) + 1
  BY <1>1, <1>2, FS_AddElement
<1>4. \A j \in 1 .. n : C(j) \in 0 .. n - 1
  <2> SUFFICES ASSUME NEW j \in 1 .. n PROVE C(j) \in 0 .. n - 1
    OBVIOUS
  <2>1. Cardinality(B(j) \cup {j}) <= n
    BY <1>1, PositionsAreCounted
  <2> HIDE DEF C
  <2> QED
    BY <1>2, <1>3, <2>1
<1>5. ASSUME NEW i \in 1 .. n, NEW j \in 1 .. n, <<i, j>> \in R
      PROVE  C(i) < C(j)
  <2>1. B(i) \cup {i} \subseteq B(j)
    BY <1>5 DEF Before, OrdersStrictly
  <2>2. Cardinality(B(i) \cup {i}) <= C(j)
    BY <1>2, <2>1, FS_Subset
  <2> HIDE DEF C
  <2> QED
    BY <1>2, <1>3, <2>2
<1>6. \A i, j \in 1 .. n : C(i) = C(j) => i = j
  <2> SUFFICES ASSUME NEW i \in 1 .. n, NEW j \in 1 .. n, C(i) = C(j), i # j
               PROVE  FALSE
    OBVIOUS
  <2>1. C(i) < C(j) \/ C(j) < C(i)
    BY <1>5 DEF OrdersStrictly
  <2> HIDE DEF C
  <2> QED
    BY <1>2, <2>1
<1>7. RankOf(R, n) \in [1 .. n -> 0 .. n - 1]
  BY <1>4 DEF RankOf
<1>8. RankOf(R, n) \in Injection(1 .. n, 0 .. n - 1)
  <2>1. \A i, j \in 1 .. n : RankOf(R, n)[i] = RankOf(R, n)[j] => i = j
    BY <1>6 DEF RankOf
  <2> QED
    BY <1>7, <2>1, Fun_IsInj
<1>9. IsFiniteSet(0 .. n - 1) /\ Cardinality(0 .. n - 1) = n
  BY FS_Interval
<1>10. Cardinality(1 .. n) = n
  BY FS_Interval
<1>11. RankOf(R, n) \in Surjection(1 .. n, 0 .. n - 1)
  BY <1>8, <1>9, <1>10, FS_Injection
<1> QED
  BY <1>8, <1>11 DEF Bijection

\* So k positions have a rank below k, unless there are fewer than k.
LEMMA RanksBelow ==
  ASSUME NEW n \in Nat, NEW R, OrdersStrictly(R, n), NEW k \in Nat, NEW S,
         \A j \in 1 .. n : j \in S <=> Cardinality(Before(R, n, j)) < k,
         S \subseteq 1 .. n
  PROVE  Cardinality(S) = IF n < k THEN n ELSE k
<1> DEFINE m == IF n < k THEN n ELSE k
           f == [j \in S |-> RankOf(R, n)[j]]
<1>1. RankOf(R, n) \in Bijection(1 .. n, 0 .. n - 1)
  BY RanksAreDistinct
<1>2. /\ RankOf(R, n) \in [1 .. n -> 0 .. n - 1]
      /\ \A a, b \in 1 .. n : RankOf(R, n)[a] = RankOf(R, n)[b] => a = b
      /\ \A t \in 0 .. n - 1 : \E s \in 1 .. n : RankOf(R, n)[s] = t
  BY <1>1 DEF Bijection, Injection, Surjection, IsInjective
<1>3. \A j \in 1 .. n : j \in S <=> RankOf(R, n)[j] < k
  BY DEF RankOf
<1>4. f \in [S -> 0 .. m - 1]
  BY <1>2, <1>3
<1>5. \A a, b \in S : f[a] = f[b] => a = b
  BY <1>2
<1>6. \A t \in 0 .. m - 1 : \E s \in S : f[s] = t
  BY <1>2, <1>3
<1>7. f \in Bijection(S, 0 .. m - 1)
  BY <1>4, <1>5, <1>6, Fun_IsBij
<1>8. ExistsBijection(S, 0 .. m - 1)
  BY <1>7 DEF ExistsBijection
<1>9. IsFiniteSet(S)
  BY PositionsAreCounted
<1>10. Cardinality(0 .. m - 1) = Cardinality(S)
  BY <1>8, <1>9, FS_Bijection
<1>11. Cardinality(0 .. m - 1) = m
  <2>1. m \in Nat
    OBVIOUS
  <2> HIDE DEF m
  <2> QED
    BY <2>1, FS_Interval
<1> QED
  BY <1>10, <1>11

-------------------------------------------------------------------------------
(***************************************************************************)
(* The decision function.                                                  *)
(***************************************************************************)
LEMMA CountsTyped ==
  ASSUME NEW claims \in Seq(Claim)
  PROVE  from_claims(claims) \in ClaimCounts
<1>1. DOMAIN claims = 1 .. Len(claims) /\ Len(claims) \in Nat
  OBVIOUS
<1>2. \A v : VerdictCount(claims, v) \in Nat
  BY <1>1, PositionsAreCounted DEF VerdictCount
<1> QED
  BY <1>1, <1>2 DEF from_claims, ClaimCounts

\* A claim without defect parses to a claim.
LEMMA SoundClaimParses ==
  ASSUME NEW raw \in RawClaim, ClaimDefect(raw) = None
  PROVE  [raw EXCEPT !.text = StrOfText(raw.text)] \in Claim
<1>1. raw.verdict \in ClaimVerdict /\ ClaimIsValid(raw)
  BY DEF RawClaim, ClaimDefect, ClaimVerdict, None
<1>2. StrOfText(raw.text) \in {"None", "words"}
  BY <1>1 DEF ClaimIsValid, StrOfText, RawClaim
<1>3. raw.evidence_ref \in {None, "ref"}
  BY <1>1 DEF ClaimIsValid, RawClaim
<1> QED
  BY <1>1, <1>2, <1>3 DEF RawClaim, Claim

\* The parser names a controlled reason, and names none only for claims that all
\* parse.
LEMMA ParserAnswers ==
  ASSUME NEW claims \in Seq(RawClaim)
  PROVE  /\ ParseFailure(claims) \in ParseCode \cup {None}
         /\ ParseFailure(claims) = None => parse_claims(claims) \in Seq(Claim)
<1>1. DOMAIN claims = 1 .. Len(claims) /\ Len(claims) \in Nat
  OBVIOUS
<1>2. \A raw : ClaimDefect(raw) \in ParseCode \cup {None}
  BY DEF ClaimDefect, ParseCode
<1>3. CASE Defective(claims) = {}
  <2>1. ParseFailure(claims) = None
    BY <1>3 DEF ParseFailure
  <2>2. \A i \in DOMAIN claims : ClaimDefect(claims[i]) = None
    BY <1>3 DEF Defective
  <2>3. parse_claims(claims) \in [1 .. Len(claims) -> Claim]
    BY <1>1, <2>2, SoundClaimParses DEF parse_claims
  <2> QED
    BY <1>1, <2>1, <2>3
<1>4. CASE Defective(claims) # {}
  <2>1. Defective(claims) \subseteq Nat
    BY <1>1 DEF Defective
  <2>2. \E i \in Defective(claims) : \A j \in Defective(claims) : i <= j
    BY <1>4, <2>1, FirstOfPositions
  <2>3. \E i \in Defective(claims) : ParseFailure(claims) = ClaimDefect(claims[i])
    BY <1>4, <2>2 DEF ParseFailure
  <2> QED
    BY <1>2, <2>3 DEF Defective
<1> QED
  BY <1>3, <1>4

\* The parser stops at the first claim that has a defect, and names that defect.
LEMMA ParserFindsFirst ==
  ASSUME NEW claims \in Seq(RawClaim)
  PROVE  /\ Defective(claims) = {} => ParseFailure(claims) = None
         /\ Defective(claims) # {} =>
              \E first \in Defective(claims) :
                /\ \A j \in Defective(claims) : first <= j
                /\ ParseFailure(claims) = ClaimDefect(claims[first])
                /\ ParseFailure(claims) # None
<1>1. CASE Defective(claims) = {}
  BY <1>1 DEF ParseFailure
<1>2. CASE Defective(claims) # {}
  <2>1. Defective(claims) \subseteq Nat
    BY DEF Defective
  <2>2. \E i \in Defective(claims) : \A j \in Defective(claims) : i <= j
    BY <1>2, <2>1, FirstOfPositions
  <2>3. \E first \in Defective(claims) :
          /\ \A j \in Defective(claims) : first <= j
          /\ ParseFailure(claims) = ClaimDefect(claims[first])
    BY <1>2, <2>2 DEF ParseFailure
  <2>4. \A i \in Defective(claims) : ClaimDefect(claims[i]) # None
    BY DEF Defective
  <2> QED
    BY <1>2, <2>3, <2>4
<1> QED
  BY <1>1, <1>2

\* Parsing changes nothing that decide() judges.
LEMMA ParsedAsGiven ==
  ASSUME NEW claims \in Seq(RawClaim)
  PROVE  /\ DOMAIN parse_claims(claims) = DOMAIN claims
         /\ parse_claims(claims) = <<>> <=> claims = <<>>
         /\ \A i \in DOMAIN claims :
              /\ parse_claims(claims)[i].verdict = claims[i].verdict
              /\ parse_claims(claims)[i].limits = claims[i].limits
         /\ from_claims(parse_claims(claims)) = from_claims(claims)
         /\ SelectStrategy(parse_claims(claims)) = SelectStrategy(claims)
         /\ ClaimsFailure(parse_claims(claims)) = ClaimsFailure(claims)
<1> DEFINE parsed == parse_claims(claims)
<1>1. /\ DOMAIN claims = 1 .. Len(claims) /\ Len(claims) \in Nat
      /\ \A i \in DOMAIN claims : claims[i] \in RawClaim
  OBVIOUS
<1>2. /\ DOMAIN parsed = DOMAIN claims
      /\ \A i \in DOMAIN claims : /\ parsed[i].verdict = claims[i].verdict
                                  /\ parsed[i].limits = claims[i].limits
  BY <1>1 DEF parse_claims, RawClaim
<1>3. parsed \in Seq({parsed[i] : i \in DOMAIN parsed})
  BY <1>1, <1>2 DEF parse_claims
<1> HIDE DEF parsed
<1>4. Len(parsed) = Len(claims) /\ (parsed = <<>> <=> claims = <<>>)
  BY <1>1, <1>2, <1>3
<1>5. \A v : VerdictCount(parsed, v) = VerdictCount(claims, v)
  <2>1. \A v : {i \in DOMAIN parsed : parsed[i].verdict = v}
               = {i \in DOMAIN claims : claims[i].verdict = v}
    BY <1>2
  <2> QED
    BY <2>1 DEF VerdictCount
<1>6. from_claims(parsed) = from_claims(claims)
  BY <1>4, <1>5 DEF from_claims
<1>7. SelectStrategy(parsed) = SelectStrategy(claims)
  BY <1>2 DEF SelectStrategy
<1>8. {i \in DOMAIN parsed : parsed[i].verdict = "SUPPORTED"}
      = {i \in DOMAIN claims : claims[i].verdict = "SUPPORTED"}
  BY <1>2
<1>9. ClaimsFailure(parsed) = ClaimsFailure(claims)
  BY <1>2, <1>4, <1>8 DEF ClaimsFailure
<1> QED
  BY <1>2, <1>4, <1>6, <1>7, <1>9 DEF parsed

\* A verifier's response may ground: it is complete, says the question is
\* addressed, and has claims, all of them SUPPORTED.
Grounds(response) ==
  /\ ~response.truncated
  /\ response.answers_question = "true"
  /\ response.claims # <<>>
  /\ \A i \in DOMAIN response.claims : response.claims[i].verdict = "SUPPORTED"

MayGround(response) == Grounds(response) /\ Defective(response.claims) = {}

\* What a mechanism may respond, whatever it calls itself.
IsResponse(response) ==
  /\ response.claims \in Seq(RawClaim)
  /\ response.truncated \in BOOLEAN
  /\ response.answers_question \in {None, "true", "false"}

\* decide() grounds exactly the responses that are complete, answer the question
\* and consist of claims that parse and are all SUPPORTED; it measures claims
\* exactly if they were all parsed, bounds a grounding exactly if a claim states a
\* limit, and gives the first reason there is to refuse.
THEOREM DecideIsExact ==
  ASSUME NEW response, IsResponse(response)
  PROVE  /\ decide(response).outcome = IF MayGround(response) THEN "GROUNDED" ELSE "REFUSED"
         /\ decide(response).strategy =
              IF MayGround(response) THEN SelectStrategy(response.claims) ELSE None
         /\ decide(response).claim_counts =
              IF response.truncated \/ Defective(response.claims) # {}
                THEN not_measured ELSE from_claims(response.claims)
         /\ decide(response).mechanism = response.mechanism
         /\ decide(response).reason_code =
              IF response.truncated THEN "verifier_output_truncated"
              ELSE IF Defective(response.claims) # {} THEN ParseFailure(response.claims)
              ELSE IF ClaimsFailure(response.claims) # None
                THEN ClaimsFailure(response.claims)
              ELSE RelevanceFailure(response.answers_question)
<1> DEFINE claims == response.claims
           parsed == parse_claims(claims)
           d == decide(response)
<1>1. /\ claims \in Seq(RawClaim) /\ response.truncated \in BOOLEAN
      /\ response.answers_question \in {None, "true", "false"}
  BY DEF IsResponse
<1>2. ParseFailure(claims) # None <=> Defective(claims) # {}
  BY <1>1, ParserFindsFirst
<1>3. /\ from_claims(parsed) = from_claims(claims)
      /\ SelectStrategy(parsed) = SelectStrategy(claims)
      /\ ClaimsFailure(parsed) = ClaimsFailure(claims)
  BY <1>1, ParsedAsGiven
<1>4. ClaimsFailure(claims) = None <=>
        claims # <<>> /\ \A i \in DOMAIN claims : claims[i].verdict = "SUPPORTED"
  <2>1. {i \in DOMAIN claims : claims[i].verdict = "SUPPORTED"} = DOMAIN claims
        <=> \A i \in DOMAIN claims : claims[i].verdict = "SUPPORTED"
    OBVIOUS
  <2>2. DOMAIN claims = {} => claims = <<>>
    <3>1. /\ DOMAIN claims = 1 .. Len(claims) /\ Len(claims) \in Nat
          /\ claims = <<>> <=> Len(claims) = 0
      BY <1>1
    <3>2. Len(claims) # 0 => 1 \in DOMAIN claims
      BY <3>1
    <3> QED
      BY <3>1, <3>2
  <2>3. ClaimsFailure(claims) = None <=>
          /\ claims # <<>>
          /\ {i \in DOMAIN claims : claims[i].verdict = "SUPPORTED"} = DOMAIN claims
    BY <2>2 DEF ClaimsFailure, None
  <2> QED
    BY <2>1, <2>3
<1>5. RelevanceFailure(response.answers_question) = None
        <=> response.answers_question = "true"
  BY <1>1 DEF RelevanceFailure, None
<1>6. MayGround(response) <=>
        /\ ~response.truncated /\ ParseFailure(claims) = None
        /\ ClaimsFailure(claims) = None
        /\ RelevanceFailure(response.answers_question) = None
  BY <1>1, <1>2, <1>4, <1>5 DEF MayGround, Grounds
<1>7. CASE response.truncated
  <2>1. d = Refuse("verifier_output_truncated", response.mechanism, <<>>, not_measured)
    BY <1>7 DEF decide
  <2> QED
    BY <1>6, <1>7, <2>1 DEF Refuse
<1>8. CASE ~response.truncated /\ ParseFailure(claims) # None
  <2>1. d = Refuse(ParseFailure(claims), response.mechanism, <<>>, not_measured)
    BY <1>8 DEF decide
  <2> QED
    BY <1>2, <1>6, <1>8, <2>1 DEF Refuse
<1>9. CASE /\ ~response.truncated /\ ParseFailure(claims) = None
           /\ ~MayGround(response)
  <2>1. d = Refuse(IF ClaimsFailure(claims) # None THEN ClaimsFailure(claims)
                   ELSE RelevanceFailure(response.answers_question),
                   response.mechanism, parsed, from_claims(parsed))
    BY <1>3, <1>6, <1>9 DEF decide
  <2> QED
    BY <1>2, <1>3, <1>9, <2>1 DEF Refuse
<1>10. CASE MayGround(response)
  <2>1. d = Ground(SelectStrategy(parsed), response.mechanism, parsed)
    BY <1>3, <1>6, <1>10 DEF decide
  <2> QED
    BY <1>2, <1>3, <1>6, <1>10, <2>1 DEF Ground
<1> QED
  BY <1>1, <1>7, <1>8, <1>9, <1>10

-------------------------------------------------------------------------------
(***************************************************************************)
(* The evidence gate.                                                      *)
(***************************************************************************)
Order(items) ==
  {e \in (DOMAIN items) \X (DOMAIN items) : Precedes(items, e[1], e[2])}

LEMMA ItemsTyped ==
  ASSUME NEW items \in EvidenceSet
  PROVE  /\ Len(items) \in Nat /\ DOMAIN items = 1 .. Len(items)
         /\ \A i \in DOMAIN items : items[i].id \in Nat /\ items[i].score \in Nat
         /\ MinScore \in Nat /\ MinChunks \in Nat \ {0} /\ TopK \in Nat \ {0}
<1>1. Len(items) \in Nat /\ DOMAIN items = 1 .. Len(items)
  BY DEF EvidenceSet
<1>2. \A i \in DOMAIN items : items[i] \in EvidenceItem
  BY DEF EvidenceSet
<1>3. \A i \in DOMAIN items : items[i].id \in Nat /\ items[i].score \in 0 .. 100
  BY <1>2 DEF EvidenceItem
<1>4. \A i \in DOMAIN items : items[i].score \in Nat
  BY <1>3
<1> QED
  BY <1>1, <1>3, <1>4, GateAssumption

\* Score, identifier and position leave no two items in doubt.
LEMMA PrecedesIsStrict ==
  ASSUME NEW items \in EvidenceSet
  PROVE  OrdersStrictly(Order(items), Len(items))
<1> DEFINE before(i, j) == Precedes(items, i, j)
<1>1. /\ DOMAIN items = 1 .. Len(items)
      /\ \A i \in DOMAIN items : items[i].id \in Nat /\ items[i].score \in Nat
      /\ DOMAIN items \subseteq Nat
  BY ItemsTyped
<1>2. /\ \A i \in DOMAIN items : ~before(i, i)
      /\ \A i, j \in DOMAIN items : i = j \/ before(i, j) \/ before(j, i)
      /\ \A i, j, k \in DOMAIN items : before(i, j) /\ before(j, k) => before(i, k)
  BY <1>1 DEF Precedes
<1>3. \A i, j \in DOMAIN items : <<i, j>> \in Order(items) <=> before(i, j)
  BY DEF Order
<1> QED
  BY <1>1, <1>2, <1>3 DEF OrdersStrictly

\* The window holds as many items as fit, and the best of all that were retrieved.
LEMMA WindowIsFull ==
  ASSUME NEW items \in EvidenceSet
  PROVE  /\ Window(items) \subseteq DOMAIN items
         /\ Cardinality(Window(items)) \in Nat
         /\ Cardinality(Window(items)) = IF Len(items) < TopK THEN Len(items) ELSE TopK
         /\ items # <<>> =>
              \E best \in Window(items) :
                \A j \in DOMAIN items : items[j].score <= items[best].score
<1>1. /\ Len(items) \in Nat /\ DOMAIN items = 1 .. Len(items) /\ TopK \in Nat \ {0}
      /\ \A i \in DOMAIN items : items[i].id \in Nat /\ items[i].score \in Nat
  BY ItemsTyped
<1>2. OrdersStrictly(Order(items), Len(items))
  BY PrecedesIsStrict
<1>3. \A j \in DOMAIN items : {i \in DOMAIN items : Precedes(items, i, j)}
                               = Before(Order(items), Len(items), j)
  BY <1>1 DEF Before, Order
<1>4. /\ Window(items) \subseteq DOMAIN items
      /\ \A j \in DOMAIN items :
           j \in Window(items) <=> Cardinality(Before(Order(items), Len(items), j)) < TopK
  BY <1>3 DEF Window
<1>5. Cardinality(Window(items)) = IF Len(items) < TopK THEN Len(items) ELSE TopK
  BY <1>1, <1>2, <1>4, RanksBelow
<1>6. ASSUME items # <<>>
      PROVE  \E best \in Window(items) :
               \A j \in DOMAIN items : items[j].score <= items[best].score
  <2>1. RankOf(Order(items), Len(items)) \in Bijection(1 .. Len(items), 0 .. Len(items) - 1)
    BY <1>1, <1>2, RanksAreDistinct
  <2>2. 0 \in 0 .. Len(items) - 1
    BY <1>1, <1>6 DEF EvidenceSet
  <2>3. PICK best \in DOMAIN items : RankOf(Order(items), Len(items))[best] = 0
    BY <1>1, <2>1, <2>2 DEF Bijection, Surjection
  <2>4. Cardinality(Before(Order(items), Len(items), best)) = 0
    BY <1>1, <2>3 DEF RankOf
  <2>5. IsFiniteSet(Before(Order(items), Len(items), best))
    BY <1>1, PositionsAreCounted DEF Before
  <2>6. \A j \in DOMAIN items : ~Precedes(items, j, best)
    BY <1>3, <2>4, <2>5, FS_EmptySet
  <2>7. \A j \in DOMAIN items : items[j].score <= items[best].score
    BY <1>1, <2>6 DEF Precedes
  <2>8. best \in Window(items)
    BY <1>1, <1>4, <2>4
  <2> QED
    BY <2>7, <2>8
<1> QED
  BY <1>1, <1>4, <1>5, <1>6

\* The score the gate judges is the best of all that were retrieved.
LEMMA TopScoreIsBest ==
  ASSUME NEW items \in EvidenceSet, items # <<>>
  PROVE  /\ Window(items) # {}
         /\ \E best \in DOMAIN items :
              /\ top_score(items, Window(items)) = items[best].score
              /\ \A j \in DOMAIN items : items[j].score <= items[best].score
<1>1. /\ Window(items) \subseteq DOMAIN items
      /\ \A i \in DOMAIN items : items[i].score \in Nat
  BY ItemsTyped, WindowIsFull
<1>2. PICK first \in Window(items) :
        \A j \in DOMAIN items : items[j].score <= items[first].score
  BY WindowIsFull
<1>3. \E i \in Window(items) : \A j \in Window(items) : items[j].score <= items[i].score
  BY <1>1, <1>2
<1>4. PICK i \in Window(items) :
        /\ top_score(items, Window(items)) = items[i].score
        /\ \A j \in Window(items) : items[j].score <= items[i].score
  BY <1>3 DEF top_score
<1>5. items[first].score <= items[i].score
  BY <1>4
<1>6. \A j \in DOMAIN items : items[j].score <= items[i].score
  BY <1>1, <1>2, <1>5
<1> QED
  BY <1>1, <1>4, <1>6

\* The gate reports "empty" exactly for the empty set, and opens exactly if enough
\* items were retrieved, the window can hold that many, and one of the items
\* reaches the bar (evaluate_gate()).
THEOREM GateIsExact ==
  ASSUME NEW items \in EvidenceSet
  PROVE  /\ evaluate_gate(items) = "empty" <=> items = <<>>
         /\ evaluate_gate(items) = "sufficient" <=>
              /\ Len(items) >= MinChunks /\ TopK >= MinChunks
              /\ \E i \in DOMAIN items : items[i].score >= MinScore
<1>1. /\ Len(items) \in Nat /\ DOMAIN items = 1 .. Len(items)
      /\ \A i \in DOMAIN items : items[i].score \in Nat
      /\ MinScore \in Nat /\ MinChunks \in Nat \ {0} /\ TopK \in Nat \ {0}
  BY ItemsTyped
<1>2. /\ Window(items) \subseteq DOMAIN items
      /\ Cardinality(Window(items)) = IF Len(items) < TopK THEN Len(items) ELSE TopK
  BY WindowIsFull
<1>3. items = <<>> <=> Len(items) = 0
  BY DEF EvidenceSet
<1>4. CASE items = <<>>
  <2>1. Window(items) = {}
    BY <1>1, <1>2, <1>3, <1>4
  <2>2. evaluate_gate(items) = "empty"
    BY <2>1 DEF evaluate_gate
  <2> QED
    BY <1>1, <1>3, <1>4, <2>2
<1>5. CASE items # <<>>
  <2>1. Window(items) # {}
    BY <1>5, TopScoreIsBest
  <2>2. PICK best \in DOMAIN items :
          /\ top_score(items, Window(items)) = items[best].score
          /\ \A j \in DOMAIN items : items[j].score <= items[best].score
    BY <1>5, TopScoreIsBest
  <2>3. evaluate_gate(items) = IF \/ Cardinality(Window(items)) < MinChunks
                                 \/ items[best].score < MinScore
                                THEN "insufficient" ELSE "sufficient"
    BY <2>1, <2>2 DEF evaluate_gate
  <2>4. ~(Cardinality(Window(items)) < MinChunks)
          <=> Len(items) >= MinChunks /\ TopK >= MinChunks
    BY <1>1, <1>2
  <2>5. ~(items[best].score < MinScore)
          <=> \E i \in DOMAIN items : items[i].score >= MinScore
    BY <1>1, <2>2
  <2> QED
    BY <1>5, <2>3, <2>4, <2>5
<1> QED
  BY <1>4, <1>5

===============================================================================
