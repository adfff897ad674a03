----------------------- MODULE ResilientVerifierProofs -----------------------
(***************************************************************************)
(* Theorems about ResilientVerifier, for any mechanisms (even of one name),*)
(* window, threshold and minimum number of observations.                   *)
(***************************************************************************)
EXTENDS ResilientVerifier, FiniteSetTheorems, TLAPS

\* Recording keeps a window a sequence of outcomes within its capacity.
LEMMA RecordedTyped ==
  ASSUME NEW w \in Seq(BOOLEAN), Len(w) <= Capacity, NEW b \in BOOLEAN
  PROVE  Recorded(w, b) \in Seq(BOOLEAN) /\ Len(Recorded(w, b)) <= Capacity
<1>0. Capacity \in Nat \ {0}
  BY BreakerAssumption
<1>1. CASE Len(w) < Capacity
  BY <1>0, <1>1 DEF Recorded
<1>2. CASE ~(Len(w) < Capacity)
  <2>1. w # <<>>
    BY <1>0, <1>2
  <2>2. Tail(w) \in Seq(BOOLEAN) /\ Len(Tail(w)) = Len(w) - 1
    BY <2>1
  <2>3. Append(Tail(w), b) \in Seq(BOOLEAN) /\ Len(Append(Tail(w), b)) = Len(w)
    BY <2>2
  <2> QED
    BY <1>2, <2>3 DEF Recorded
<1> QED
  BY <1>1, <1>2

\* The windows are typed, and stay within their capacity.
WindowsOK ==
  /\ health \in [Name -> Seq(BOOLEAN)]
  /\ \A n \in Name : Len(health[n]) <= Capacity

LEMMA RecordKeepsWindows ==
  ASSUME WindowsOK, NEW b \in BOOLEAN, NEW n \in Name,
         health' = [health EXCEPT ![n] = Recorded(@, b)]
  PROVE  WindowsOK'
<1>1. Recorded(health[n], b) \in Seq(BOOLEAN) /\ Len(Recorded(health[n], b)) <= Capacity
  BY RecordedTyped DEF WindowsOK
<1>2. \A m \in Name : health'[m] = IF m = n THEN Recorded(health[n], b) ELSE health[m]
  BY DEF WindowsOK
<1> QED
  BY <1>1, <1>2 DEF WindowsOK

\* Consulting a candidate records an outcome for it only if it is not tripped.
LEMMA ConsultStep ==
  ASSUME TypeOK, Consult
  PROVE  /\ UNCHANGED resets
         /\ \/ UNCHANGED health
            \/ /\ Considering
               /\ ~is_tripped(Current)
               /\ \E b \in BOOLEAN : health' = [health EXCEPT ![Current] = Recorded(@, b)]
<1>1. CASE SkipTripped \/ Raises \/ Exhausted
  BY <1>1 DEF SkipTripped, Raises, Exhausted
<1>2. CASE SkipUnhealthy
  BY <1>2 DEF SkipUnhealthy, RecordFault
<1>3. CASE Answers
  BY <1>3 DEF Answers, RecordOk
<1>4. CASE Fails
  BY <1>4 DEF Fails, RecordFault
<1> QED
  BY <1>1, <1>2, <1>3, <1>4 DEF Consult

\* The candidate considered has a name.
LEMMA CurrentNamed ==
  ASSUME Considering
  PROVE  Current \in Name
BY DEF Considering, Current, Name

LEMMA NextKeepsWindows ==
  ASSUME TypeOK, Next
  PROVE  WindowsOK'
<1>0. WindowsOK /\ Capacity \in Nat
  BY BreakerAssumption DEF TypeOK, WindowsOK
<1>1. CASE Call
  BY <1>0, <1>1 DEF Call, WindowsOK
<1>2. CASE Consult
  <2>1. CASE UNCHANGED health
    BY <1>0, <2>1 DEF WindowsOK
  <2>2. CASE Considering /\ \E b \in BOOLEAN : health' = [health EXCEPT ![Current] = Recorded(@, b)]
    BY <1>0, <2>2, CurrentNamed, RecordKeepsWindows
  <2> QED
    BY <1>2, <2>1, <2>2, ConsultStep
<1>3. ASSUME NEW name \in Name, Reset(name)
      PROVE  WindowsOK'
  <2>1. health' = [health EXCEPT ![name] = <<>>]
    BY <1>3 DEF Reset
  <2>2. \A m \in Name : health'[m] = IF m = name THEN <<>> ELSE health[m]
    BY <1>0, <2>1 DEF WindowsOK
  <2>3. <<>> \in Seq(BOOLEAN) /\ Len(<<>>) <= Capacity
    BY <1>0
  <2> QED
    BY <1>0, <2>1, <2>2, <2>3 DEF WindowsOK
<1> QED
  BY <1>1, <1>2, <1>3 DEF Next

\* The shape of the state is kept by every step.
LEMMA NextKeepsType == TypeOK /\ [Next]_vars => TypeOK'
<1> SUFFICES ASSUME TypeOK, [Next]_vars PROVE TypeOK'
  OBVIOUS
<1>0. /\ DOMAIN Candidate = 1 .. Len(Candidate)
      /\ Len(Candidate) \in {1, 2}
      /\ Primary \in Name
      /\ MaxResets \in Nat
  BY BreakerAssumption DEF Primary, Name
<1>1. CASE UNCHANGED vars
  BY <1>1 DEF vars, TypeOK
<1>2. CASE Next
  <2>1. health' \in [Name -> Seq(BOOLEAN)] /\ \A n \in Name : Len(health'[n]) <= Capacity
    BY <1>2, NextKeepsWindows DEF WindowsOK
  <2>2. cursor' \in 0 .. Len(Candidate) + 1 /\ unwell' \subseteq DOMAIN Candidate
    BY <1>0, <1>2 DEF TypeOK, Next, Consult, Call, SkipTripped, SkipUnhealthy, Answers,
       Fails, Raises, Exhausted, Reset, End, Considering
  <2>3. ended' \in {<<>>} \cup
          [how : {"response", "failure", "exception", "unavailable"},
           at : 1 .. Len(Candidate) + 1]
    BY <1>0, <1>2 DEF TypeOK, Next, Consult, Call, SkipTripped, SkipUnhealthy, Answers,
       Fails, Raises, Exhausted, Reset, End, Considering
  <2>4. resets' \in [Name -> 0 .. MaxResets]
    <3>1. CASE UNCHANGED resets
      BY <3>1 DEF TypeOK
    <3>2. ASSUME NEW name \in Name, Reset(name)
          PROVE  resets' \in [Name -> 0 .. MaxResets]
      BY <1>0, <3>2 DEF Reset, TypeOK
    <3> QED
      BY <1>2, <3>1, <3>2, ConsultStep DEF Next, Call
  <2>5. events' \in Seq([mechanism : Name, event : EventName])
    <3> DEFINE E == [mechanism : Name, event : EventName]
    <3>1. CASE UNCHANGED events
      BY <3>1 DEF TypeOK
    <3>2. CASE SkipUnhealthy
      <4>1. HealthEvent(Current, "reported_unhealthy") \in E
        BY <3>2, CurrentNamed DEF SkipUnhealthy, HealthEvent, EventName
      <4>2. events \in Seq(E)
        BY DEF TypeOK
      <4> HIDE DEF E
      <4>3. Append(events, HealthEvent(Current, "reported_unhealthy")) \in Seq(E)
        BY <4>1, <4>2
      <4> QED
        BY <3>2, <4>3 DEF SkipUnhealthy, E
    <3>3. CASE Fails
      <4>1. HealthEvent(Current, "fault") \in E /\ HealthEvent(Primary, "escalated") \in E
        BY <1>0, <3>3, CurrentNamed DEF Fails, HealthEvent, EventName
      <4>2. events \in Seq(E)
        BY DEF TypeOK
      <4> HIDE DEF E
      <4>3. /\ Append(events, HealthEvent(Current, "fault")) \in Seq(E)
            /\ <<>> \in Seq(E)
            /\ <<HealthEvent(Primary, "escalated")>> \in Seq(E)
        BY <4>1, <4>2
      <4>4. \A s, u \in Seq(E) : s \o u \in Seq(E)
        OBVIOUS
      <4>5. events' \in Seq(E)
        BY <3>3, <4>3, <4>4 DEF Fails
      <4> QED
        BY <4>5 DEF E
    <3> QED
      BY <1>2, <3>1, <3>2, <3>3 DEF Next, Consult, Call, SkipTripped, Answers, Raises,
         Exhausted, Reset
  <2> QED
    BY <2>1, <2>2, <2>3, <2>4, <2>5 DEF TypeOK
<1> QED
  BY <1>1, <1>2

LEMMA InitType == Init => TypeOK
<1> SUFFICES ASSUME Init PROVE TypeOK
  OBVIOUS
<1>1. Len(Candidate) \in Nat /\ Capacity \in Nat /\ MaxResets \in Nat
  BY BreakerAssumption
<1>2. /\ health \in [Name -> Seq(BOOLEAN)]
      /\ \A n \in Name : Len(health[n]) <= Capacity
  BY <1>1 DEF Init
<1> QED
  BY <1>1, <1>2 DEF Init, TypeOK

\* The state of the breaker is well formed for ever; no window outgrows its
\* capacity.
THEOREM BreakerTypeCorrect == Spec => []TypeOK
BY InitType, NextKeepsType, PTL DEF Spec

-------------------------------------------------------------------------------
\* A tripped mechanism stays tripped, but for a reset of its window.
LEMMA TrippedStays ==
  ASSUME TypeOK, Next, NEW n \in Name, is_tripped(n)
  PROVE  is_tripped(n)' \/ resets'[n] # resets[n]
<1>1. CASE health'[n] = health[n]
  BY <1>1 DEF is_tripped, faults, observations
<1>2. CASE Call
  BY <1>1, <1>2 DEF Call
<1>3. CASE Consult
  <2>1. CASE UNCHANGED health
    BY <1>1, <2>1
  <2>2. CASE /\ ~is_tripped(Current)
             /\ \E b \in BOOLEAN : health' = [health EXCEPT ![Current] = Recorded(@, b)]
    <3>1. n # Current
      BY <2>2
    <3>2. health'[n] = health[n]
      BY <2>2, <3>1 DEF TypeOK
    <3> QED
      BY <1>1, <3>2
  <2> QED
    BY <1>3, <2>1, <2>2, ConsultStep
<1>4. ASSUME NEW name \in Name, Reset(name)
      PROVE  is_tripped(n)' \/ resets'[n] # resets[n]
  <2>1. CASE n = name
    BY <1>4, <2>1 DEF Reset, TypeOK
  <2>2. CASE n # name
    <3>1. health'[n] = health[n]
      BY <1>4, <2>2 DEF Reset, TypeOK
    <3> QED
      BY <1>1, <3>1
  <2> QED
    BY <2>1, <2>2
<1> QED
  BY <1>2, <1>3, <1>4 DEF Next

\* Escalation is sticky: only a reset of its own window makes a tripped
\* mechanism available again, whatever the other mechanism does and even if both
\* go by one name.
THEOREM StickyTrip == Spec => TripIsSticky
<1>1. TypeOK /\ [Next]_vars =>
        [\A n \in Name : is_tripped(n) => is_tripped(n)' \/ resets'[n] # resets[n]]_vars
  BY TrippedStays
<1> QED
  BY <1>1, BreakerTypeCorrect, PTL DEF Spec, TripIsSticky

-------------------------------------------------------------------------------
\* Every candidate before the one considered was passed over for a reason that
\* still holds: this is what makes ServedByFirstPermitted true at the end.
PassedSoFar == \A k \in DOMAIN Candidate : k < cursor => Passed(k)

LEMMA NextKeepsPassed == TypeOK /\ PassedSoFar /\ [Next]_vars => PassedSoFar'
<1> SUFFICES ASSUME TypeOK, PassedSoFar, [Next]_vars PROVE PassedSoFar'
  OBVIOUS
<1>0. DOMAIN Candidate = 1 .. Len(Candidate) /\ Len(Candidate) \in Nat
      /\ cursor \in Nat
      /\ \A k \in DOMAIN Candidate : Candidate[k] \in Name
  BY BreakerAssumption DEF Name, TypeOK
<1>1. CASE UNCHANGED vars
  BY <1>1 DEF vars, PassedSoFar, Passed, is_tripped, faults, observations
<1>2. CASE cursor' \in {0, 1}
  BY <1>0, <1>2 DEF PassedSoFar
<1>3. CASE SkipTripped \/ SkipUnhealthy
  <2> SUFFICES ASSUME NEW k \in DOMAIN Candidate, k < cursor + 1
               PROVE  Passed(k)'
    BY <1>3 DEF PassedSoFar, SkipTripped, SkipUnhealthy
  <2>1. UNCHANGED resets /\ unwell \subseteq unwell'
    BY <1>3 DEF SkipTripped, SkipUnhealthy
  <2>2. Next
    BY <1>3 DEF Next, Consult
  <2>3. is_tripped(Candidate[k]) => is_tripped(Candidate[k])'
    BY <1>0, <2>1, <2>2, TrippedStays
  <2>4. CASE k < cursor
    BY <2>1, <2>3, <2>4 DEF PassedSoFar, Passed
  <2>5. CASE k = cursor
    <3>1. is_tripped(Candidate[k]) \/ k \in unwell'
      BY <1>3, <2>5 DEF SkipTripped, SkipUnhealthy, Current
    <3> QED
      BY <2>3, <3>1 DEF Passed
  <2> QED
    BY <1>0, <2>4, <2>5
<1>4. CASE Answers \/ Fails \/ Raises \/ Exhausted \/ Call
  BY <1>2, <1>4 DEF Answers, Fails, Raises, Exhausted, Call, End
<1>5. ASSUME NEW name \in Name, Reset(name)
      PROVE  PassedSoFar'
  <2>1. cursor' = 0
    BY <1>5 DEF Reset
  <2> QED
    BY <1>2, <2>1
<1> QED
  BY <1>1, <1>3, <1>4, <1>5 DEF Next, Consult


\* Only candidates already considered have reported themselves unwell.
Unreported == \A k \in unwell : k < cursor \/ cursor = 0

LEMMA ReportsInvariant == Spec => []Unreported
<1>1. Init => Unreported
  BY DEF Init, Unreported
<1>2. TypeOK /\ Unreported /\ [Next]_vars => Unreported'
  <2> SUFFICES ASSUME TypeOK, Unreported, [Next]_vars PROVE Unreported'
    OBVIOUS
  <2>0. cursor \in Nat /\ unwell \subseteq Nat
    BY BreakerAssumption DEF TypeOK
  <2>1. CASE UNCHANGED vars
    BY <2>1 DEF vars, Unreported
  <2>2. CASE cursor' = 0
    BY <2>2 DEF Unreported
  <2>3. CASE Call
    BY <2>3 DEF Call, Unreported
  <2>4. CASE SkipTripped
    BY <2>0, <2>4, BreakerAssumption DEF SkipTripped, Unreported, Considering
  <2>5. CASE SkipUnhealthy
    BY <2>0, <2>5, BreakerAssumption DEF SkipUnhealthy, Unreported, Considering
  <2>6. CASE Answers \/ Fails \/ Raises \/ Exhausted
    BY <2>2, <2>6 DEF Answers, Fails, Raises, Exhausted, End
  <2>7. CASE \E name \in Name : Reset(name)
    BY <2>2, <2>7 DEF Reset
  <2> QED
    BY <2>1, <2>3, <2>4, <2>5, <2>6, <2>7 DEF Next, Consult
<1> QED
  BY <1>1, <1>2, BreakerTypeCorrect, PTL DEF Spec


LEMMA PassedInvariant == Spec => []PassedSoFar
<1>1. Init => PassedSoFar
  BY BreakerAssumption DEF Init, PassedSoFar
<1> QED
  BY <1>1, BreakerTypeCorrect, NextKeepsPassed, PTL DEF Spec

\* A call is answered by the first candidate that is permitted, and refused for
\* want of a verifier only when none is: verification is never skipped, and
\* traffic leaves the primary for a reason only (ET-RES-001, ET-RES-002).
THEOREM ServedFirst == Spec => ServedByFirstPermitted
<1> DEFINE Served ==
      cursor # 0 /\ cursor' = 0 =>
        /\ \A k \in 1 .. cursor - 1 : Passed(k)
        /\ IF ended'.how = "unavailable" THEN \A k \in DOMAIN Candidate : Passed(k)
           ELSE ended'.at \in DOMAIN Candidate /\ ~Passed(ended'.at)
<1>1. TypeOK /\ PassedSoFar /\ Unreported /\ [Next]_vars => [Served]_vars
  <2> SUFFICES ASSUME TypeOK, PassedSoFar, Unreported, Next, cursor # 0, cursor' = 0
               PROVE  /\ \A k \in 1 .. cursor - 1 : Passed(k)
                      /\ IF ended'.how = "unavailable"
                           THEN \A k \in DOMAIN Candidate : Passed(k)
                           ELSE ended'.at \in DOMAIN Candidate /\ ~Passed(ended'.at)
    BY DEF vars
  <2>0. DOMAIN Candidate = 1 .. Len(Candidate) /\ Len(Candidate) \in Nat
        /\ cursor \in 0 .. Len(Candidate) + 1
    BY BreakerAssumption DEF TypeOK
  <2>1. \A k \in 1 .. cursor - 1 : Passed(k)
    BY <2>0 DEF PassedSoFar
  <2>2. CASE Answers \/ Fails \/ Raises
    <3>1. /\ ended'.how # "unavailable" /\ ended'.at = cursor
          /\ cursor \in DOMAIN Candidate /\ ~is_tripped(Candidate[cursor])
      BY <2>2 DEF Answers, Fails, Raises, End, Considering, Current
    <3>2. cursor \notin unwell
      BY <2>0 DEF Unreported
    <3> QED
      BY <2>1, <3>1, <3>2 DEF Passed
  <2>3. CASE Exhausted
    <3>1. ended'.how = "unavailable" /\ cursor > Len(Candidate)
      BY <2>3 DEF Exhausted, End
    <3>2. \A k \in DOMAIN Candidate : Passed(k)
      BY <2>0, <3>1 DEF PassedSoFar
    <3> QED
      BY <2>1, <3>1, <3>2
  <2>4. CASE Call \/ SkipTripped \/ SkipUnhealthy \/ \E name \in Name : Reset(name)
    BY <2>0, <2>4 DEF Call, SkipTripped, SkipUnhealthy, Reset
  <2> QED
    BY <2>2, <2>3, <2>4 DEF Next, Consult
<1> QED
  BY <1>1, BreakerTypeCorrect, PassedInvariant, ReportsInvariant, PTL
     DEF Spec, ServedByFirstPermitted

-------------------------------------------------------------------------------
(***************************************************************************)
(* Counting faults and events.                                             *)
(***************************************************************************)
\* Positions of a sequence can be counted, and are no more than its length.
LEMMA PositionsAreCounted ==
  ASSUME NEW n \in Nat, NEW S, S \subseteq 1 .. n
  PROVE  /\ IsFiniteSet(S) /\ Cardinality(S) \in Nat /\ Cardinality(S) <= n
         /\ Cardinality(S) = n => S = 1 .. n
<1>1. IsFiniteSet(1 .. n) /\ Cardinality(1 .. n) = n
  BY FS_Interval
<1> QED
  BY <1>1, FS_Subset, FS_CardinalityType

FaultsIn(window) == {i \in DOMAIN window : window[i]}

LEMMA FaultsInAreCounted ==
  ASSUME NEW w \in Seq(BOOLEAN)
  PROVE  /\ IsFiniteSet(FaultsIn(w))
         /\ Cardinality(FaultsIn(w)) \in Nat
         /\ Cardinality(FaultsIn(w)) <= Len(w)
         /\ Cardinality(FaultsIn(w)) = Len(w) => \A i \in DOMAIN w : w[i]
<1>1. FaultsIn(w) \subseteq 1 .. Len(w) /\ Len(w) \in Nat
  BY DEF FaultsIn
<1> QED
  BY <1>1, PositionsAreCounted DEF FaultsIn

\* What a window forgets is never a fault more than it had.
LEMMA TailForgets ==
  ASSUME NEW w \in Seq(BOOLEAN), w # <<>>
  PROVE  Cardinality(FaultsIn(Tail(w))) <= Cardinality(FaultsIn(w))
<1> DEFINE later == [i \in FaultsIn(Tail(w)) |-> i + 1]
<1>1. /\ Tail(w) \in Seq(BOOLEAN)
      /\ DOMAIN Tail(w) = 1 .. Len(w) - 1
      /\ \A i \in DOMAIN Tail(w) : Tail(w)[i] = w[i + 1]
      /\ DOMAIN w = 1 .. Len(w) /\ Len(w) \in Nat
  OBVIOUS
<1>2. \A i \in FaultsIn(Tail(w)) : i \in Nat /\ i + 1 \in FaultsIn(w)
  BY <1>1 DEF FaultsIn
<1>3. later \in Injection(FaultsIn(Tail(w)), FaultsIn(w))
  BY <1>2 DEF Injection, IsInjective
<1> QED
  BY <1>3, FaultsInAreCounted, FS_Injection

LEMMA AppendCounts ==
  ASSUME NEW w \in Seq(BOOLEAN), NEW b \in BOOLEAN
  PROVE  Cardinality(FaultsIn(Append(w, b)))
           = Cardinality(FaultsIn(w)) + (IF b THEN 1 ELSE 0)
<1>1. /\ DOMAIN Append(w, b) = 1 .. Len(w) + 1 /\ DOMAIN w = 1 .. Len(w)
      /\ Len(w) \in Nat
      /\ \A i \in DOMAIN w : Append(w, b)[i] = w[i]
      /\ Append(w, b)[Len(w) + 1] = b
  OBVIOUS
<1>2. Len(w) + 1 \notin FaultsIn(w)
  BY <1>1 DEF FaultsIn
<1>3. CASE b
  <2>1. FaultsIn(Append(w, b)) = FaultsIn(w) \cup {Len(w) + 1}
    BY <1>1, <1>3 DEF FaultsIn
  <2> QED
    BY <1>2, <1>3, <2>1, FaultsInAreCounted, FS_AddElement
<1>4. CASE ~b
  <2>1. FaultsIn(Append(w, b)) = FaultsIn(w)
    BY <1>1, <1>4 DEF FaultsIn
  <2> QED
    BY <1>4, <2>1, FaultsInAreCounted
<1> QED
  BY <1>3, <1>4

\* An outcome adds at most itself to the faults of a window.
LEMMA RecordedCounts ==
  ASSUME NEW w \in Seq(BOOLEAN), NEW b \in BOOLEAN
  PROVE  Cardinality(FaultsIn(Recorded(w, b)))
           <= Cardinality(FaultsIn(w)) + (IF b THEN 1 ELSE 0)
<1>1. CASE Len(w) < Capacity
  BY <1>1, AppendCounts, FaultsInAreCounted DEF Recorded
<1>2. CASE ~(Len(w) < Capacity)
  <2>1. w # <<>>
    BY <1>2, BreakerAssumption
  <2>2. Tail(w) \in Seq(BOOLEAN)
    BY <2>1
  <2>3. Cardinality(FaultsIn(Append(Tail(w), b)))
          = Cardinality(FaultsIn(Tail(w))) + (IF b THEN 1 ELSE 0)
    BY <2>2, AppendCounts
  <2>4. Cardinality(FaultsIn(Tail(w))) <= Cardinality(FaultsIn(w))
    BY <2>1, TailForgets
  <2>5. Cardinality(FaultsIn(Tail(w))) \in Nat /\ Cardinality(FaultsIn(w)) \in Nat
    BY <2>2, FaultsInAreCounted
  <2>6. Recorded(w, b) = Append(Tail(w), b)
    BY <1>2 DEF Recorded
  <2> QED
    BY <2>3, <2>4, <2>5, <2>6
<1> QED
  BY <1>1, <1>2

LEMMA FaultsAreFaultsIn ==
  ASSUME TypeOK, NEW n \in Name
  PROVE  faults(n) = Cardinality(FaultsIn(health[n])) /\ observations(n) = Len(health[n])
BY DEF faults, FaultsIn, observations

-------------------------------------------------------------------------------
(***************************************************************************)
(* The event log accounts for the windows.                                 *)
(***************************************************************************)
HealthLogEntry == [mechanism : Name, event : EventName]

Matching(log, n, kinds) ==
  {i \in DOMAIN log : log[i].mechanism = n /\ log[i].event \in kinds}

Counts(e, n, kinds) == IF e.mechanism = n /\ e.event \in kinds THEN 1 ELSE 0

\* The log grows by one event, at its end.
LEMMA EventAppended ==
  ASSUME NEW log \in Seq(HealthLogEntry), NEW e, NEW n, NEW kinds
  PROVE  /\ Cardinality(Matching(log, n, kinds)) \in Nat
         /\ Cardinality(Matching(Append(log, e), n, kinds))
              = Cardinality(Matching(log, n, kinds)) + Counts(e, n, kinds)
<1>1. /\ DOMAIN Append(log, e) = 1 .. Len(log) + 1 /\ DOMAIN log = 1 .. Len(log)
      /\ Len(log) \in Nat
      /\ \A i \in DOMAIN log : Append(log, e)[i] = log[i]
      /\ Append(log, e)[Len(log) + 1] = e
  OBVIOUS
<1>2. Matching(log, n, kinds) \subseteq 1 .. Len(log)
  BY <1>1 DEF Matching
<1>3. IsFiniteSet(Matching(log, n, kinds)) /\ Cardinality(Matching(log, n, kinds)) \in Nat
  BY <1>1, <1>2, PositionsAreCounted
<1>4. Len(log) + 1 \notin Matching(log, n, kinds)
  BY <1>1, <1>2
<1>5. CASE e.mechanism = n /\ e.event \in kinds
  <2>1. Matching(Append(log, e), n, kinds) = Matching(log, n, kinds) \cup {Len(log) + 1}
    BY <1>1, <1>5 DEF Matching
  <2>2. Counts(e, n, kinds) = 1
    BY <1>5 DEF Counts
  <2> QED
    BY <1>3, <1>4, <2>1, <2>2, FS_AddElement
<1>6. CASE ~(e.mechanism = n /\ e.event \in kinds)
  <2>1. Matching(Append(log, e), n, kinds) = Matching(log, n, kinds)
    BY <1>1, <1>6 DEF Matching
  <2>2. Counts(e, n, kinds) = 0
    BY <1>6 DEF Counts
  <2> QED
    BY <1>3, <2>1, <2>2
<1> QED
  BY <1>3, <1>5, <1>6

\* Faults are recorded as events of the candidate they weigh on; an escalation
\* follows a fault that trips the primary.
FaultKinds == {"fault", "reported_unhealthy"}

Accounted == \A n \in Name : faults(n) <= Cardinality(EventsOf(n, FaultKinds))

Announced ==
  Cardinality(EventsOf(Primary, {"escalated"}))
    <= resets[Primary] + (IF is_tripped(Primary) THEN 1 ELSE 0)

EventInv == TypeOK /\ Accounted /\ Announced

LEMMA EventCounts ==
  ASSUME TypeOK, NEW n, NEW kinds
  PROVE  /\ Cardinality(EventsOf(n, kinds)) \in Nat
         /\ \A e : events' = Append(events, e) =>
              Cardinality(EventsOf(n, kinds)')
                = Cardinality(EventsOf(n, kinds)) + Counts(e, n, kinds)
         /\ \A e \in HealthLogEntry : \A f : events' = Append(Append(events, e), f) =>
              Cardinality(EventsOf(n, kinds)')
                = Cardinality(EventsOf(n, kinds)) + Counts(e, n, kinds) + Counts(f, n, kinds)
<1>1. events \in Seq(HealthLogEntry)
  BY DEF TypeOK, HealthLogEntry
<1>2. EventsOf(n, kinds) = Matching(events, n, kinds)
      /\ EventsOf(n, kinds)' = Matching(events', n, kinds)
  BY DEF EventsOf, Matching
<1>3. ASSUME NEW e \in HealthLogEntry, NEW f
      PROVE  Cardinality(Matching(Append(Append(events, e), f), n, kinds))
               = Cardinality(Matching(events, n, kinds)) + Counts(e, n, kinds) + Counts(f, n, kinds)
  <2>1. Append(events, e) \in Seq(HealthLogEntry)
    BY <1>1
  <2>2. Cardinality(Matching(Append(events, e), n, kinds))
          = Cardinality(Matching(events, n, kinds)) + Counts(e, n, kinds)
    BY <1>1, EventAppended
  <2>3. Cardinality(Matching(Append(Append(events, e), f), n, kinds))
          = Cardinality(Matching(Append(events, e), n, kinds)) + Counts(f, n, kinds)
    BY <2>1, EventAppended
  <2> QED
    BY <2>2, <2>3
<1>4. ASSUME NEW e, events' = Append(events, e)
      PROVE  Cardinality(EventsOf(n, kinds)')
               = Cardinality(EventsOf(n, kinds)) + Counts(e, n, kinds)
  <2>1. Cardinality(Matching(Append(events, e), n, kinds))
          = Cardinality(Matching(events, n, kinds)) + Counts(e, n, kinds)
    BY <1>1, EventAppended
  <2> QED
    BY <1>2, <1>4, <2>1
<1>5. ASSUME NEW e \in HealthLogEntry, NEW f, events' = Append(Append(events, e), f)
      PROVE  Cardinality(EventsOf(n, kinds)')
               = Cardinality(EventsOf(n, kinds)) + Counts(e, n, kinds) + Counts(f, n, kinds)
  <2>1. Cardinality(Matching(events', n, kinds))
          = Cardinality(Matching(events, n, kinds)) + Counts(e, n, kinds) + Counts(f, n, kinds)
    BY <1>3, <1>5
  <2> QED
    BY <1>2, <2>1
<1>6. Cardinality(EventsOf(n, kinds)) \in Nat
  BY <1>1, <1>2, EventAppended
<1> QED
  BY <1>4, <1>5, <1>6

\* What an outcome does to the faults of each window.
LEMMA OutcomeWeighs ==
  ASSUME TypeOK, Considering, NEW b \in BOOLEAN, NEW n \in Name,
         health' = [health EXCEPT ![Current] = Recorded(@, b)]
  PROVE  /\ faults(n) \in Nat /\ faults(n)' \in Nat
         /\ faults(n)' <= faults(n) + (IF b /\ n = Current THEN 1 ELSE 0)
<1>1. Current \in Name /\ health \in [Name -> Seq(BOOLEAN)]
      /\ \A m \in Name : Len(health[m]) <= Capacity
  BY CurrentNamed DEF TypeOK
<1>2. health'[n] = IF n = Current THEN Recorded(health[n], b) ELSE health[n]
  BY <1>1
<1>3. faults(n) = Cardinality(FaultsIn(health[n])) /\ faults(n)' = Cardinality(FaultsIn(health'[n]))
  BY DEF faults, FaultsIn
<1>4. health[n] \in Seq(BOOLEAN) /\ health'[n] \in Seq(BOOLEAN)
  BY <1>1, <1>2, RecordedTyped
<1>5. Cardinality(FaultsIn(health[n])) \in Nat /\ Cardinality(FaultsIn(health'[n])) \in Nat
  BY <1>4, FaultsInAreCounted
<1>6. CASE n = Current
  BY <1>2, <1>3, <1>4, <1>5, <1>6, RecordedCounts
<1>7. CASE n # Current
  BY <1>2, <1>3, <1>5, <1>7
<1> QED
  BY <1>6, <1>7

\* The event a candidate's own fault or report of ill health leaves behind.
LEMMA FaultEvent ==
  ASSUME Considering, NEW kind \in FaultKinds
  PROVE  /\ HealthEvent(Current, kind) \in HealthLogEntry
         /\ Counts(HealthEvent(Current, kind), Current, FaultKinds) = 1
         /\ \A n : Counts(HealthEvent(Current, kind), n, {"escalated"}) = 0
         /\ \A n : n # Current => Counts(HealthEvent(Current, kind), n, FaultKinds) = 0
BY CurrentNamed DEF HealthEvent, HealthLogEntry, FaultKinds, EventName, Counts

LEMMA EscalationEvent ==
  /\ HealthEvent(Primary, "escalated") \in HealthLogEntry
  /\ Counts(HealthEvent(Primary, "escalated"), Primary, {"escalated"}) = 1
  /\ \A n : Counts(HealthEvent(Primary, "escalated"), n, FaultKinds) = 0
<1>1. Primary \in Name
  BY BreakerAssumption DEF Primary, Name
<1> QED
  BY <1>1 DEF HealthEvent, HealthLogEntry, FaultKinds, EventName, Counts

\* What a fault does to the event log.
FailsQuietly == Fails /\ ~(cursor = 1 /\ is_tripped(Primary)')
FailsAloud == Fails /\ cursor = 1 /\ is_tripped(Primary)'

LEMMA FaultIsLogged ==
  ASSUME TypeOK, SkipUnhealthy \/ Fails
  PROVE  /\ Considering /\ ~is_tripped(Current) /\ UNCHANGED resets
         /\ health' = [health EXCEPT ![Current] = Recorded(@, TRUE)]
         /\ \E kind \in FaultKinds :
              \/ ~FailsAloud /\ events' = Append(events, HealthEvent(Current, kind))
              \/ /\ FailsAloud
                 /\ events' = Append(Append(events, HealthEvent(Current, kind)),
                                     HealthEvent(Primary, "escalated"))
<1>1. CASE SkipUnhealthy
  <2>1. cursor \in Nat /\ cursor' = cursor + 1
    BY <1>1 DEF SkipUnhealthy, TypeOK
  <2>2. ~FailsAloud
    BY <2>1 DEF FailsAloud, Fails, End
  <2> QED
    BY <1>1, <2>2 DEF SkipUnhealthy, RecordFault, FaultKinds
<1>2. CASE Fails
  <2> DEFINE logged == Append(events, HealthEvent(Current, "fault"))
  <2>1. events \in Seq(HealthLogEntry)
    BY DEF TypeOK, HealthLogEntry
  <2>2. HealthEvent(Current, "fault") \in HealthLogEntry
    BY <1>2, FaultEvent DEF Fails, FaultKinds
  <2>3. logged \in Seq(HealthLogEntry)
    BY <2>1, <2>2
  <2>4. CASE cursor = 1 /\ is_tripped(Primary)'
    <3>1. events' = logged \o <<HealthEvent(Primary, "escalated")>>
      BY <1>2, <2>4 DEF Fails
    <3> HIDE DEF logged
    <3>2. events' = Append(logged, HealthEvent(Primary, "escalated"))
      BY <2>3, <3>1, EscalationEvent
    <3> USE DEF logged
    <3> QED
      BY <1>2, <2>4, <3>2 DEF FailsAloud, Fails, RecordFault, FaultKinds
  <2>5. CASE ~(cursor = 1 /\ is_tripped(Primary)')
    <3>1. events' = logged \o <<>>
      BY <1>2, <2>5 DEF Fails
    <3> HIDE DEF logged
    <3>2. events' = logged
      BY <2>3, <3>1
    <3> USE DEF logged
    <3> QED
      BY <1>2, <2>5, <3>2 DEF FailsAloud, Fails, RecordFault, FaultKinds
  <2> QED
    BY <2>4, <2>5
<1> QED
  BY <1>1, <1>2

LEMMA NextKeepsEvents == EventInv /\ [Next]_vars => EventInv'
<1> SUFFICES ASSUME EventInv, [Next]_vars PROVE (Accounted /\ Announced)'
  BY NextKeepsType DEF EventInv
<1>0. /\ TypeOK /\ Accounted /\ Announced
      /\ Primary \in Name
      /\ resets[Primary] \in Nat
      /\ \A n, kinds : Cardinality(EventsOf(n, kinds)) \in Nat
  BY BreakerAssumption, EventCounts DEF EventInv, Primary, Name, TypeOK
<1>1. CASE UNCHANGED <<health, events, resets>>
  BY <1>0, <1>1 DEF Accounted, Announced, faults, EventsOf, is_tripped, observations
<1>2. CASE Answers
  <2>1. /\ Considering /\ UNCHANGED <<events, resets>>
        /\ health' = [health EXCEPT ![Current] = Recorded(@, FALSE)]
        /\ Next
    BY <1>2 DEF Answers, RecordOk, Next, Consult
  <2>2. ASSUME NEW n \in Name
        PROVE  faults(n) \in Nat /\ faults(n)' \in Nat /\ faults(n)' <= faults(n)
    <3>1. /\ faults(n) \in Nat /\ faults(n)' \in Nat
          /\ faults(n)' <= faults(n) + (IF FALSE /\ n = Current THEN 1 ELSE 0)
      BY <1>0, <2>1, OutcomeWeighs
    <3> QED
      BY <3>1
  <2>3. \A n, kinds : EventsOf(n, kinds)' = EventsOf(n, kinds)
    BY <2>1 DEF EventsOf
  <2>4. Accounted'
    BY <1>0, <2>2, <2>3 DEF Accounted
  <2>5. is_tripped(Primary) => is_tripped(Primary)'
    BY <1>0, <2>1, TrippedStays
  <2>6. Announced'
    BY <1>0, <2>1, <2>3, <2>5 DEF Announced
  <2> QED
    BY <2>4, <2>6
<1>3. CASE SkipUnhealthy \/ Fails
  <2>1. /\ Considering /\ ~is_tripped(Current) /\ UNCHANGED resets
        /\ health' = [health EXCEPT ![Current] = Recorded(@, TRUE)]
        /\ Next
    BY <1>0, <1>3, FaultIsLogged DEF Next, Consult
  <2>2. PICK kind \in FaultKinds :
              \/ ~FailsAloud /\ events' = Append(events, HealthEvent(Current, kind))
              \/ /\ FailsAloud
                 /\ events' = Append(Append(events, HealthEvent(Current, kind)),
                                     HealthEvent(Primary, "escalated"))
    BY <1>0, <1>3, FaultIsLogged
  <2>3. /\ HealthEvent(Current, kind) \in HealthLogEntry
        /\ Counts(HealthEvent(Current, kind), Current, FaultKinds) = 1
        /\ \A n : Counts(HealthEvent(Current, kind), n, {"escalated"}) = 0
        /\ \A n : n # Current => Counts(HealthEvent(Current, kind), n, FaultKinds) = 0
    BY <2>1, FaultEvent
  <2>4. Accounted'
    <3> SUFFICES ASSUME NEW n \in Name
                 PROVE  faults(n)' <= Cardinality(EventsOf(n, FaultKinds)')
      BY DEF Accounted
    <3>1. Cardinality(EventsOf(n, FaultKinds)')
            = Cardinality(EventsOf(n, FaultKinds))
                + Counts(HealthEvent(Current, kind), n, FaultKinds)
      <4>1. CASE events' = Append(events, HealthEvent(Current, kind))
        BY <1>0, <4>1, EventCounts
      <4>2. CASE events' = Append(Append(events, HealthEvent(Current, kind)),
                                  HealthEvent(Primary, "escalated"))
        <5>1. Cardinality(EventsOf(n, FaultKinds)')
                = Cardinality(EventsOf(n, FaultKinds))
                    + Counts(HealthEvent(Current, kind), n, FaultKinds)
                    + Counts(HealthEvent(Primary, "escalated"), n, FaultKinds)
          BY <1>0, <2>3, <4>2, EventCounts
        <5>2. Counts(HealthEvent(Current, kind), n, FaultKinds) \in Nat
          BY DEF Counts
        <5> QED
          BY <1>0, <5>1, <5>2, EscalationEvent
      <4> QED
        BY <2>2, <4>1, <4>2
    <3>2. /\ faults(n) \in Nat /\ faults(n)' \in Nat
          /\ faults(n)' <= faults(n) + (IF n = Current THEN 1 ELSE 0)
      BY <1>0, <2>1, OutcomeWeighs
    <3>3. faults(n) <= Cardinality(EventsOf(n, FaultKinds))
      BY <1>0 DEF Accounted
    <3> QED
      BY <1>0, <2>3, <3>1, <3>2, <3>3
  <2>5. Announced'
    <3>1. is_tripped(Primary) => is_tripped(Primary)'
      BY <1>0, <2>1, TrippedStays
    <3>2. CASE ~FailsAloud /\ events' = Append(events, HealthEvent(Current, kind))
      <4>1. Cardinality(EventsOf(Primary, {"escalated"})')
              = Cardinality(EventsOf(Primary, {"escalated"}))
        BY <1>0, <2>3, <3>2, EventCounts
      <4> QED
        BY <1>0, <2>1, <3>1, <4>1 DEF Announced
    <3>3. CASE FailsAloud /\ events' = Append(Append(events, HealthEvent(Current, kind)),
                                             HealthEvent(Primary, "escalated"))
      <4>1. is_tripped(Primary)' /\ ~is_tripped(Primary)
        BY <2>1, <3>3 DEF FailsAloud, Current, Primary
      <4>2. Cardinality(EventsOf(Primary, {"escalated"})')
              = Cardinality(EventsOf(Primary, {"escalated"})) + 1
        BY <1>0, <2>3, <3>3, EventCounts, EscalationEvent
      <4> QED
        BY <1>0, <2>1, <4>1, <4>2 DEF Announced
    <3> QED
      BY <2>2, <3>2, <3>3
  <2> QED
    BY <2>4, <2>5
<1>4. ASSUME NEW name \in Name, Reset(name)
      PROVE  (Accounted /\ Announced)'
  <2>1. /\ UNCHANGED events
        /\ \A n \in Name : health'[n] = IF n = name THEN <<>> ELSE health[n]
        /\ \A n \in Name : resets'[n] = IF n = name THEN resets[n] + 1 ELSE resets[n]
    BY <1>0, <1>4 DEF Reset, TypeOK
  <2>2. \A n, kinds : EventsOf(n, kinds)' = EventsOf(n, kinds)
    BY <2>1 DEF EventsOf
  <2>3. Accounted'
    <3> SUFFICES ASSUME NEW n \in Name
                 PROVE  faults(n)' <= Cardinality(EventsOf(n, FaultKinds))
      BY <2>2 DEF Accounted
    <3>1. CASE n = name
      <4>1. faults(n)' = Cardinality({})
        <5>1. health'[n] = <<>>
          BY <2>1, <3>1
        <5>2. {i \in DOMAIN health'[n] : health'[n][i]} = {}
          BY <5>1
        <5> QED
          BY <5>2 DEF faults
      <4> QED
        BY <1>0, <4>1, FS_EmptySet
    <3>2. CASE n # name
      BY <1>0, <2>1, <3>2 DEF Accounted, faults
    <3> QED
      BY <3>1, <3>2
  <2>4. CASE Primary = name
    BY <1>0, <2>1, <2>2, <2>3, <2>4 DEF Announced
  <2>5. CASE Primary # name
    <3>1. resets'[Primary] = resets[Primary] /\ is_tripped(Primary)' = is_tripped(Primary)
      BY <1>0, <2>1, <2>5 DEF is_tripped, faults, observations
    <3> QED
      BY <1>0, <2>2, <2>3, <3>1 DEF Announced
  <2> QED
    BY <2>4, <2>5
<1> QED
  BY <1>1, <1>2, <1>3, <1>4
     DEF Next, Consult, Call, SkipTripped, Raises, Exhausted, vars

LEMMA InitEvents == Init => EventInv
<1> SUFFICES ASSUME Init PROVE Accounted /\ Announced
  BY InitType DEF EventInv
<1>1. Primary \in Name
  BY BreakerAssumption DEF Primary, Name
<1>2. \A n, kinds : EventsOf(n, kinds) = {}
  BY DEF Init, EventsOf
<1>3. \A n \in Name : {i \in DOMAIN health[n] : health[n][i]} = {}
  BY DEF Init
<1>4. Accounted
  BY <1>2, <1>3, FS_EmptySet DEF Accounted, faults
<1>5. Announced
  <2>1. resets[Primary] = 0
    BY <1>1 DEF Init
  <2>2. Cardinality(EventsOf(Primary, {"escalated"})) = 0
    BY <1>2, FS_EmptySet
  <2> QED
    BY <2>1, <2>2 DEF Announced
<1> QED
  BY <1>4, <1>5

\* Every fault that weighs on a mechanism is in the event log, and the log holds
\* at most one escalation per life of the primary's window: it can be trusted to
\* count faults and changes of verifier (HealthEvent, verification/resilience.py).
THEOREM EventsAccount == Spec => []EventsAccountForFaults
<1>1. EventInv => EventsAccountForFaults
  <2> SUFFICES ASSUME EventInv PROVE EventsAccountForFaults
    OBVIOUS
  <2>1. Primary \in Name /\ resets[Primary] \in Nat
    BY BreakerAssumption DEF Primary, Name, EventInv, TypeOK
  <2>2. Cardinality(EventsOf(Primary, {"escalated"})) \in Nat
    BY EventCounts DEF EventInv
  <2> QED
    BY <2>1, <2>2 DEF EventInv, Accounted, Announced, FaultKinds, EventsAccountForFaults
<1> QED
  BY <1>1, InitEvents, NextKeepsEvents, PTL DEF Spec

-------------------------------------------------------------------------------
(***************************************************************************)
(* A mechanism that only faults is given up in time.                       *)
(***************************************************************************)
ThresholdIsExceeded ==
  MinObservations > 0 /\ (Capacity - 1) * ThresholdDen > ThresholdNum * Capacity

\* A window of nothing but faults, as long as the contract has patience, trips
\* its mechanism; so does a full one with a single answer in it.
TrippedWindow(window) ==
  /\ Len(window) >= MinObservations
  /\ Cardinality(FaultsIn(window)) * ThresholdDen > ThresholdNum * Len(window)

LEMMA FaultsTrip ==
  ASSUME ThresholdIsExceeded, NEW n \in Nat, NEW k \in Nat,
         n >= 1, n <= Capacity, k = n \/ (n = Capacity /\ k >= n - 1)
  PROVE  k * ThresholdDen > ThresholdNum * n
<1>0. /\ Capacity \in Nat /\ Capacity >= 1
      /\ ThresholdNum \in Nat /\ ThresholdDen \in Nat /\ ThresholdDen >= 1
      /\ (Capacity - 1) * ThresholdDen > ThresholdNum * Capacity
  BY BreakerAssumption DEF ThresholdIsExceeded
<1>1. CASE n = Capacity /\ k >= n - 1
  <2>1. k * ThresholdDen >= (Capacity - 1) * ThresholdDen
    <3>1. PICK d \in Nat : k = (Capacity - 1) + d
      <4>1. k - (Capacity - 1) \in Nat
        BY <1>0, <1>1
      <4> QED
        BY <1>0, <4>1
    <3>2. k * ThresholdDen = (Capacity - 1) * ThresholdDen + d * ThresholdDen
      BY <1>0, <3>1
    <3>3. d * ThresholdDen \in Nat /\ (Capacity - 1) * ThresholdDen \in Nat
      BY <1>0
    <3> QED
      BY <3>2, <3>3
  <2> QED
    BY <1>0, <1>1, <2>1
<1>2. CASE k = n
  <2>1. ThresholdDen > ThresholdNum
    <3>1. CASE ThresholdDen <= ThresholdNum
      <4>1. PICK d \in Nat : ThresholdNum = ThresholdDen + d
        BY <1>0, <3>1
      <4>2. ThresholdNum * Capacity
              = (Capacity - 1) * ThresholdDen + ThresholdDen + d * Capacity
        BY <1>0, <4>1
      <4>3. d * Capacity \in Nat /\ (Capacity - 1) * ThresholdDen \in Nat
        BY <1>0
      <4> QED
        BY <1>0, <4>2, <4>3
    <3> QED
      BY <1>0, <3>1
  <2>2. PICK d \in Nat : ThresholdDen = ThresholdNum + 1 + d
    BY <1>0, <2>1
  <2>3. n * ThresholdDen = ThresholdNum * n + n + d * n
    BY <1>0, <2>2
  <2>4. d * n \in Nat /\ ThresholdNum * n \in Nat
    BY <1>0
  <2> QED
    BY <1>2, <2>3, <2>4
<1> QED
  BY <1>1, <1>2

\* One outcome more: a window that is still only faults, in which its mechanism
\* was not tripped, is no longer than the contract has patience.
LEMMA RecordingGivesUp ==
  ASSUME ThresholdIsExceeded, NEW w \in Seq(BOOLEAN), Len(w) <= Capacity,
         ~TrippedWindow(w), NEW b \in BOOLEAN,
         Cardinality(FaultsIn(Recorded(w, b))) = Len(Recorded(w, b))
  PROVE  Len(Recorded(w, b)) <= MinObservations
<1>0. /\ Capacity \in Nat /\ Capacity >= 1
      /\ MinObservations \in Nat /\ MinObservations >= 1
  BY BreakerAssumption DEF ThresholdIsExceeded
<1>1. Cardinality(FaultsIn(w)) \in Nat /\ Len(w) \in Nat
  BY FaultsInAreCounted
<1>2. CASE Len(w) < Capacity
  <2>1. Recorded(w, b) = Append(w, b) /\ Len(Append(w, b)) = Len(w) + 1
    BY <1>2 DEF Recorded
  <2>2. Cardinality(FaultsIn(w)) + (IF b THEN 1 ELSE 0) = Len(w) + 1
    BY <2>1, AppendCounts
  <2>3. Cardinality(FaultsIn(w)) <= Len(w)
    BY FaultsInAreCounted
  <2>4. Cardinality(FaultsIn(w)) = Len(w)
    BY <1>1, <2>2, <2>3
  <2>5. CASE Len(w) = 0
    BY <1>0, <2>1, <2>5
  <2>6. CASE Len(w) >= 1
    <3>1. Cardinality(FaultsIn(w)) * ThresholdDen > ThresholdNum * Len(w)
      BY <1>1, <2>4, <2>6, FaultsTrip
    <3>2. Len(w) < MinObservations
      BY <1>0, <1>1, <3>1 DEF TrippedWindow
    <3> QED
      BY <1>0, <1>1, <2>1, <3>2
  <2> QED
    BY <1>1, <2>5, <2>6
<1>3. CASE ~(Len(w) < Capacity)
  <2>0. Len(w) = Capacity /\ w # <<>>
    BY <1>0, <1>1, <1>3
  <2>1. Tail(w) \in Seq(BOOLEAN) /\ Len(Tail(w)) = Len(w) - 1
    BY <2>0
  <2>2. Recorded(w, b) = Append(Tail(w), b) /\ Len(Append(Tail(w), b)) = Len(w)
    BY <1>1, <1>3, <2>0, <2>1 DEF Recorded
  <2>3. Cardinality(FaultsIn(Tail(w))) + (IF b THEN 1 ELSE 0) = Len(w)
    BY <2>1, <2>2, AppendCounts
  <2>4. Cardinality(FaultsIn(Tail(w))) \in Nat
    BY <2>1, FaultsInAreCounted
  <2>5. Cardinality(FaultsIn(Tail(w))) <= Cardinality(FaultsIn(w))
    BY <2>0, TailForgets
  <2>6. Cardinality(FaultsIn(w)) >= Len(w) - 1
    BY <1>1, <2>3, <2>4, <2>5
  <2>7. Cardinality(FaultsIn(w)) * ThresholdDen > ThresholdNum * Len(w)
    BY <1>0, <1>1, <2>0, <2>6, FaultsTrip
  <2>8. Len(w) < MinObservations
    BY <1>0, <1>1, <2>7 DEF TrippedWindow
  <2> QED
    BY <1>0, <1>1, <2>2, <2>8
<1> QED
  BY <1>2, <1>3

LEMMA NextGivesUp == TypeOK /\ FaultyIsGivenUp /\ [Next]_vars => FaultyIsGivenUp'
<1> SUFFICES ASSUME TypeOK, FaultyIsGivenUp, [Next]_vars, ThresholdIsExceeded,
                    NEW n \in Name, faults(n)' = observations(n)'
             PROVE  observations(n)' <= MinObservations
  BY DEF FaultyIsGivenUp, ThresholdIsExceeded
<1>0. MinObservations \in Nat /\ (faults(n) = observations(n) => observations(n) <= MinObservations)
  BY BreakerAssumption DEF FaultyIsGivenUp, ThresholdIsExceeded
<1>1. CASE health'[n] = health[n]
  BY <1>0, <1>1 DEF faults, observations
<1>2. CASE Consult
  <2>1. CASE UNCHANGED health
    BY <1>1, <2>1
  <2>2. CASE /\ Considering /\ ~is_tripped(Current)
             /\ \E b \in BOOLEAN : health' = [health EXCEPT ![Current] = Recorded(@, b)]
    <3>1. PICK b \in BOOLEAN : health' = [health EXCEPT ![Current] = Recorded(@, b)]
      BY <2>2
    <3>2. CASE n # Current
      BY <1>1, <3>1, <3>2 DEF TypeOK
    <3>3. CASE n = Current
      <4>1. health'[n] = Recorded(health[n], b)
        BY <3>1, <3>3 DEF TypeOK
      <4>2. health[n] \in Seq(BOOLEAN) /\ Len(health[n]) <= Capacity
        BY DEF TypeOK
      <4>3. ~TrippedWindow(health[n])
        BY <2>2, <3>3 DEF TrippedWindow, is_tripped, faults, observations, FaultsIn
      <4>4. Cardinality(FaultsIn(Recorded(health[n], b))) = Len(Recorded(health[n], b))
        BY <4>1 DEF faults, observations, FaultsIn
      <4>5. Len(Recorded(health[n], b)) <= MinObservations
        BY <4>2, <4>3, <4>4, RecordingGivesUp
      <4> QED
        BY <4>1, <4>5 DEF observations
    <3> QED
      BY <3>2, <3>3
  <2> QED
    BY <1>2, <2>1, <2>2, ConsultStep
<1>3. ASSUME NEW name \in Name, Reset(name)
      PROVE  observations(n)' <= MinObservations
  <2>1. health'[n] = IF n = name THEN <<>> ELSE health[n]
    BY <1>3 DEF Reset, TypeOK
  <2>2. CASE n = name
    <3>1. Len(health'[n]) = 0
      BY <2>1, <2>2
    <3> QED
      BY <1>0, <3>1 DEF observations
  <2> QED
    BY <1>1, <2>1, <2>2
<1>4. CASE UNCHANGED health
  BY <1>1, <1>4
<1> QED
  BY <1>2, <1>3, <1>4 DEF Next, Call, vars

\* A mechanism that only faults is tripped by the time the contract's minimum of
\* observations is in, whatever answers its window held before: no request is
\* sent to it beyond those (ET-RES-001; the window of verification/resilience.py
\* drops the oldest outcome for the newest).
THEOREM FaultyGivenUp == Spec => []FaultyIsGivenUp
<1>1. Init => FaultyIsGivenUp
  <2> SUFFICES ASSUME Init, NEW n \in Name PROVE observations(n) <= MinObservations
    BY DEF FaultyIsGivenUp
  <2>1. Len(health[n]) = 0
    BY DEF Init
  <2> QED
    BY <2>1, BreakerAssumption DEF observations
<1> QED
  BY <1>1, NextGivesUp, BreakerTypeCorrect, PTL DEF Spec

===============================================================================
