--------------------------- MODULE LifecycleProofs ---------------------------
(***************************************************************************)
(* Theorems about Lifecycle, for any decisions, actors and contract.       *)
(*                                                                         *)
(* The inductive invariant is Inv (the types and the contiguity of every   *)
(* history); everything the machine promises follows from it step by step. *)
(***************************************************************************)
EXTENDS Lifecycle, FiniteSetTheorems, WellFoundedInduction, TLAPS

(***************************************************************************)
(* Facts about the operators.                                              *)
(***************************************************************************)
\* Every nonempty set of positions has a first one.
LEMMA FirstExists ==
  ASSUME NEW S, S \subseteq Nat, S # {}
  PROVE  \E i \in S : \A j \in S : i <= j
<1>1. PICK i \in S : \A j \in S : ~(<<j, i>> \in OpToRel(<, Nat))
  BY NatLessThanWellFounded, WFMin
<1>2. \A j \in S : ~(j < i)
  BY <1>1 DEF OpToRel
<1> QED
  BY <1>2

\* The rule that governs a declared transition is one of the contract's, for
\* that source and target.
LEMMA RuleIsDeclared ==
  ASSUME NEW from \in LifecycleState, NEW to \in LifecycleState, Declared(from, to)
  PROVE  \E k \in DOMAIN Rules : /\ Rules[k].from = from
                                 /\ Rules[k].to = to
                                 /\ transition_rule(from, to) = Rules[k]
<1>1. Matching(from, to) \subseteq Nat
  BY LifecycleAssumption DEF Matching
<1>2. \E i \in Matching(from, to) : \A j \in Matching(from, to) : i <= j
  BY <1>1, FirstExists DEF Declared
<1> QED
  BY <1>2 DEF transition_rule, Matching

\* The positions at which a decision's transitions stand are finitely many.
LEMMA ForDecisionFinite ==
  ASSUME log \in Seq(Transition), NEW d
  PROVE  /\ IsFiniteSet(for_decision(d))
         /\ Cardinality(for_decision(d)) \in Nat
<1>1. DOMAIN log = 1 .. Len(log) /\ Len(log) \in Nat
  OBVIOUS
<1>2. IsFiniteSet(1 .. Len(log))
  BY <1>1, FS_Interval
<1>3. IsFiniteSet(for_decision(d))
  BY <1>1, <1>2, FS_Subset DEF for_decision
<1> QED
  BY <1>3, FS_CardinalityType

\* What appending one transition does to the histories.
LEMMA AppendExtends ==
  ASSUME log \in Seq(Transition), NEW t \in Transition, log' = Append(log, t),
         NEW d \in Decision
  PROVE  /\ log' \in Seq(Transition)
         /\ Len(log') = Len(log) + 1
         /\ DOMAIN log' = DOMAIN log \cup {Len(log) + 1}
         /\ Len(log) + 1 \notin DOMAIN log
         /\ \A i \in DOMAIN log : log'[i] = log[i] /\ i < Len(log) + 1
         /\ log'[Len(log) + 1] = t
         /\ for_decision(d)' = IF d = t.decision_id
                                 THEN for_decision(d) \cup {Len(log) + 1}
                                 ELSE for_decision(d)
         /\ Cardinality(for_decision(d)') = IF d = t.decision_id
                                              THEN Cardinality(for_decision(d)) + 1
                                              ELSE Cardinality(for_decision(d))
<1>1. /\ log' \in Seq(Transition)
      /\ Len(log') = Len(log) + 1
      /\ DOMAIN log' = DOMAIN log \cup {Len(log) + 1}
      /\ Len(log) + 1 \notin DOMAIN log
      /\ \A i \in DOMAIN log : log'[i] = log[i] /\ i < Len(log) + 1
      /\ log'[Len(log) + 1] = t
  OBVIOUS
<1>2. for_decision(d)' = IF d = t.decision_id
                           THEN for_decision(d) \cup {Len(log) + 1}
                           ELSE for_decision(d)
  BY <1>1 DEF for_decision
<1>3. Len(log) + 1 \notin for_decision(d)
  BY <1>1 DEF for_decision
<1>4. IsFiniteSet(for_decision(d))
  BY ForDecisionFinite
<1>5. Cardinality(for_decision(d) \cup {Len(log) + 1}) = Cardinality(for_decision(d)) + 1
  BY <1>3, <1>4, FS_AddElement
<1> QED
  BY <1>1, <1>2, <1>5

\* The transition with the highest sequence is the one project_state() takes.
LEMMA LastIsUnique ==
  ASSUME NEW history, NEW S, NEW i \in S,
         \A j \in S : history[j].sequence \in Nat,
         \A j \in S : history[j].sequence <= history[i].sequence,
         \A j \in S : history[j].sequence = history[i].sequence => j = i
  PROVE  Latest(history, S) = i
<1>1. \A x \in S : (\A j \in S : history[j].sequence <= history[x].sequence) => x = i
  <2> SUFFICES ASSUME NEW x \in S,
                      \A j \in S : history[j].sequence <= history[x].sequence
               PROVE  history[x].sequence = history[i].sequence
    OBVIOUS
  <2>1. history[x].sequence <= history[i].sequence
    OBVIOUS
  <2>2. history[i].sequence <= history[x].sequence
    OBVIOUS
  <2> QED
    BY <2>1, <2>2
<1> QED
  BY <1>1 DEF Latest

\* In a contiguous history, the state at a position is the target of the
\* transition that holds it, and the initial state at position 0.
LEMMA StateAtPosition ==
  ASSUME log \in Seq(Transition), SequencesContiguous, NEW d \in Decision
  PROVE  /\ \A i \in for_decision(d) :
              /\ log[i].sequence \in 1 .. Cardinality(for_decision(d))
              /\ state_at(d, log[i].sequence) = log[i].to_state
         /\ \A n \in 1 .. Cardinality(for_decision(d)) :
              \E i \in for_decision(d) : log[i].sequence = n
         /\ state_at(d, 0) = InitialState
         /\ current_state(d) = state_at(d, Cardinality(for_decision(d)))
<1>0. Cardinality(for_decision(d)) \in Nat
  BY ForDecisionFinite
<1>1. /\ for_decision(d) \subseteq Nat
      /\ \A i \in for_decision(d) : /\ log[i] \in Transition
                                    /\ log[i].sequence \in Nat \ {0}
  <2>1. DOMAIN log \subseteq Nat /\ \A i \in DOMAIN log : log[i] \in Transition
    OBVIOUS
  <2>2. \A x \in Transition : x.sequence \in Nat \ {0}
    BY DEF Transition
  <2> QED
    BY <2>1, <2>2 DEF for_decision
<1>2. {log[i].sequence : i \in for_decision(d)} = 1 .. Cardinality(for_decision(d))
  BY DEF SequencesContiguous
<1>3. \A i, j \in for_decision(d) : log[i].sequence = log[j].sequence => i = j
  BY <1>1 DEF SequencesContiguous
<1>4. \A i \in for_decision(d) : log[i].sequence \in 1 .. Cardinality(for_decision(d))
  BY <1>2
<1>5. ASSUME NEW i \in for_decision(d)
      PROVE  state_at(d, log[i].sequence) = log[i].to_state
  <2> DEFINE S == {j \in for_decision(d) : log[j].sequence <= log[i].sequence}
  <2>1. i \in S
    BY <1>1
  <2>2. Latest(log, S) = i
    <3>1. \A j \in S : log[j].sequence \in Nat
      BY <1>1
    <3>2. \A j \in S : log[j].sequence = log[i].sequence => j = i
      BY <1>3
    <3>3. \A j \in S : log[j].sequence <= log[i].sequence
      OBVIOUS
    <3> HIDE DEF S
    <3> QED
      BY <2>1, <3>1, <3>2, <3>3, LastIsUnique
  <2> QED
    BY <2>1, <2>2 DEF state_at, project_state
<1>6. state_at(d, 0) = InitialState
  <2>1. {i \in for_decision(d) : log[i].sequence <= 0} = {}
    BY <1>1
  <2> QED
    BY <2>1 DEF state_at, project_state
<1>7. current_state(d) = state_at(d, Cardinality(for_decision(d)))
  <2>1. {i \in for_decision(d) : log[i].sequence <= Cardinality(for_decision(d))}
          = for_decision(d)
    BY <1>0, <1>1, <1>4
  <2> QED
    BY <2>1 DEF current_state, state_at
<1> QED
  BY <1>2, <1>4, <1>5, <1>6, <1>7

\* A decision's state is always one of the lifecycle's.
LEMMA CurrentStateTyped ==
  ASSUME log \in Seq(Transition), SequencesContiguous, NEW d \in Decision
  PROVE  current_state(d) \in LifecycleState
<1>0. Cardinality(for_decision(d)) \in Nat
  BY ForDecisionFinite
<1>1. CASE Cardinality(for_decision(d)) = 0
  BY <1>1, StateAtPosition, LifecycleAssumption
<1>2. CASE Cardinality(for_decision(d)) # 0
  <2>1. PICK i \in for_decision(d) : log[i].sequence = Cardinality(for_decision(d))
    BY <1>0, <1>2, StateAtPosition
  <2>2. current_state(d) = log[i].to_state
    BY <2>1, StateAtPosition
  <2>3. log[i] \in Transition
    BY DEF for_decision
  <2> QED
    BY <2>2, <2>3 DEF Transition
<1> QED
  BY <1>1, <1>2

-------------------------------------------------------------------------------
(***************************************************************************)
(* Whoever appends: contiguity and stability of the histories.             *)
(***************************************************************************)
\* Appending in order keeps every history contiguous.
LEMMA AppendKeepsContiguity ==
  ASSUME log \in Seq(Transition), SequencesContiguous,
         NEW t \in Transition, InOrder(t), log' = Append(log, t)
  PROVE  SequencesContiguous'
<1> DEFINE new == Len(log) + 1
<1> SUFFICES ASSUME NEW d \in Decision
             PROVE  /\ \A i, j \in for_decision(d)' :
                         i < j => log'[i].sequence < log'[j].sequence
                    /\ {log'[i].sequence : i \in for_decision(d)'}
                         = 1 .. Cardinality(for_decision(d)')
  BY DEF SequencesContiguous
<1>1. /\ for_decision(d) \subseteq DOMAIN log
      /\ Cardinality(for_decision(d)) \in Nat
  BY ForDecisionFinite DEF for_decision
<1>2. CASE d # t.decision_id
  <2>1. /\ for_decision(d)' = for_decision(d)
        /\ Cardinality(for_decision(d)') = Cardinality(for_decision(d))
        /\ \A i \in for_decision(d) : log'[i] = log[i]
    BY <1>1, <1>2, AppendExtends
  <2>2. {log'[i].sequence : i \in for_decision(d)}
          = {log[i].sequence : i \in for_decision(d)}
    BY <2>1
  <2>3. \A i, j \in for_decision(d) : i < j => log'[i].sequence < log'[j].sequence
    BY <2>1 DEF SequencesContiguous
  <2> QED
    BY <2>1, <2>2, <2>3 DEF SequencesContiguous
<1>3. CASE d = t.decision_id
  <2>1. /\ for_decision(d)' = for_decision(d) \cup {new}
        /\ Cardinality(for_decision(d)') = Cardinality(for_decision(d)) + 1
        /\ \A i \in for_decision(d) : log'[i] = log[i] /\ i < new
        /\ log'[new] = t
    BY <1>1, <1>3, AppendExtends
  <2>2. t.sequence = Cardinality(for_decision(d)) + 1
    BY <1>3 DEF InOrder, expected
  <2>3. \A i \in for_decision(d) :
          log[i].sequence \in 1 .. Cardinality(for_decision(d))
    BY StateAtPosition
  <2>4. \A i, j \in for_decision(d)' : i < j => log'[i].sequence < log'[j].sequence
    <3> SUFFICES ASSUME NEW i \in for_decision(d)', NEW j \in for_decision(d)', i < j
                 PROVE  log'[i].sequence < log'[j].sequence
      OBVIOUS
    <3>1. i \in for_decision(d)
      BY <1>1, <2>1
    <3>2. CASE j = new
      BY <1>1, <2>1, <2>2, <2>3, <3>1, <3>2
    <3>3. CASE j \in for_decision(d)
      BY <2>1, <3>1, <3>3 DEF SequencesContiguous
    <3> QED
      BY <2>1, <3>2, <3>3
  <2>5. {log'[i].sequence : i \in for_decision(d)'}
          = {log[i].sequence : i \in for_decision(d)} \cup {t.sequence}
    BY <2>1
  <2>6. {log[i].sequence : i \in for_decision(d)} = 1 .. Cardinality(for_decision(d))
    BY DEF SequencesContiguous
  <2>7. 1 .. (Cardinality(for_decision(d)) + 1)
          = (1 .. Cardinality(for_decision(d))) \cup {Cardinality(for_decision(d)) + 1}
    BY <1>1
  <2> QED
    BY <2>1, <2>2, <2>4, <2>5, <2>6, <2>7
<1> QED
  BY <1>2, <1>3

\* Appending in order leaves the state at every recorded position as it was.
LEMMA AppendKeepsPast ==
  ASSUME log \in Seq(Transition), SequencesContiguous,
         NEW t \in Transition, InOrder(t), log' = Append(log, t),
         NEW d \in Decision, NEW n \in 0 .. Cardinality(for_decision(d))
  PROVE  state_at(d, n)' = state_at(d, n)
<1> DEFINE new == Len(log) + 1
           S == {i \in for_decision(d) : log[i].sequence <= n}
<1>1. /\ for_decision(d) \subseteq DOMAIN log
      /\ Cardinality(for_decision(d)) \in Nat
      /\ \A i \in for_decision(d) : log'[i] = log[i]
  BY ForDecisionFinite, AppendExtends DEF for_decision
<1>2. {i \in for_decision(d)' : log'[i].sequence <= n} = S
  <2>1. CASE d = t.decision_id
    <3>1. for_decision(d)' = for_decision(d) \cup {new} /\ log'[new] = t
      BY <2>1, AppendExtends
    <3>2. t.sequence = Cardinality(for_decision(d)) + 1
      BY <2>1 DEF InOrder, expected
    <3>3. ~(t.sequence <= n)
      BY <1>1, <3>2
    <3> QED
      BY <1>1, <3>1, <3>3
  <2>2. CASE d # t.decision_id
    BY <1>1, <2>2, AppendExtends
  <2> QED
    BY <2>1, <2>2
<1>3. state_at(d, n)' = IF S = {} THEN InitialState ELSE log'[Latest(log', S)].to_state
  BY <1>2 DEF state_at, project_state
<1>4. CASE n = 0
  <2>1. S = {}
    <3>1. \A i \in for_decision(d) : log[i].sequence \in 1 .. Cardinality(for_decision(d))
      BY StateAtPosition
    <3> QED
      BY <1>1, <1>4, <3>1
  <2> QED
    BY <1>3, <2>1 DEF state_at, project_state
<1>5. CASE n # 0
  <2>1. PICK i \in for_decision(d) : log[i].sequence = n
    BY <1>1, <1>5, StateAtPosition
  <2>2. state_at(d, n) = log[i].to_state
    BY <2>1, StateAtPosition
  <2>3. /\ i \in S
        /\ \A j \in S : log[j].sequence \in Nat /\ log[j].sequence <= log[i].sequence
        /\ \A j \in S : log[j].sequence = log[i].sequence => j = i
    <3>1. \A j \in for_decision(d) : log[j].sequence \in 1 .. Cardinality(for_decision(d))
      BY StateAtPosition
    <3>2. \A j \in for_decision(d) : log[j].sequence = log[i].sequence => j = i
      <4>1. DOMAIN log \subseteq Nat
        OBVIOUS
      <4> QED
        BY <1>1, <3>1, <4>1 DEF SequencesContiguous
    <3> QED
      BY <1>1, <2>1, <3>1, <3>2
  <2>4. \A j \in S : log'[j] = log[j]
    BY <1>1
  <2>5. Latest(log', S) = i
    <3>1. \A j \in S : log'[j].sequence \in Nat
      BY <2>3, <2>4
    <3>2. \A j \in S : log'[j].sequence <= log'[i].sequence
      BY <2>3, <2>4
    <3>3. \A j \in S : log'[j].sequence = log'[i].sequence => j = i
      BY <2>3, <2>4
    <3>4. i \in S
      BY <2>3
    <3> HIDE DEF S
    <3> QED
      BY <3>1, <3>2, <3>3, <3>4, LastIsUnique
  <2> HIDE DEF S
  <2>6. state_at(d, n)' = log'[i].to_state
    BY <1>3, <2>3, <2>5
  <2> QED
    BY <2>2, <2>3, <2>4, <2>6
<1> QED
  BY <1>4, <1>5

\* A step of any writer leaves the log alone or appends one valid transition in
\* order.
Appends(t) ==
  /\ t \in Transition
  /\ TransitionIsValid(t)
  /\ InOrder(t)
  /\ log' = Append(log, t)
  /\ t.transition_id = txn + 1
  /\ txn' = txn + 1
  /\ txn < MaxTxn

\* The machine appends only what the contract did not refuse.
Governs(t) ==
  /\ t.from_state = current_state(t.decision_id)
  /\ Refusal(t.decision_id, t.to_state, t.actor, t.successor_decision_id) = None

Inv == TypeOK /\ SequencesContiguous

\* What one call of transition() does.
LEMMA TransitionStep ==
  ASSUME Inv, NEW d \in Decision, NEW to \in LifecycleState, NEW a \in Actor,
         NEW s \in Decision \cup {None}, transition(d, to, a, s)
  PROVE  /\ \/ UNCHANGED log /\ txn' \in {txn, txn + 1} /\ txn' \in 0 .. MaxTxn
            \/ \E t \in Transition : Appends(t) /\ Governs(t)
         /\ last' \in CallType
         /\ last'.how # "ImmutableRecordViolation"
         /\ last'.how = "ValueError" =>
              /\ last' = Call("ValueError", d, to, a, s)
              /\ Refusal(d, to, a, s) = None
              /\ ~TransitionIsValid(Proposed(d, to, a, s))
<1> DEFINE t == Proposed(d, to, a, s)
<1> USE DEF Inv, TypeOK
<1>1. t \in Transition
  <2>1. current_state(d) \in LifecycleState
    BY CurrentStateTyped
  <2>2. expected(d) \in Nat \ {0}
    BY ForDecisionFinite DEF expected
  <2>3. txn + 1 \in Nat \ {0}
    BY LifecycleAssumption
  <2> QED
    BY <2>1, <2>2, <2>3 DEF Proposed, Transition
<1>2. /\ t.decision_id = d
      /\ t.sequence = expected(d)
      /\ t.transition_id = txn + 1
      /\ t.from_state = current_state(d)
      /\ t.to_state = to
      /\ t.actor = a
      /\ t.successor_decision_id = s
  BY DEF Proposed
<1>3. InOrder(t)
  <2>1. Cardinality(for_decision(d)) \in Nat
    BY ForDecisionFinite
  <2>2. ASSUME NEW i \in DOMAIN log, log[i].decision_id = d
        PROVE  log[i].sequence # expected(d)
    <3>1. i \in for_decision(d)
      BY <2>2 DEF for_decision
    <3>2. log[i].sequence \in 1 .. Cardinality(for_decision(d))
      BY <3>1, StateAtPosition
    <3> QED
      BY <2>1, <3>2 DEF expected
  <2> QED
    BY <1>2, <2>2 DEF InOrder, seen
<1>4. Refusal(d, to, a, s) \in {None, "InvalidTransition", "MissingAccountableReview"}
  BY DEF Refusal
<1>5. \A how \in Outcome : Call(how, d, to, a, s) \in CallType
                           /\ Call(how, d, to, a, s).how = how
  BY DEF Call, CallType
<1>6. Answer("recorded", t) = Call("recorded", d, to, a, s)
  BY <1>2 DEF Answer
<1> HIDE DEF t
<1>7. CASE Refusal(d, to, a, s) # None
  <2>1. last' = Call(Refusal(d, to, a, s), d, to, a, s) /\ UNCHANGED <<log, txn>>
    BY <1>7 DEF transition
  <2>2. last' \in CallType /\ last'.how = Refusal(d, to, a, s)
    BY <1>4, <1>5, <1>7, <2>1 DEF Outcome
  <2> QED
    BY <1>4, <1>7, <2>1, <2>2
<1>8. CASE Refusal(d, to, a, s) = None /\ ~TransitionIsValid(t)
  <2>1. /\ last' = Call("ValueError", d, to, a, s)
        /\ UNCHANGED log
        /\ txn' = txn + 1
        /\ txn < MaxTxn
    BY <1>8 DEF transition, t
  <2>2. last' \in CallType /\ last'.how = "ValueError"
    BY <1>5, <2>1 DEF Outcome
  <2>3. txn' \in 0 .. MaxTxn
    BY <2>1, LifecycleAssumption
  <2> QED
    BY <1>8, <2>1, <2>2, <2>3 DEF t
<1>9. CASE Refusal(d, to, a, s) = None /\ TransitionIsValid(t)
  <2>1. append(t) /\ txn' = txn + 1 /\ txn < MaxTxn
    BY <1>9 DEF transition, t
  <2>2. log' = Append(log, t) /\ last' = Call("recorded", d, to, a, s)
    BY <1>3, <1>6, <2>1 DEF append
  <2>3. last' \in CallType /\ last'.how = "recorded"
    BY <1>5, <2>2 DEF Outcome
  <2>4. Appends(t) /\ Governs(t)
    BY <1>1, <1>2, <1>3, <1>9, <2>1, <2>2 DEF Appends, Governs
  <2> QED
    BY <1>1, <2>3, <2>4
<1> QED
  BY <1>7, <1>8, <1>9

-------------------------------------------------------------------------------
(***************************************************************************)
(* The steps of the two specifications.                                    *)
(***************************************************************************)
\* Every step of the machine is a call of transition().
LEMMA MachineStep ==
  ASSUME Inv, Next
  PROVE  /\ \/ UNCHANGED log /\ txn' \in {txn, txn + 1} /\ txn' \in 0 .. MaxTxn
            \/ \E t \in Transition : Appends(t) /\ Governs(t)
         /\ last' \in CallType
         /\ last'.how # "ImmutableRecordViolation"
         /\ last'.how = "ValueError" =>
              \E d \in Decision, to \in LifecycleState, a \in Actor,
                 s \in Decision \cup {None} :
                /\ last' = Call("ValueError", d, to, a, s)
                /\ Refusal(d, to, a, s) = None
                /\ ~TransitionIsValid(Proposed(d, to, a, s))
<1>1. \E d \in Decision, to \in LifecycleState, a \in Actor,
         s \in Decision \cup {None} : transition(d, to, a, s)
  <2>1. CASE \E d \in Decision, a \in Actor : accept(d, a)
    BY <2>1 DEF accept, LifecycleState
  <2>2. CASE \E d \in Decision, a \in Actor : reject(d, a)
    BY <2>2 DEF reject, LifecycleState
  <2>3. CASE \E d \in Decision, a \in Actor, s \in Decision : supersede(d, s, a)
    BY <2>3 DEF supersede, LifecycleState
  <2> QED
    BY <2>1, <2>2, <2>3 DEF Next
<1>2. PICK d \in Decision, to \in LifecycleState, a \in Actor,
           s \in Decision \cup {None} : transition(d, to, a, s)
  BY <1>1
<1>3. last'.how = "ValueError" =>
        /\ last' = Call("ValueError", d, to, a, s)
        /\ Refusal(d, to, a, s) = None
        /\ ~TransitionIsValid(Proposed(d, to, a, s))
  BY <1>2, TransitionStep
<1>4. /\ \/ UNCHANGED log /\ txn' \in {txn, txn + 1} /\ txn' \in 0 .. MaxTxn
         \/ \E t \in Transition : Appends(t) /\ Governs(t)
      /\ last' \in CallType
      /\ last'.how # "ImmutableRecordViolation"
  BY <1>2, TransitionStep
<1> QED
  BY <1>3, <1>4

\* A writer of its own making appends a valid transition in order, or is refused.
LEMMA DirectStep ==
  ASSUME Inv, OpenNext
  PROVE  /\ \/ UNCHANGED log /\ txn' \in {txn, txn + 1} /\ txn' \in 0 .. MaxTxn
            \/ \E t \in Transition : Appends(t)
         /\ last' \in CallType
<1>1. PICK d \in Decision, from \in LifecycleState \cup {None}, to \in LifecycleState,
           a \in Actor, s \in Decision \cup {None}, n \in 1 .. MaxTxn :
        AppendDirectly([transition_id |-> txn + 1, decision_id |-> d,
                        sequence |-> n, from_state |-> from, to_state |-> to,
                        actor |-> a, successor_decision_id |-> s])
  BY DEF OpenNext
<1> DEFINE t == [transition_id |-> txn + 1, decision_id |-> d,
                 sequence |-> n, from_state |-> from, to_state |-> to,
                 actor |-> a, successor_decision_id |-> s]
<1>2. txn \in Nat /\ MaxTxn \in Nat
  BY LifecycleAssumption DEF Inv, TypeOK
<1>3. t \in Transition /\ t.transition_id = txn + 1
  BY <1>2 DEF Transition
<1>4. \A how \in Outcome : Answer(how, t) \in CallType
  BY DEF Answer, Call, CallType
<1> HIDE DEF t
<1>5. /\ txn < MaxTxn
      /\ txn' = txn + 1
      /\ TransitionIsValid(t)
      /\ append(t)
  BY <1>1 DEF AppendDirectly, t
<1>6. CASE InOrder(t)
  <2>1. log' = Append(log, t) /\ last' = Answer("recorded", t)
    BY <1>5, <1>6 DEF append
  <2>2. Appends(t)
    BY <1>3, <1>5, <1>6, <2>1 DEF Appends
  <2> QED
    BY <1>3, <1>4, <2>1, <2>2 DEF Outcome
<1>7. CASE ~InOrder(t)
  <2>1. UNCHANGED log /\ last' = Answer("ImmutableRecordViolation", t)
    BY <1>5, <1>7 DEF append
  <2>2. txn' \in 0 .. MaxTxn
    BY <1>2, <1>5
  <2> QED
    BY <1>4, <1>5, <2>1, <2>2 DEF Outcome
<1> QED
  BY <1>6, <1>7

\* Appending keeps the identifiers distinct and everything typed.
LEMMA AppendKeepsInv ==
  ASSUME Inv, NEW t \in Transition, Appends(t), last' \in CallType
  PROVE  Inv'
<1> DEFINE new == Len(log) + 1
<1>1. log \in Seq(Transition) /\ txn \in Nat /\ MaxTxn \in Nat
  BY LifecycleAssumption DEF Inv, TypeOK
<1>2. /\ InOrder(t) /\ log' = Append(log, t)
      /\ t.transition_id = txn + 1 /\ txn' = txn + 1 /\ txn < MaxTxn
  BY DEF Appends
<1>3. /\ log' \in Seq(Transition)
      /\ DOMAIN log' = DOMAIN log \cup {new}
      /\ \A i \in DOMAIN log : log'[i] = log[i] /\ i < new
      /\ log'[new] = t
  BY <1>1, <1>2
<1>4. /\ \A i \in DOMAIN log : log[i].transition_id <= txn /\ log[i].transition_id \in Nat
      /\ \A i, j \in DOMAIN log : i < j => log[i].transition_id < log[j].transition_id
  <2>1. \A i \in DOMAIN log : log[i] \in Transition
    BY <1>1
  <2>2. \A x \in Transition : x.transition_id \in Nat
    BY DEF Transition
  <2> QED
    BY <2>1, <2>2 DEF Inv, TypeOK
<1>5. \A i \in DOMAIN log' : log'[i].transition_id <= txn'
  BY <1>1, <1>2, <1>3, <1>4
<1>6. ASSUME NEW i \in DOMAIN log', NEW j \in DOMAIN log', i < j
      PROVE  log'[i].transition_id < log'[j].transition_id
  <2>1. i \in DOMAIN log
    <3>1. new \in Nat /\ \A k \in DOMAIN log' : k <= new
      BY <1>1, <1>3
    <3> QED
      BY <1>1, <1>3, <1>6, <3>1
  <2>2. CASE j = new
    BY <1>1, <1>2, <1>3, <1>4, <2>1, <2>2
  <2>3. CASE j \in DOMAIN log
    BY <1>3, <1>4, <1>6, <2>1, <2>3
  <2> QED
    BY <1>3, <2>2, <2>3
<1>7. SequencesContiguous'
  BY <1>1, <1>2, AppendKeepsContiguity DEF Inv
<1>8. txn' \in 0 .. MaxTxn
  BY <1>1, <1>2
<1> QED
  BY <1>3, <1>5, <1>6, <1>7, <1>8 DEF Inv, TypeOK

\* A step that leaves the log alone keeps the invariant as well.
LEMMA StutterKeepsInv ==
  ASSUME Inv, UNCHANGED log, txn' \in {txn, txn + 1}, txn' \in 0 .. MaxTxn,
         last' \in CallType \cup {<<>>}
  PROVE  Inv'
<1>1. txn \in Nat
  BY LifecycleAssumption DEF Inv, TypeOK
<1>2. /\ \A i \in DOMAIN log : log[i].transition_id <= txn'
      /\ \A i, j \in DOMAIN log : i < j => log[i].transition_id < log[j].transition_id
  <2>1. \A i \in DOMAIN log : log[i] \in Transition
    BY DEF Inv, TypeOK
  <2>2. \A x \in Transition : x.transition_id \in Nat
    BY DEF Transition
  <2> QED
    BY <1>1, <2>1, <2>2 DEF Inv, TypeOK
<1>3. SequencesContiguous'
  <2>1. \A d \in Decision : for_decision(d)' = for_decision(d)
    BY DEF for_decision
  <2>2. ASSUME NEW d \in Decision
        PROVE  /\ \A i, j \in for_decision(d)' : i < j => log'[i].sequence < log'[j].sequence
               /\ {log'[i].sequence : i \in for_decision(d)'} = 1 .. Cardinality(for_decision(d)')
    <3> DEFINE S == for_decision(d)
    <3>1. /\ \A i, j \in S : i < j => log[i].sequence < log[j].sequence
          /\ {log[i].sequence : i \in S} = 1 .. Cardinality(S)
      BY DEF Inv, SequencesContiguous
    <3>2. log' = log /\ for_decision(d)' = S
      BY <2>1
    <3> HIDE DEF S
    <3> QED
      BY <3>1, <3>2
  <2> QED
    BY <2>2 DEF SequencesContiguous
<1> QED
  BY <1>2, <1>3 DEF Inv, TypeOK

\* Both specifications start in the invariant.
LEMMA InitInv == Init => Inv
<1> SUFFICES ASSUME Init PROVE Inv
  OBVIOUS
<1>1. log = <<>> /\ txn = 0 /\ last = <<>>
  BY DEF Init
<1>2. \A d \in Decision : for_decision(d) = {}
  BY <1>1 DEF for_decision
<1>3. SequencesContiguous
  BY <1>2, FS_EmptySet DEF SequencesContiguous
<1>4. TypeOK
  BY <1>1, LifecycleAssumption DEF TypeOK
<1> QED
  BY <1>3, <1>4 DEF Inv

LEMMA NextKeepsInv == Inv /\ [Next]_vars => Inv'
<1> SUFFICES ASSUME Inv, [Next]_vars PROVE Inv'
  OBVIOUS
<1>1. CASE Next
  <2>1. CASE UNCHANGED log /\ txn' \in {txn, txn + 1} /\ txn' \in 0 .. MaxTxn
    BY <1>1, <2>1, MachineStep, StutterKeepsInv
  <2>2. CASE \E t \in Transition : Appends(t) /\ Governs(t)
    BY <1>1, <2>2, MachineStep, AppendKeepsInv
  <2> QED
    BY <1>1, <2>1, <2>2, MachineStep
<1>2. CASE UNCHANGED vars
  BY <1>2, StutterKeepsInv DEF vars, Inv, TypeOK
<1> QED
  BY <1>1, <1>2

LEMMA OpenNextKeepsInv == Inv /\ [OpenNext]_vars => Inv'
<1> SUFFICES ASSUME Inv, [OpenNext]_vars PROVE Inv'
  OBVIOUS
<1>1. CASE OpenNext
  <2>1. CASE UNCHANGED log /\ txn' \in {txn, txn + 1} /\ txn' \in 0 .. MaxTxn
    BY <1>1, <2>1, DirectStep, StutterKeepsInv
  <2>2. CASE \E t \in Transition : Appends(t)
    BY <1>1, <2>2, DirectStep, AppendKeepsInv
  <2> QED
    BY <1>1, <2>1, <2>2, DirectStep
<1>2. CASE UNCHANGED vars
  BY <1>2, StutterKeepsInv DEF vars, Inv, TypeOK
<1> QED
  BY <1>1, <1>2

-------------------------------------------------------------------------------
(***************************************************************************)
(* Theorems: whoever writes.                                               *)
(***************************************************************************)
\* Every reachable state of the machine is well formed, and every history in it
\* is contiguous.
THEOREM TypeCorrect == Spec => []TypeOK
<1>1. Inv => TypeOK
  BY DEF Inv
<1> QED
  BY InitInv, NextKeepsInv, <1>1, PTL DEF Spec

\* The invariant holds when the log is written directly, too.
THEOREM OpenInvariant == OpenSpec => []Inv
BY InitInv, OpenNextKeepsInv, PTL DEF OpenSpec

\* InMemoryTransitionLog.append() alone keeps every history gapless and without
\* a rewritten position, whatever its callers hand it.
THEOREM LogIsContiguous == OpenSpec => []SequencesContiguous
<1>1. Inv => SequencesContiguous
  BY DEF Inv
<1> QED
  BY OpenInvariant, <1>1, PTL

\* Every recorded transition satisfies the validators of LifecycleTransition.
AllValid == \A i \in DOMAIN log : TransitionIsValid(log[i])

LEMMA AppendKeepsAllValid ==
  ASSUME Inv, AllValid, NEW t \in Transition, Appends(t)
  PROVE  AllValid'
<1>1. log \in Seq(Transition) /\ log' = Append(log, t) /\ TransitionIsValid(t)
  BY DEF Inv, TypeOK, Appends
<1>2. /\ DOMAIN log' = DOMAIN log \cup {Len(log) + 1}
      /\ \A i \in DOMAIN log : log'[i] = log[i]
      /\ log'[Len(log) + 1] = t
  BY <1>1
<1>3. \A i \in DOMAIN log' : TransitionIsValid(log'[i])
  BY <1>1, <1>2 DEF AllValid
<1> QED
  BY <1>3 DEF AllValid, TransitionIsValid, is_accountable_human, HasRole

\* Whatever the contract asks for and whoever appends, a decision stands
\* accepted or rejected through an accountable human only, and superseded only
\* with its successor named (ET-LC-001..003).
THEOREM Attribution == OpenSpec => []ReviewsAreAttributed
<1>1. Init => AllValid
  BY DEF Init, AllValid
<1>2. Inv /\ AllValid /\ [OpenNext]_vars => AllValid'
  <2> SUFFICES ASSUME Inv, AllValid, [OpenNext]_vars PROVE AllValid'
    OBVIOUS
  <2>1. CASE UNCHANGED log
    BY <2>1 DEF AllValid, TransitionIsValid, is_accountable_human, HasRole
  <2>2. CASE \E t \in Transition : Appends(t)
    BY <2>2, AppendKeepsAllValid
  <2>3. CASE OpenNext
    BY <2>1, <2>2, <2>3, DirectStep
  <2> QED
    BY <2>1, <2>3 DEF vars
<1>3. Inv /\ AllValid => ReviewsAreAttributed
  <2> SUFFICES ASSUME Inv, AllValid, NEW d \in Decision,
                      NEW n \in 1 .. Cardinality(for_decision(d))
               PROVE  \E i \in for_decision(d) :
                        /\ log[i].sequence = n
                        /\ state_at(d, n) \in {"ACCEPTED", "REJECTED"} =>
                             log[i].actor \in Principal
                        /\ state_at(d, n) = "SUPERSEDED" =>
                             log[i].successor_decision_id \in Decision
    BY DEF ReviewsAreAttributed
  <2>1. log \in Seq(Transition)
    BY DEF Inv, TypeOK
  <2>2. PICK i \in for_decision(d) : log[i].sequence = n
    BY <2>1, StateAtPosition DEF Inv
  <2>3. state_at(d, n) = log[i].to_state
    BY <2>1, <2>2, StateAtPosition DEF Inv
  <2>4. TransitionIsValid(log[i]) /\ log[i] \in Transition
    BY <2>1 DEF AllValid, for_decision
  <2>5. log[i].successor_decision_id \in Decision \cup {None}
    BY <2>4 DEF Transition
  <2> QED
    BY <2>2, <2>3, <2>4, <2>5 DEF TransitionIsValid, is_accountable_human
<1> QED
  BY <1>1, <1>2, <1>3, OpenInvariant, PTL DEF OpenSpec

-------------------------------------------------------------------------------
(***************************************************************************)
(* Theorems: the machine is the only writer.                               *)
(***************************************************************************)
\* The invariant of the machine.
THEOREM MachineInvariant == Spec => []Inv
BY InitInv, NextKeepsInv, PTL DEF Spec

\* What is left of a step of the machine once the typing is settled.
LEMMA MachineLogStep ==
  ASSUME Inv, [Next]_vars
  PROVE  \/ UNCHANGED log
         \/ \E t \in Transition : Appends(t) /\ Governs(t)
<1>1. CASE Next
  BY <1>1, MachineStep
<1>2. CASE UNCHANGED vars
  BY <1>2 DEF vars
<1> QED
  BY <1>1, <1>2

\* Recorded history never changes: the log only grows, and the state at every
\* recorded position stays what it was (ET-LC-006, ET-LC-007).
THEOREM HistoryStable == Spec => HistoryIsStable
<1> DEFINE Stable ==
      /\ Len(log) <= Len(log')
      /\ \A i \in DOMAIN log : log'[i] = log[i]
      /\ \A d \in Decision : \A n \in 0 .. Cardinality(for_decision(d)) :
           state_at(d, n)' = state_at(d, n)
<1>1. Inv /\ [Next]_vars => [Stable]_vars
  <2> SUFFICES ASSUME Inv, [Next]_vars PROVE Stable
    OBVIOUS
  <2>0. log \in Seq(Transition)
    BY DEF Inv, TypeOK
  <2>1. CASE UNCHANGED log
    BY <2>0, <2>1 DEF state_at, for_decision, project_state
  <2>2. CASE \E t \in Transition : Appends(t) /\ Governs(t)
    <3>1. PICK t \in Transition : InOrder(t) /\ log' = Append(log, t)
      BY <2>2 DEF Appends
    <3>2. Len(log) <= Len(log') /\ \A i \in DOMAIN log : log'[i] = log[i]
      BY <2>0, <3>1
    <3>3. \A d \in Decision : \A n \in 0 .. Cardinality(for_decision(d)) :
            state_at(d, n)' = state_at(d, n)
      BY <2>0, <3>1, AppendKeepsPast DEF Inv
    <3> QED
      BY <3>2, <3>3
  <2> QED
    BY <2>1, <2>2, MachineLogStep
<1> QED
  BY <1>1, MachineInvariant, PTL DEF Spec, HistoryIsStable

\* How one appended transition relates to the history it extends: it takes the
\* position after the last, and leaves the state the history had reached.
LEMMA AppendedFollows ==
  ASSUME Inv, NEW t \in Transition, Appends(t), Governs(t), NEW d \in Decision
  PROVE  /\ \A i \in for_decision(d) :
              /\ log'[i] = log[i]
              /\ log[i].sequence \in 1 .. Cardinality(for_decision(d))
         /\ Cardinality(for_decision(d)) \in Nat
         /\ for_decision(d)' = IF d = t.decision_id
                                 THEN for_decision(d) \cup {Len(log) + 1}
                                 ELSE for_decision(d)
         /\ log'[Len(log) + 1] = t
         /\ d = t.decision_id =>
              /\ t.sequence = Cardinality(for_decision(d)) + 1
              /\ Cardinality(for_decision(d)) = 0 => t.from_state = InitialState
              /\ \A i \in for_decision(d) :
                   log[i].sequence = Cardinality(for_decision(d)) =>
                     t.from_state = log[i].to_state
<1>1. log \in Seq(Transition) /\ InOrder(t) /\ log' = Append(log, t)
      /\ for_decision(d) \subseteq DOMAIN log
  BY DEF Inv, TypeOK, Appends, for_decision
<1>2. /\ \A i \in for_decision(d) : log[i].sequence \in 1 .. Cardinality(for_decision(d))
      /\ Cardinality(for_decision(d)) \in Nat
  BY <1>1, StateAtPosition, ForDecisionFinite DEF Inv
<1>3. /\ \A i \in for_decision(d) : log'[i] = log[i]
      /\ for_decision(d)' = IF d = t.decision_id
                              THEN for_decision(d) \cup {Len(log) + 1}
                              ELSE for_decision(d)
      /\ log'[Len(log) + 1] = t
  BY <1>1, AppendExtends
<1>4. ASSUME d = t.decision_id
      PROVE  /\ t.sequence = Cardinality(for_decision(d)) + 1
             /\ Cardinality(for_decision(d)) = 0 => t.from_state = InitialState
             /\ \A i \in for_decision(d) :
                  log[i].sequence = Cardinality(for_decision(d)) =>
                    t.from_state = log[i].to_state
  <2>1. t.from_state = state_at(d, Cardinality(for_decision(d)))
    BY <1>1, <1>4, StateAtPosition DEF Governs, Inv
  <2>2. state_at(d, 0) = InitialState
        /\ \A i \in for_decision(d) : state_at(d, log[i].sequence) = log[i].to_state
    BY <1>1, StateAtPosition DEF Inv
  <2>3. t.sequence = Cardinality(for_decision(d)) + 1
    BY <1>1, <1>4 DEF InOrder, expected
  <2> QED
    BY <2>1, <2>2, <2>3
<1> QED
  BY <1>2, <1>3, <1>4

\* Folding a history is meaningful: each transition leaves the state the one
\* before it entered, the first one the initial state (ET-LC-007).
THEOREM HistoryPath == Spec => []HistoryIsAPath
<1>1. Init => HistoryIsAPath
  BY DEF Init, HistoryIsAPath, for_decision
<1>2. Inv /\ HistoryIsAPath /\ [Next]_vars => HistoryIsAPath'
  <2> SUFFICES ASSUME Inv, HistoryIsAPath, [Next]_vars PROVE HistoryIsAPath'
    OBVIOUS
  <2>1. CASE UNCHANGED log
    BY <2>1 DEF HistoryIsAPath, for_decision
  <2>2. CASE \E t \in Transition : Appends(t) /\ Governs(t)
    <3>1. PICK t \in Transition : Appends(t) /\ Governs(t)
      BY <2>2
    <3> DEFINE new == Len(log) + 1
    <3> SUFFICES ASSUME NEW d \in Decision, NEW i \in for_decision(d)'
                 PROVE  /\ log'[i].sequence = 1 => log'[i].from_state = InitialState
                        /\ \A j \in for_decision(d)' :
                             log'[j].sequence = log'[i].sequence + 1 =>
                               log'[j].from_state = log'[i].to_state
      BY DEF HistoryIsAPath
    <3>2. /\ \A k \in for_decision(d) :
               /\ log'[k] = log[k]
               /\ log[k].sequence \in 1 .. Cardinality(for_decision(d))
          /\ Cardinality(for_decision(d)) \in Nat
          /\ for_decision(d)' = IF d = t.decision_id
                                  THEN for_decision(d) \cup {new}
                                  ELSE for_decision(d)
          /\ log'[new] = t
          /\ d = t.decision_id =>
               /\ t.sequence = Cardinality(for_decision(d)) + 1
               /\ Cardinality(for_decision(d)) = 0 => t.from_state = InitialState
               /\ \A k \in for_decision(d) :
                    log[k].sequence = Cardinality(for_decision(d)) =>
                      t.from_state = log[k].to_state
      BY <3>1, AppendedFollows
    <3> HIDE DEF new
    <3>3. CASE i \in for_decision(d)
      <4>1. log[i].sequence = 1 => log[i].from_state = InitialState
        BY <3>3 DEF HistoryIsAPath
      <4>2. ASSUME NEW j \in for_decision(d)', log'[j].sequence = log'[i].sequence + 1
            PROVE  log'[j].from_state = log'[i].to_state
        <5>1. CASE j \in for_decision(d)
          BY <3>2, <3>3, <4>2, <5>1 DEF HistoryIsAPath
        <5>2. CASE j = new /\ d = t.decision_id
          <6>1. log[i].sequence = Cardinality(for_decision(d))
            BY <3>2, <3>3, <4>2, <5>2
          <6> QED
            BY <3>2, <3>3, <5>2, <6>1
        <5> QED
          BY <3>2, <5>1, <5>2
      <4> QED
        BY <3>2, <3>3, <4>1, <4>2
    <3>4. CASE i = new /\ d = t.decision_id
      <4>1. log'[i].sequence = 1 => log'[i].from_state = InitialState
        BY <3>2, <3>4
      <4>2. ASSUME NEW j \in for_decision(d)'
            PROVE  log'[j].sequence # log'[i].sequence + 1
        <5>1. CASE j \in for_decision(d)
          BY <3>2, <3>4, <5>1
        <5>2. CASE j = new
          BY <3>2, <3>4, <5>2
        <5> QED
          BY <3>2, <5>1, <5>2
      <4> QED
        BY <4>1, <4>2
    <3> QED
      BY <3>2, <3>3, <3>4
  <2> QED
    BY <2>1, <2>2, MachineLogStep
<1> QED
  BY <1>1, <1>2, MachineInvariant, PTL DEF Spec

\* Nothing is ever recorded for a decision after it entered a terminal state
\* (ET-LC-004), even if the contract declares a way out of one.
THEOREM TerminalPermanent == Spec => []TerminalIsPermanent
<1>1. Init => TerminalIsPermanent
  BY DEF Init, TerminalIsPermanent, for_decision
<1>2. Inv /\ TerminalIsPermanent /\ [Next]_vars => TerminalIsPermanent'
  <2> SUFFICES ASSUME Inv, TerminalIsPermanent, [Next]_vars PROVE TerminalIsPermanent'
    OBVIOUS
  <2>1. CASE UNCHANGED log
    BY <2>1 DEF TerminalIsPermanent, for_decision
  <2>2. CASE \E t \in Transition : Appends(t) /\ Governs(t)
    <3>1. PICK t \in Transition : Appends(t) /\ Governs(t)
      BY <2>2
    <3> DEFINE new == Len(log) + 1
    <3> SUFFICES ASSUME NEW d \in Decision, NEW i \in for_decision(d)',
                        NEW j \in for_decision(d)', log'[i].to_state \in TerminalState
                 PROVE  log'[j].sequence <= log'[i].sequence
      BY DEF TerminalIsPermanent
    <3>2. /\ \A k \in for_decision(d) :
               /\ log'[k] = log[k]
               /\ log[k].sequence \in 1 .. Cardinality(for_decision(d))
          /\ Cardinality(for_decision(d)) \in Nat
          /\ for_decision(d)' = IF d = t.decision_id
                                  THEN for_decision(d) \cup {new}
                                  ELSE for_decision(d)
          /\ log'[new] = t
          /\ d = t.decision_id =>
               /\ t.sequence = Cardinality(for_decision(d)) + 1
               /\ \A k \in for_decision(d) :
                    log[k].sequence = Cardinality(for_decision(d)) =>
                      t.from_state = log[k].to_state
      BY <3>1, AppendedFollows
    <3>3. t.from_state \notin TerminalState
      BY <3>1 DEF Governs, Refusal, None
    <3> HIDE DEF new
    <3>4. CASE i \in for_decision(d) /\ j \in for_decision(d)
      BY <3>2, <3>4 DEF TerminalIsPermanent
    <3>5. CASE i = new /\ d = t.decision_id
      BY <3>2, <3>5
    <3>6. CASE i \in for_decision(d) /\ j = new /\ d = t.decision_id
      <4>1. log[i].to_state \in TerminalState
        BY <3>2, <3>6
      <4>2. PICK k \in for_decision(d) : log[k].sequence = Cardinality(for_decision(d))
        <5>1. Cardinality(for_decision(d)) \in 1 .. Cardinality(for_decision(d))
          BY <3>2, <3>6
        <5> QED
          BY <5>1, StateAtPosition DEF Inv, TypeOK
      <4>3. log[k].sequence <= log[i].sequence
        BY <3>6, <4>1 DEF TerminalIsPermanent
      <4>4. log[i].sequence = Cardinality(for_decision(d))
        BY <3>2, <3>6, <4>2, <4>3
      <4>5. t.from_state = log[i].to_state
        BY <3>2, <3>6, <4>4
      <4> QED
        BY <3>3, <4>1, <4>5
    <3> QED
      BY <3>2, <3>4, <3>5, <3>6
  <2> QED
    BY <2>1, <2>2, MachineLogStep
<1> QED
  BY <1>1, <1>2, MachineInvariant, PTL DEF Spec

\* What the contract did not refuse, one of its rules declares and allows.
LEMMA NotRefused ==
  ASSUME NEW d \in Decision, NEW to \in LifecycleState, NEW a \in Actor,
         NEW s \in Decision \cup {None}, current_state(d) \in LifecycleState,
         Refusal(d, to, a, s) = None
  PROVE  \E k \in DOMAIN Rules :
           /\ Rules[k].from = current_state(d)
           /\ Rules[k].to = to
           /\ Rules[k].requires_human_review \/ Rules[k].requires_role => a \in Principal
           /\ Rules[k].requires_successor => s # None
<1> DEFINE from == current_state(d)
           rule == transition_rule(from, to)
<1>1. from \notin TerminalState /\ Declared(from, to)
  BY DEF Refusal, None
<1>2. PICK k \in DOMAIN Rules : /\ Rules[k].from = from
                               /\ Rules[k].to = to
                               /\ rule = Rules[k]
  BY <1>1, RuleIsDeclared
<1>3. /\ ~(\/ rule.requires_human_review /\ ~is_accountable_human(a)
           \/ rule.requires_role /\ ~HasRole(a))
      /\ ~(rule.requires_successor /\ s = None)
  BY <1>1, Zenon DEF Refusal, None
<1> QED
  BY <1>2, <1>3, Zenon DEF is_accountable_human, HasRole

\* Through the machine, every recorded transition is declared by the contract
\* and carries what its rule asks for (ET-LC-005).
THEOREM OnlyDeclared == Spec => []TransitionsDeclared
<1>1. Init => TransitionsDeclared
  BY DEF Init, TransitionsDeclared
<1>2. Inv /\ TransitionsDeclared /\ [Next]_vars => TransitionsDeclared'
  <2> SUFFICES ASSUME Inv, TransitionsDeclared, [Next]_vars PROVE TransitionsDeclared'
    OBVIOUS
  <2>1. CASE UNCHANGED log
    BY <2>1 DEF TransitionsDeclared
  <2>2. CASE \E t \in Transition : Appends(t) /\ Governs(t)
    <3>1. PICK t \in Transition : Appends(t) /\ Governs(t)
      BY <2>2
    <3>2. log \in Seq(Transition) /\ log' = Append(log, t)
      BY <3>1 DEF Inv, TypeOK, Appends
    <3>3. /\ DOMAIN log' = DOMAIN log \cup {Len(log) + 1}
          /\ \A i \in DOMAIN log : log'[i] = log[i]
          /\ log'[Len(log) + 1] = t
      BY <3>2
    <3>4. /\ t.decision_id \in Decision /\ t.to_state \in LifecycleState
          /\ t.actor \in Actor /\ t.successor_decision_id \in Decision \cup {None}
      BY DEF Transition
    <3>5. /\ t.from_state = current_state(t.decision_id)
          /\ Refusal(t.decision_id, t.to_state, t.actor, t.successor_decision_id) = None
      BY <3>1 DEF Governs
    <3>6. current_state(t.decision_id) \in LifecycleState
      BY <3>2, <3>4, CurrentStateTyped DEF Inv
    <3>7. \E k \in DOMAIN Rules :
            /\ Rules[k].from = t.from_state
            /\ Rules[k].to = t.to_state
            /\ Rules[k].requires_human_review \/ Rules[k].requires_role =>
                 t.actor \in Principal
            /\ Rules[k].requires_successor => t.successor_decision_id # None
      BY <3>4, <3>5, <3>6, NotRefused
    <3> QED
      BY <3>3, <3>7 DEF TransitionsDeclared
  <2> QED
    BY <2>1, <2>2, MachineLogStep
<1> QED
  BY <1>1, <1>2, MachineInvariant, PTL DEF Spec

\* The three boundaries agree: append() never refuses what the machine built,
\* and under a coherent contract the validators refuse a superfluous successor
\* and nothing else.
THEOREM BoundariesDoAgree == Spec => []BoundariesAgree
<1>1. Init => BoundariesAgree
  BY DEF Init, BoundariesAgree
<1>2. Inv /\ BoundariesAgree /\ [Next]_vars => BoundariesAgree'
  <2> SUFFICES ASSUME Inv, BoundariesAgree, [Next]_vars PROVE BoundariesAgree'
    OBVIOUS
  <2>1. CASE UNCHANGED vars
    BY <2>1 DEF vars, BoundariesAgree
  <2>2. CASE Next
    <3>1. last'.how # "ImmutableRecordViolation"
      BY <2>2, MachineStep
    <3>2. ASSUME last'.how = "ValueError", ContractIsCoherent
          PROVE  last'.to_state # "SUPERSEDED" /\ last'.successor_decision_id # None
      <4>1. PICK d \in Decision, to \in LifecycleState, a \in Actor,
                 s \in Decision \cup {None} :
              /\ last' = Call("ValueError", d, to, a, s)
              /\ Refusal(d, to, a, s) = None
              /\ ~TransitionIsValid(Proposed(d, to, a, s))
        BY <2>2, <3>2, MachineStep
      <4>2. last'.to_state = to /\ last'.successor_decision_id = s
        BY <4>1 DEF Call
      <4>3. current_state(d) \in LifecycleState
        BY CurrentStateTyped DEF Inv, TypeOK
      <4>4. PICK k \in DOMAIN Rules :
              /\ Rules[k].from = current_state(d)
              /\ Rules[k].to = to
              /\ Rules[k].requires_human_review \/ Rules[k].requires_role => a \in Principal
              /\ Rules[k].requires_successor => s # None
        BY <4>1, <4>3, NotRefused
      <4>5. /\ to = "SUPERSEDED" => s # None
            /\ to \in {"ACCEPTED", "REJECTED"} => a \in Principal
        BY <3>2, <4>4 DEF ContractIsCoherent, lifecycle_coherent
      <4>6. ~(/\ (to = "SUPERSEDED") <=> (s # None)
              /\ to \in {"ACCEPTED", "REJECTED"} => a \in Principal)
        BY <4>1 DEF TransitionIsValid, Proposed, is_accountable_human, HasRole
      <4> QED
        BY <4>2, <4>5, <4>6
    <3> QED
      BY <3>1, <3>2 DEF BoundariesAgree, ContractIsCoherent
  <2> QED
    BY <2>1, <2>2
<1> QED
  BY <1>1, <1>2, MachineInvariant, PTL DEF Spec

===============================================================================
