--------------------------- MODULE CorrectionsProofs ---------------------------
(***************************************************************************)
(* Theorems about Corrections, for any decisions, actors and contract.     *)
(*                                                                         *)
(* The two stores are written by different calls, so each is argued about  *)
(* by itself: every step of a correction is a step of the machine or none  *)
(* at all, which carries the theorems of LifecycleProofs over, and every   *)
(* step appends to the decision store or leaves it alone.  The chains are  *)
(* where the two meet.                                                     *)
(***************************************************************************)
EXTENDS Corrections, LifecycleProofs

\* The records are well formed, and each passed its validators.
RecordsOK ==
  /\ records \in Seq(DecisionRecord)
  /\ \A i \in DOMAIN records : RecordIsValid(records[i])

\* A record is appended.
Stored(r) == r \in DecisionRecord /\ RecordIsValid(r) /\ records' = Append(records, r)

LEMMA StoredExtends ==
  ASSUME RecordsOK, NEW r, Stored(r)
  PROVE  /\ records' \in Seq(DecisionRecord)
         /\ Len(records) \in Nat
         /\ DOMAIN records = 1 .. Len(records)
         /\ DOMAIN records' = DOMAIN records \cup {Len(records) + 1}
         /\ \A i \in DOMAIN records : records'[i] = records[i] /\ i < Len(records) + 1
         /\ records'[Len(records) + 1] = r
BY DEF RecordsOK, Stored

\* A record that cites one of the store and carries its authorization.
CitesStored(r) ==
  \E i \in DOMAIN records :
    /\ r.supersedes = records[i].decision_id
    /\ r.authorization_result = records[i].authorization_result

\* What a step does to the decision store: nothing, or it appends a record that
\* cites nothing, or one that cites what its caller corrected, which orderly
\* callers found in the store.
LEMMA StoreStep ==
  ASSUME RecordsOK, CorrectionNext
  PROVE  \/ UNCHANGED records
         \/ /\ UNCHANGED <<vars, callers>>
            /\ \E r : /\ Stored(r)
                      /\ callers = "orderly" => r.supersedes = None \/ CitesStored(r)
<1>1. ASSUME NEW d \in Decision, Decide(d)
      PROVE  UNCHANGED <<vars, callers>> /\ \E r : Stored(r) /\ r.supersedes = None
  BY <1>1 DEF Decide, Store, Stored
<1>2. ASSUME NEW original \in DecisionRecord, NEW d \in Decision, Correct(original, d)
      PROVE  /\ UNCHANGED <<vars, callers>>
             /\ \E r : Stored(r) /\ (callers = "orderly" => CitesStored(r))
  <2>1. PICK outcome \in {"GROUNDED", "REFUSED"} :
          /\ RecordIsValid(superseded_by(original, d, outcome))
          /\ Store(superseded_by(original, d, outcome))
    BY <1>2 DEF Correct
  <2>2. /\ superseded_by(original, d, outcome) \in DecisionRecord
        /\ superseded_by(original, d, outcome).supersedes = original.decision_id
        /\ superseded_by(original, d, outcome).authorization_result
             = original.authorization_result
    BY DEF superseded_by, DecisionRecord
  <2>3. callers = "orderly" => CitesStored(superseded_by(original, d, outcome))
    BY <1>2, <2>2 DEF Correct, CitesStored
  <2> QED
    BY <2>1, <2>2, <2>3 DEF Store, Stored
<1>3. ASSUME NEW d \in Decision, NEW s \in Decision, NEW a \in Actor, Replace(d, s, a)
      PROVE  UNCHANGED records
  BY <1>3 DEF Replace
<1>4. ASSUME NEW d \in Decision, NEW a \in Actor, Review(d, a)
      PROVE  UNCHANGED records
  BY <1>4 DEF Review
<1>5. CASE AskMachine
  BY <1>5 DEF AskMachine
<1> QED
  BY <1>1, <1>2, <1>3, <1>4, <1>5 DEF CorrectionNext

\* Nobody changes what they heed.
LEMMA CallersStay ==
  [CorrectionNext]_correctionVars => UNCHANGED callers
BY DEF CorrectionNext, Decide, Correct, Store, Replace, Review, AskMachine, correctionVars

LEMMA StepKeepsRecords ==
  RecordsOK /\ [CorrectionNext]_correctionVars => RecordsOK'
<1> SUFFICES ASSUME RecordsOK, [CorrectionNext]_correctionVars
             PROVE  RecordsOK'
  OBVIOUS
<1>1. CASE UNCHANGED records
  BY <1>1 DEF RecordsOK, RecordIsValid
<1>2. CASE \E r : Stored(r)
  <2>1. PICK r : Stored(r)
    BY <1>2
  <2>2. \A i \in DOMAIN records' : RecordIsValid(records'[i])
    BY <2>1, StoredExtends DEF RecordsOK, Stored, RecordIsValid
  <2> QED
    BY <2>1, <2>2, StoredExtends DEF RecordsOK, RecordIsValid
<1> QED
  BY <1>1, <1>2, StoreStep DEF correctionVars

LEMMA RecordsInit == CorrectionInit => RecordsOK
BY DEF CorrectionInit, RecordsOK

-------------------------------------------------------------------------------
\* Callers who correct only what they read from the store cite a decision recorded
\* before, of the same standing, and a denied request stays refused however often
\* they correct it.
THEOREM CitationsEnd == CorrectionSpec => []CorrectionsCiteTheirPast
<1>1. CorrectionInit => CorrectionsCiteTheirPast
  BY DEF CorrectionInit, CorrectionsCiteTheirPast
<1>2. RecordsOK /\ CorrectionsCiteTheirPast /\ [CorrectionNext]_correctionVars
        => CorrectionsCiteTheirPast'
  <2> SUFFICES ASSUME RecordsOK, CorrectionsCiteTheirPast,
                      [CorrectionNext]_correctionVars, callers = "orderly"
               PROVE  CorrectionsCiteTheirPast'
    BY CallersStay DEF CorrectionsCiteTheirPast
  <2>1. CASE UNCHANGED records
    BY <2>1 DEF CorrectionsCiteTheirPast
  <2>2. CASE \E r : Stored(r) /\ (r.supersedes = None \/ CitesStored(r))
    <3>1. PICK r : Stored(r) /\ (r.supersedes = None \/ CitesStored(r))
      BY <2>2
    <3>2. /\ Len(records) \in Nat
          /\ DOMAIN records = 1 .. Len(records)
          /\ DOMAIN records' = DOMAIN records \cup {Len(records) + 1}
          /\ \A i \in DOMAIN records : records'[i] = records[i] /\ i < Len(records) + 1
          /\ records'[Len(records) + 1] = r
      BY <3>1, StoredExtends
    <3>3. SUFFICES ASSUME NEW i \in DOMAIN records', records'[i].supersedes # None
                   PROVE  \E j \in 1 .. i - 1 :
                            /\ records'[j].decision_id = records'[i].supersedes
                            /\ records'[j].authorization_result
                                 = records'[i].authorization_result
                            /\ records'[j].authorization_result = "DENIED"
                                 => records'[i].outcome = "REFUSED"
      BY DEF CorrectionsCiteTheirPast
    <3>4. CASE i \in DOMAIN records
      <4>1. PICK j \in 1 .. i - 1 :
              /\ records[j].decision_id = records[i].supersedes
              /\ records[j].authorization_result = records[i].authorization_result
              /\ records[j].authorization_result = "DENIED"
                   => records[i].outcome = "REFUSED"
        BY <3>2, <3>3, <3>4 DEF CorrectionsCiteTheirPast
      <4>2. j \in DOMAIN records
        BY <3>2, <3>4
      <4> QED
        BY <3>2, <3>4, <4>1, <4>2
    <3>5. CASE i = Len(records) + 1
      <4>1. PICK j \in DOMAIN records :
              /\ r.supersedes = records[j].decision_id
              /\ r.authorization_result = records[j].authorization_result
        BY <3>1, <3>2, <3>3, <3>5 DEF CitesStored
      <4>2. r.authorization_result = "DENIED" => r.outcome = "REFUSED"
        BY <3>1 DEF Stored, RecordIsValid
      <4>3. j \in 1 .. i - 1
        BY <3>2, <3>5, <4>1
      <4> QED
        BY <3>2, <3>5, <4>1, <4>2, <4>3
    <3> QED
      BY <3>2, <3>4, <3>5
  <2> QED
    BY <2>1, <2>2, StoreStep DEF correctionVars
<1> QED
  BY RecordsInit, StepKeepsRecords, <1>1, <1>2, PTL DEF CorrectionSpec

-------------------------------------------------------------------------------
\* Corrections use the machine as its callers may: whatever they do to the log,
\* the machine could have been asked to do.
LEMMA CorrectionIsMachineStep ==
  [CorrectionNext]_correctionVars => [Next]_vars
<1> SUFFICES ASSUME [CorrectionNext]_correctionVars PROVE [Next]_vars
  OBVIOUS
<1>1. ASSUME NEW d \in Decision, Decide(d) PROVE UNCHANGED vars
  BY <1>1 DEF Decide, Store
<1>2. ASSUME NEW original \in DecisionRecord, NEW d \in Decision, Correct(original, d)
      PROVE  UNCHANGED vars
  BY <1>2 DEF Correct, Store
<1>3. ASSUME NEW d \in Decision, NEW s \in Decision, NEW a \in Actor, Replace(d, s, a)
      PROVE  Next
  BY <1>3 DEF Replace, Next
<1>4. ASSUME NEW d \in Decision, NEW a \in Actor, Review(d, a)
      PROVE  Next
  BY <1>4 DEF Review, Next
<1>5. ASSUME AskMachine PROVE Next
  BY <1>5 DEF AskMachine
<1>6. CASE UNCHANGED correctionVars
  BY <1>6 DEF correctionVars
<1> QED
  BY <1>1, <1>2, <1>3, <1>4, <1>5, <1>6 DEF CorrectionNext

\* The lifecycle keeps its specification with the decision store beside it, so
\* that whatever LifecycleProofs proves of Spec holds of corrections.
THEOREM CorrectionsRefineLifecycle == CorrectionSpec => Spec
<1>1. CorrectionInit => Init
  BY DEF CorrectionInit
<1> QED
  BY <1>1, CorrectionIsMachineStep, PTL DEF CorrectionSpec, Spec

\* The log's own invariant, under corrections.
LEMMA CorrectionsKeepLog == CorrectionSpec => []Inv
BY CorrectionsRefineLifecycle, MachineInvariant, PTL

\* A step of a caller who asks the store, if it records a supersession, names a
\* decision of the store that cites the one it replaces.
LEMMA CarefulStep ==
  ASSUME Inv, callers # "any", [CorrectionNext]_correctionVars
  PROVE  \/ UNCHANGED log
         \/ /\ UNCHANGED records
            /\ \E t : /\ log' = Append(log, t)
                      /\ t.to_state = "SUPERSEDED" =>
                           /\ t.decision_id \in Decision
                           /\ t.successor_decision_id \in successors_of(t.decision_id)
<1>1. ASSUME NEW d \in Decision, NEW to, NEW a, NEW s, transition(d, to, a, s)
      PROVE  \/ UNCHANGED log
             \/ \E t : /\ log' = Append(log, t)
                       /\ t.decision_id = d
                       /\ t.to_state = to
                       /\ t.successor_decision_id = s
  BY <1>1 DEF transition, append, Proposed
<1>2. ASSUME NEW d \in Decision, NEW s \in Decision, NEW a \in Actor, Replace(d, s, a)
      PROVE  \/ UNCHANGED log
             \/ \E t : /\ log' = Append(log, t)
                       /\ t.decision_id \in Decision
                       /\ t.successor_decision_id \in successors_of(t.decision_id)
  BY <1>1, <1>2 DEF Replace, supersede
<1>3. ASSUME NEW d \in Decision, NEW a \in Actor, Review(d, a)
      PROVE  \/ UNCHANGED log
             \/ \E t : log' = Append(log, t) /\ t.to_state # "SUPERSEDED"
  BY <1>1, <1>3 DEF Review, accept, reject
<1>4. ASSUME NEW d \in Decision, Decide(d) PROVE UNCHANGED log
  BY <1>4 DEF Decide, Store, vars
<1>5. ASSUME NEW original \in DecisionRecord, NEW d \in Decision, Correct(original, d)
      PROVE  UNCHANGED log
  BY <1>5 DEF Correct, Store, vars
<1>6. ~AskMachine
  BY DEF AskMachine
<1>7. CASE UNCHANGED correctionVars
  BY <1>7 DEF correctionVars, vars
<1> QED
  BY <1>2, <1>3, <1>4, <1>5, <1>6, <1>7 DEF CorrectionNext, Replace, Review

\* What the machine was told by callers who ask the store stays true of it.
NamedInStore ==
  callers # "any" => \A d \in Decision : ReplacedBy(d) \subseteq successors_of(d)

LEMMA StepKeepsNames ==
  RecordsOK /\ Inv /\ NamedInStore /\ [CorrectionNext]_correctionVars => NamedInStore'
<1> SUFFICES ASSUME RecordsOK, Inv, NamedInStore, [CorrectionNext]_correctionVars,
                    callers # "any", NEW d \in Decision, NEW k \in for_decision(d)',
                    log'[k].to_state = "SUPERSEDED"
             PROVE  log'[k].successor_decision_id \in successors_of(d)'
  BY CallersStay DEF NamedInStore, ReplacedBy
<1>1. successors_of(d) \subseteq successors_of(d)'
  <2>1. \A i \in DOMAIN records : i \in DOMAIN records' /\ records'[i] = records[i]
    <3>1. CASE UNCHANGED records
      BY <3>1
    <3>2. CASE \E r : Stored(r)
      BY <3>2, StoredExtends
    <3> QED
      BY <3>1, <3>2, StoreStep DEF correctionVars
  <2> QED
    BY <2>1 DEF successors_of
<1>2. k \in for_decision(d) /\ log'[k] = log[k] =>
        log'[k].successor_decision_id \in successors_of(d)'
  BY <1>1 DEF NamedInStore, ReplacedBy
<1>3. CASE UNCHANGED log
  BY <1>2, <1>3 DEF for_decision
<1>4. CASE /\ UNCHANGED records
           /\ \E t : /\ log' = Append(log, t)
                     /\ t.to_state = "SUPERSEDED" =>
                          /\ t.decision_id \in Decision
                          /\ t.successor_decision_id \in successors_of(t.decision_id)
  <2>1. PICK t : /\ log' = Append(log, t)
                 /\ t.to_state = "SUPERSEDED" =>
                      /\ t.decision_id \in Decision
                      /\ t.successor_decision_id \in successors_of(t.decision_id)
    BY <1>4
  <2>2. /\ DOMAIN log' = DOMAIN log \cup {Len(log) + 1}
        /\ \A i \in DOMAIN log : log'[i] = log[i]
        /\ log'[Len(log) + 1] = t
    BY <2>1 DEF Inv, TypeOK
  <2>3. k \in DOMAIN log => k \in for_decision(d) /\ log'[k] = log[k]
    BY <2>2 DEF for_decision
  <2>4. k \notin DOMAIN log => t.decision_id = d /\ log'[k] = t
    BY <2>2 DEF for_decision
  <2> QED
    BY <1>1, <1>2, <2>1, <2>3, <2>4
<1> QED
  BY <1>3, <1>4, CarefulStep

LEMMA NamesStand == CorrectionSpec => []NamedInStore
<1>1. CorrectionInit => NamedInStore
  BY DEF CorrectionInit, Init, NamedInStore, ReplacedBy, for_decision
<1> QED
  BY RecordsInit, StepKeepsRecords, CorrectionsKeepLog, <1>1, StepKeepsNames, PTL
  DEF CorrectionSpec

\* A successor of the store is younger than the decision it cites, if its callers
\* corrected what they read from the store.
LEMMA SuccessorIsYounger ==
  ASSUME RecordsOK, CorrectionsCiteTheirPast, callers = "orderly",
         NEW d \in Decision, NEW s \in successors_of(d)
  PROVE  \E i, j \in DOMAIN records :
           /\ i < j
           /\ records[i].decision_id = d
           /\ records[j].decision_id = s
           /\ records[j].supersedes = d
<1>1. PICK j \in DOMAIN records : records[j].decision_id = s /\ records[j].supersedes = d
  BY DEF successors_of
<1>2. d # None
  BY LifecycleAssumption
<1>3. PICK i \in 1 .. j - 1 : records[i].decision_id = records[j].supersedes
  BY <1>1, <1>2 DEF CorrectionsCiteTheirPast
<1>4. i \in DOMAIN records /\ i < j
  BY <1>3 DEF RecordsOK
<1> QED
  BY <1>1, <1>3, <1>4

\* Following the supersessions that callers record who read what they correct,
\* and ask what replaces it, leads to ever younger decisions of the store, each
\* of which cites the one it replaced.
THEOREM ChainsEnd == CorrectionSpec => []ChainsMoveForward
<1>1. RecordsOK /\ CorrectionsCiteTheirPast /\ NamedInStore => ChainsMoveForward
  BY SuccessorIsYounger DEF NamedInStore, ChainsMoveForward
<1> QED
  BY RecordsInit, StepKeepsRecords, CitationsEnd, NamesStand, <1>1, PTL DEF CorrectionSpec

\* Of several corrections of one decision the log names at most one, whoever
\* recorded them, and of callers who ask the store one that cites it.
THEOREM OneReplacement == CorrectionSpec => []OneCorrectionReplaces
<1>1. Inv /\ TerminalIsPermanent /\ NamedInStore => OneCorrectionReplaces
  <2> SUFFICES ASSUME Inv, TerminalIsPermanent, "SUPERSEDED" \in TerminalState,
                      NEW d \in Decision,
                      NEW i \in for_decision(d), NEW j \in for_decision(d),
                      log[i].to_state = "SUPERSEDED", log[j].to_state = "SUPERSEDED"
               PROVE  i = j
    BY DEF NamedInStore, OneCorrectionReplaces, ReplacedBy
  <2>1. /\ log[i].sequence <= log[j].sequence
        /\ log[j].sequence <= log[i].sequence
    BY DEF TerminalIsPermanent
  <2>2. /\ i \in Nat /\ j \in Nat
        /\ log[i].sequence \in Nat /\ log[j].sequence \in Nat
    <3>1. i \in DOMAIN log /\ j \in DOMAIN log /\ log \in Seq(Transition)
      BY DEF Inv, TypeOK, for_decision
    <3>2. log[i] \in Transition /\ log[j] \in Transition
      BY <3>1
    <3> QED
      BY <3>1, <3>2 DEF Transition
  <2>3. i < j => log[i].sequence < log[j].sequence
    BY DEF Inv, SequencesContiguous
  <2>4. j < i => log[j].sequence < log[i].sequence
    BY DEF Inv, SequencesContiguous
  <2> QED
    BY <2>1, <2>2, <2>3, <2>4
<1> QED
  BY CorrectionsRefineLifecycle, CorrectionsKeepLog, TerminalPermanent, NamesStand,
     <1>1, PTL

\* The theorems of the machine, of the runs that have a store beside it.
THEOREM HistoriesSurviveCorrections ==
  CorrectionSpec => [](TypeOK /\ SequencesContiguous /\ HistoryIsAPath
                         /\ TerminalIsPermanent /\ TransitionsDeclared
                         /\ BoundariesAgree)
<1>1. Inv => SequencesContiguous
  BY DEF Inv
<1> QED
  BY CorrectionsRefineLifecycle, TypeCorrect, MachineInvariant, <1>1, HistoryPath,
     TerminalPermanent, OnlyDeclared, BoundariesDoAgree, PTL

===============================================================================
