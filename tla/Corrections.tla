------------------------------ MODULE Corrections ------------------------------
(***************************************************************************)
(* Corrections of recorded decisions: DecisionRecord.superseded_by() and   *)
(* the InMemoryDecisionStore (decisions/), together with the lifecycle     *)
(* that records which decision replaced which.                             *)
(*                                                                         *)
(* A correction is two calls on two stores that know nothing of each       *)
(* other: the successor is appended to the decision store and cites its    *)
(* predecessor, and a supersession is appended to the transition log and   *)
(* names its successor.  Either may be left out, fail, or be made for      *)
(* another decision.                                                       *)
(*                                                                         *)
(* Nothing in the code ties the calls together, so how far the stores      *)
(* agree depends on the callers, of whom there are three kinds:            *)
(*   "careful"  supersede a decision only by one that the store says       *)
(*              cites it, but correct any record they hold: one that was   *)
(*              never stored, because the capture failed, or one they made *)
(*              up themselves;                                             *)
(*   "orderly"  do so too, and correct only records they read from the     *)
(*              store;                                                     *)
(*   "any"      use the machine without a store behind it, as              *)
(*              examples/run_reference_flow.py does.                       *)
(***************************************************************************)
EXTENDS Lifecycle

VARIABLES records,  \* InMemoryDecisionStore._records, in insertion order
          callers   \* what the callers heed

correctionVars == <<vars, records, callers>>

\* The fields of DecisionRecord that a correction carries over or changes.
DecisionRecord == [decision_id : Decision, authorization_result : {"ALLOWED", "DENIED"},
                   outcome : {"GROUNDED", "REFUSED"},
                   supersedes : Decision \cup {None}]

\* DecisionRecord._denied_requests_never_reach_verification(), of the outcome.
RecordIsValid(record) ==
  record.authorization_result = "DENIED" => record.outcome = "REFUSED"

-------------------------------------------------------------------------------
(***************************************************************************)
(* InMemoryDecisionStore.                                                  *)
(***************************************************************************)
get(d) == {i \in DOMAIN records : records[i].decision_id = d}

\* Slip: the decisions this one cites, rather than those that cite it.
successors_ofBackwards(d) == {records[i].supersedes : i \in get(d)} \ {None}

successors_of(d) ==
  {records[i].decision_id : i \in {j \in DOMAIN records : records[j].supersedes = d}}

\* Slip: an identifier that exists has its record replaced, in its place.
StoreReplacing(record) ==
  /\ callers # "any"
  /\ records' = IF get(record.decision_id) = {}
                THEN Append(records, record)
                ELSE [i \in DOMAIN records |->
                        IF i \in get(record.decision_id) THEN record ELSE records[i]]
  /\ UNCHANGED <<vars, callers>>

\* An identifier that exists is refused and nothing is stored; nothing else is
\* asked of a record, the decision it cites need not be there.
Store(record) ==
  /\ callers # "any"
  /\ get(record.decision_id) = {}
  /\ records' = Append(records, record)
  /\ UNCHANGED <<vars, callers>>

-------------------------------------------------------------------------------
CorrectionInit ==
  /\ Init
  /\ records = <<>>
  /\ callers \in {"orderly", "careful", "any"}

\* A governed decision is recorded, under whatever identifier was drawn for it.
Decide(d) ==
  \E record \in DecisionRecord :
    /\ record.decision_id = d
    /\ record.supersedes = None
    /\ RecordIsValid(record)
    /\ Store(record)

superseded_by(original, d, outcome) ==
  [decision_id |-> d, authorization_result |-> original.authorization_result,
   outcome |-> outcome, supersedes |-> original.decision_id]

\* The first half of a correction, of any record that could be built; the
\* constructor raises if the successor is not valid.
Correct(original, d) ==
  /\ RecordIsValid(original)
  /\ callers = "orderly" => \E i \in DOMAIN records : records[i] = original
  /\ \E outcome \in {"GROUNDED", "REFUSED"} :
       LET record == superseded_by(original, d, outcome)
       IN  RecordIsValid(record) /\ Store(record)

\* The second half, by callers who ask the store.
Replace(d, s, actor) ==
  /\ s \in successors_of(d)
  /\ supersede(d, s, actor)
  /\ UNCHANGED <<records, callers>>

Review(d, actor) ==
  /\ callers # "any"
  /\ accept(d, actor) \/ reject(d, actor)
  /\ UNCHANGED <<records, callers>>

\* Other callers ask the machine for anything.
AskMachine ==
  /\ callers = "any"
  /\ Next
  /\ UNCHANGED <<records, callers>>

CorrectionNext ==
  \/ \E d \in Decision : Decide(d)
  \/ \E original \in DecisionRecord, d \in Decision : Correct(original, d)
  \/ \E d \in Decision, s \in Decision, a \in Actor : Replace(d, s, a)
  \/ \E d \in Decision, a \in Actor : Review(d, a)
  \/ AskMachine

CorrectionSpec == CorrectionInit /\ [][CorrectionNext]_correctionVars

-------------------------------------------------------------------------------
(***************************************************************************)
(* Properties.                                                             *)
(***************************************************************************)
\* Reading a record from the store before correcting it is enough for citations
\* to end: the store never replaces a record, so the callers who do so cite a
\* decision recorded earlier and stand on its authorization, no citation can be
\* turned back onto a later decision, and however often a denied request is
\* corrected it is never answered (append(), superseded_by(), ET-LC-006,
\* ET-AUTH-001).
CorrectionsCiteTheirPast ==
  callers = "orderly" =>
    \A i \in DOMAIN records : records[i].supersedes # None =>
      \E j \in 1 .. i - 1 :
        /\ records[j].decision_id = records[i].supersedes
        /\ records[j].authorization_result = records[i].authorization_result
        /\ records[j].authorization_result = "DENIED" => records[i].outcome = "REFUSED"

ReplacedBy(d) ==
  {log[i].successor_decision_id :
     i \in {j \in for_decision(d) : log[j].to_state = "SUPERSEDED"}}

\* Following the supersessions that such callers record leads to ever younger
\* decisions of the store, each of which cites the one it replaced, and so it
\* ends as well: the two stores tell one story.
ChainsMoveForward ==
  callers = "orderly" => \A d \in Decision : \A s \in ReplacedBy(d) :
    \E i, j \in DOMAIN records :
      /\ i < j
      /\ records[i].decision_id = d
      /\ records[j].decision_id = s
      /\ records[j].supersedes = d

\* However many corrections of one decision are recorded, in whatever order and
\* of whatever records, the log names at most one of them as its replacement,
\* and where callers ask the store, one that cites it (successors_of() returns
\* them all, supersede() takes one, ET-LC-003, ET-LC-004).
OneCorrectionReplaces ==
  /\ "SUPERSEDED" \in TerminalState =>
       \A d \in Decision : \A s, t \in ReplacedBy(d) : s = t
  /\ callers # "any" =>
       \A d \in Decision : ReplacedBy(d) \subseteq successors_of(d)

\* "The decision record was superseded by a newer accepted decision.  The
\* original is retained and linked from the successor"
\* (contracts/reason-codes-v1.0.yaml:186-188, supersession.replaced).
SupersededByNewerAccepted ==
  \A d \in Decision : current_state(d) = "SUPERSEDED" =>
    \A s \in ReplacedBy(d) :
      /\ s \in successors_of(d)
      /\ \E n \in 0 .. Cardinality(for_decision(s)) : state_at(s, n) = "ACCEPTED"

===============================================================================
