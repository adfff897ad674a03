------------------------------ MODULE Lifecycle ------------------------------
(***************************************************************************)
(* The review lifecycle of a decision record: LifecycleStateMachine and    *)
(* the append-only InMemoryTransitionLog it writes to (lifecycle/).        *)
(*                                                                         *)
(* The state of a decision is never stored; it is folded from the log.     *)
(* Three boundaries guard the log: the machine checks the contract, the    *)
(* validators of LifecycleTransition check attribution, and append()       *)
(* checks the position.  Spec lets callers reach the log through the       *)
(* machine only; in OpenSpec they call append() themselves.                 *)
(***************************************************************************)
EXTENDS LifecycleRules, FiniteSets

CONSTANTS Decision,       \* decision identifiers
          Principal,      \* actors of type PRINCIPAL; each declares a role
          System,         \* actors of type SYSTEM; none declares a role
          InitialState,   \* lifecycle.initial_state of the contract
          TerminalState,  \* lifecycle.terminal_states of the contract
          Rules,          \* lifecycle.transitions of the contract, in order
          MaxTxn          \* bound: transition identifiers handed out

Actor == Principal \cup System

ASSUME LifecycleAssumption ==
  /\ None \notin Decision
  /\ Principal \cap System = {}
  /\ InitialState \in LifecycleState
  /\ TerminalState \subseteq LifecycleState
  /\ Rules \in Seq(Rule)
  /\ MaxTxn \in Nat

VARIABLES log,   \* InMemoryTransitionLog._transitions, in insertion order
          txn,   \* SequentialIdFactory._counters["txn"]
          last   \* the latest call: its arguments and how it ended

vars == <<log, txn, last>>

-------------------------------------------------------------------------------
(***************************************************************************)
(* Projections of the log.                                                 *)
(***************************************************************************)
\* Where the log holds the transitions of decision d.
for_decision(d) == {i \in DOMAIN log : log[i].decision_id = d}

seen == {<<log[i].decision_id, log[i].sequence>> : i \in DOMAIN log}

\* Slip: the oldest transition wins.
Oldest(history, indices) ==
  CHOOSE i \in indices : \A j \in indices : history[i].sequence <= history[j].sequence

\* The position of the transition with the highest sequence.
Latest(history, indices) ==
  CHOOSE i \in indices : \A j \in indices : history[j].sequence <= history[i].sequence

project_state(indices) ==
  IF indices = {} THEN InitialState ELSE log[Latest(log, indices)].to_state

current_state(d) == project_state(for_decision(d))

state_at(d, n) == project_state({i \in for_decision(d) : log[i].sequence <= n})

-------------------------------------------------------------------------------
(***************************************************************************)
(* The contract's boundary.                                                *)
(***************************************************************************)
Matching(from, to) == {i \in DOMAIN Rules : Rules[i].from = from /\ Rules[i].to = to}

Declared(from, to) == Matching(from, to) # {}

\* The first declared transition that matches governs.
transition_rule(from, to) ==
  Rules[CHOOSE i \in Matching(from, to) : \A j \in Matching(from, to) : i <= j]

is_accountable_human(actor) == actor \in Principal

HasRole(actor) == actor \in Principal

\* Slip: the rule is looked up from the initial state.
RefusalFromInitial(d, to, actor, successor) ==
  LET rule == transition_rule(InitialState, to)
  IN  IF ~Declared(InitialState, to) THEN "InvalidTransition"
      ELSE IF (rule.requires_human_review \/ rule.requires_role) /\ actor \notin Principal
        THEN "MissingAccountableReview"
      ELSE None

\* Slip: the review is not asked for.
RefusalUnreviewed(d, to, actor, successor) ==
  LET from == current_state(d)
  IN  IF \/ from \in TerminalState
         \/ ~Declared(from, to)
         \/ transition_rule(from, to).requires_successor /\ successor = None
        THEN "InvalidTransition" ELSE None

\* Why transition() refuses, None if it does not: a terminal state is permanent,
\* the transition is undeclared, nobody accountable acts, or no successor is
\* named, in this order.
Refusal(d, to, actor, successor) ==
  LET from == current_state(d)
      rule == transition_rule(from, to)
  IN  IF from \in TerminalState \/ ~Declared(from, to)
        THEN "InvalidTransition"
      ELSE IF \/ rule.requires_human_review /\ ~is_accountable_human(actor)
              \/ rule.requires_role /\ ~HasRole(actor)
        THEN "MissingAccountableReview"
      ELSE IF rule.requires_successor /\ successor = None
        THEN "InvalidTransition"
      ELSE None

-------------------------------------------------------------------------------
(***************************************************************************)
(* The model's and the log's boundaries.                                   *)
(***************************************************************************)
Transition == [transition_id : Nat \ {0}, decision_id : Decision,
               sequence : Nat \ {0}, from_state : LifecycleState \cup {None},
               to_state : LifecycleState, actor : Actor,
               successor_decision_id : Decision \cup {None}]

\* The validators of LifecycleTransition: exactly a supersession names a
\* successor, and a review is an act of a principal in a role.
TransitionIsValid(t) ==
  /\ (t.to_state = "SUPERSEDED") <=> (t.successor_decision_id # None)
  /\ t.to_state \in {"ACCEPTED", "REJECTED"} =>
       is_accountable_human(t.actor) /\ HasRole(t.actor)

Call(how, d, to, actor, successor) ==
  [how |-> how, decision_id |-> d, to_state |-> to, actor |-> actor,
   successor_decision_id |-> successor]

Answer(how, t) ==
  Call(how, t.decision_id, t.to_state, t.actor, t.successor_decision_id)

\* The position a transition must take.
expected(d) == Cardinality(for_decision(d)) + 1

InOrder(t) ==
  /\ <<t.decision_id, t.sequence>> \notin seen
  /\ t.sequence = expected(t.decision_id)

\* Slip: the newest transition is put first.
appendNewestFirst(t) ==
  /\ InOrder(t)
  /\ log' = <<t>> \o log
  /\ last' = Answer("recorded", t)

append(t) ==
  \/ /\ ~InOrder(t)
     /\ last' = Answer("ImmutableRecordViolation", t)
     /\ UNCHANGED log
  \/ /\ InOrder(t)
     /\ log' = Append(log, t)
     /\ last' = Answer("recorded", t)

-------------------------------------------------------------------------------
(***************************************************************************)
(* LifecycleStateMachine.                                                  *)
(***************************************************************************)
Init ==
  /\ log = <<>>
  /\ txn = 0
  /\ last = <<>>

\* Slip: transitions are numbered per decision, not by the factory.
ProposedLocalId(d, to, actor, successor) ==
  [transition_id |-> expected(d), decision_id |-> d, sequence |-> expected(d),
   from_state |-> current_state(d), to_state |-> to, actor |-> actor,
   successor_decision_id |-> successor]

\* What transition() constructs once nothing refuses it.
Proposed(d, to, actor, successor) ==
  [transition_id |-> txn + 1, decision_id |-> d, sequence |-> expected(d),
   from_state |-> current_state(d), to_state |-> to, actor |-> actor,
   successor_decision_id |-> successor]

\* The contract refuses before an identifier is drawn; the validators and the
\* log refuse after, so that the identifier is spent.
transition(d, to, actor, successor) ==
  LET refusal == Refusal(d, to, actor, successor)
      t == Proposed(d, to, actor, successor)
  IN  \/ /\ refusal # None
         /\ last' = Call(refusal, d, to, actor, successor)
         /\ UNCHANGED <<log, txn>>
      \/ /\ refusal = None
         /\ txn < MaxTxn
         /\ txn' = txn + 1
         /\ \/ /\ ~TransitionIsValid(t)
               /\ last' = Call("ValueError", d, to, actor, successor)
               /\ UNCHANGED log
            \/ /\ TransitionIsValid(t)
               /\ append(t)

accept(d, reviewer) == transition(d, "ACCEPTED", reviewer, None)

reject(d, reviewer) == transition(d, "REJECTED", reviewer, None)

supersede(d, successor, actor) == transition(d, "SUPERSEDED", actor, successor)

\* Someone holding the log appends a transition of their own making.
AppendDirectly(t) ==
  /\ txn < MaxTxn
  /\ txn' = txn + 1
  /\ TransitionIsValid(t)
  /\ append(t)

Next ==
  \/ \E d \in Decision, a \in Actor : accept(d, a)
  \/ \E d \in Decision, a \in Actor : reject(d, a)
  \/ \E d \in Decision, a \in Actor, s \in Decision : supersede(d, s, a)
  \/ \E d \in Decision, to \in LifecycleState, a \in Actor,
        s \in Decision \cup {None} : transition(d, to, a, s)

\* A hand-made transition may claim any position, source and target; what the
\* machine would append is one of them.
OpenNext ==
  \E d \in Decision, from \in LifecycleState \cup {None}, to \in LifecycleState,
     a \in Actor, s \in Decision \cup {None}, n \in 1 .. MaxTxn :
    AppendDirectly([transition_id |-> txn + 1, decision_id |-> d,
                    sequence |-> n, from_state |-> from, to_state |-> to,
                    actor |-> a, successor_decision_id |-> s])

Spec == Init /\ [][Next]_vars
OpenSpec == Init /\ [][OpenNext]_vars

-------------------------------------------------------------------------------
(***************************************************************************)
(* Properties.                                                             *)
(***************************************************************************)
Outcome == {"recorded", "InvalidTransition", "MissingAccountableReview",
            "ValueError", "ImmutableRecordViolation"}

CallType == [how : Outcome, decision_id : Decision, to_state : LifecycleState,
             actor : Actor, successor_decision_id : Decision \cup {None}]

\* The shape of the state; identifiers are never drawn twice.
TypeOK ==
  /\ log \in Seq(Transition)
  /\ txn \in 0 .. MaxTxn
  /\ last \in CallType \cup {<<>>}
  /\ \A i \in DOMAIN log : log[i].transition_id <= txn
  /\ \A i, j \in DOMAIN log : i < j => log[i].transition_id < log[j].transition_id

\* The history of every decision has exactly the positions 1 .. n, each once: no
\* gap (a lost transition) and no rewritten position, however the transitions
\* of several decisions are mixed in the log (history.py, InMemoryTransitionLog).
SequencesContiguous ==
  \A d \in Decision :
    /\ \A i, j \in for_decision(d) : i < j => log[i].sequence < log[j].sequence
    /\ {log[i].sequence : i \in for_decision(d)} = 1 .. Cardinality(for_decision(d))

\* A decision's history is a path: it starts in the contract's initial state and
\* each transition leaves the state the one before it entered, so that folding
\* it, as project_state() does, is meaningful (ET-LC-007).
HistoryIsAPath ==
  \A d \in Decision : \A i \in for_decision(d) :
    /\ log[i].sequence = 1 => log[i].from_state = InitialState
    /\ \A j \in for_decision(d) :
         log[j].sequence = log[i].sequence + 1 => log[j].from_state = log[i].to_state

\* Every recorded transition is one the contract declares, by an actor and with
\* a successor that the governing rule asks for (ET-LC-005): there is no path
\* that records an undeclared transition (state_machine.py, module docstring).
TransitionsDeclared ==
  \A i \in DOMAIN log :
    \E k \in DOMAIN Rules :
      /\ Rules[k].from = log[i].from_state
      /\ Rules[k].to = log[i].to_state
      /\ Rules[k].requires_human_review \/ Rules[k].requires_role =>
           log[i].actor \in Principal
      /\ Rules[k].requires_successor => log[i].successor_decision_id # None

\* Once a decision has entered a terminal state nothing is ever recorded for it
\* again (ET-LC-004), whoever asks and whatever the contract declares.
TerminalIsPermanent ==
  \A d \in Decision : \A i, j \in for_decision(d) :
    log[i].to_state \in TerminalState => log[j].sequence <= log[i].sequence

\* A decision stands accepted or rejected only because an accountable human made
\* it so, and superseded only with a successor named, even if the contract asks
\* for neither (ET-LC-001..003).
ReviewsAreAttributed ==
  \A d \in Decision : \A n \in 1 .. Cardinality(for_decision(d)) :
    \E i \in for_decision(d) :
      /\ log[i].sequence = n
      /\ state_at(d, n) \in {"ACCEPTED", "REJECTED"} => log[i].actor \in Principal
      /\ state_at(d, n) = "SUPERSEDED" => log[i].successor_decision_id \in Decision

ContractIsCoherent == lifecycle_coherent(Rules, InitialState, TerminalState)

\* The boundaries agree: the log never refuses what the machine let through, and
\* under a coherent contract the validators refuse only a successor named where
\* none belongs.  Otherwise a permitted review would fail after its identifier
\* was drawn.
BoundariesAgree ==
  last # <<>> =>
    /\ last.how # "ImmutableRecordViolation"
    /\ last.how = "ValueError" /\ ContractIsCoherent =>
         last.to_state # "SUPERSEDED" /\ last.successor_decision_id # None

\* What a decision's state was at a position never changes afterwards: the log
\* only grows, and state_at() answers the same for every recorded position.
HistoryIsStable ==
  [][/\ Len(log) <= Len(log')
     /\ \A i \in DOMAIN log : log'[i] = log[i]
     /\ \A d \in Decision : \A n \in 0 .. Cardinality(for_decision(d)) :
          state_at(d, n)' = state_at(d, n)]_vars

===============================================================================
