-------------------------- MODULE ResilientVerifier --------------------------
(***************************************************************************)
(* The circuit breaker in front of the verifiers: ResilientVerifier and    *)
(* HealthWindow of verification/resilience.py.                             *)
(*                                                                         *)
(* One call of verify() walks the candidates, primary first.  A step of    *)
(* this module is what happens to one candidate: its window is consulted,  *)
(* it is asked for its health, it is called, and the outcome is recorded.  *)
(* Mechanisms are foreign code, so what each of these returns is chosen    *)
(* freely.                                                                 *)
(***************************************************************************)
EXTENDS Naturals, Sequences, FiniteSets

CONSTANTS
  Candidate,        \* names of the mechanisms, primary first
  Capacity,         \* HealthWindow.capacity
  MinObservations,  \* minimum_observations of the contract
  ThresholdNum,     \* fault_rate_threshold of the contract is
  ThresholdDen,     \*   ThresholdNum / ThresholdDen
  MaxEvents,        \* bound: a mechanism faults only while fewer are recorded
  MaxResets         \* bound: calls of HealthWindow.reset()

Name == {Candidate[k] : k \in DOMAIN Candidate}
Primary == Candidate[1]

ASSUME BreakerAssumption ==
  /\ Candidate \in Seq(STRING)
  /\ Len(Candidate) \in {1, 2}
  /\ Capacity \in Nat \ {0} /\ MinObservations \in Nat
  /\ ThresholdNum \in Nat /\ ThresholdDen \in Nat \ {0}
  /\ MaxEvents \in Nat /\ MaxResets \in Nat

VARIABLES
  cursor,  \* position of the candidate being considered, 0 between calls
  unwell,  \* candidates that reported themselves unhealthy in this call
  health,  \* per name: the outcomes in its window, TRUE for a fault
  events,  \* the health events, oldest first
  ended,   \* how the latest call ended, and the candidate it ended at
  resets   \* per name: how often its window was reset

vars == <<cursor, unwell, health, events, ended, resets>>

-------------------------------------------------------------------------------
(***************************************************************************)
(* HealthWindow.                                                           *)
(***************************************************************************)
\* Slip: a plain list, which keeps every outcome.
RecordedUnbounded(window, faulted) == Append(window, faulted)

\* deque(maxlen = capacity): appending to a full window drops the oldest.
Recorded(window, faulted) ==
  IF Len(window) < Capacity THEN Append(window, faulted)
  ELSE Append(Tail(window), faulted)

faults(name) == Cardinality({i \in DOMAIN health[name] : health[name][i]})
observations(name) == Len(health[name])

\* Slip: the window has to hold more than the minimum.
is_trippedLate(name) ==
  /\ observations(name) > MinObservations
  /\ faults(name) * ThresholdDen > ThresholdNum * observations(name)

\* The fault rate exceeds the threshold, over enough observations.
is_tripped(name) ==
  /\ observations(name) >= MinObservations
  /\ faults(name) * ThresholdDen > ThresholdNum * observations(name)

-------------------------------------------------------------------------------
(***************************************************************************)
(* verify().                                                               *)
(***************************************************************************)
Init ==
  /\ cursor = 0
  /\ unwell = {}
  /\ health = [n \in Name |-> <<>>]
  /\ events = <<>>
  /\ ended = <<>>
  /\ resets = [n \in Name |-> 0]

Current == Candidate[cursor]

HealthEvent(name, event) == [mechanism |-> name, event |-> event]

\* _record(): an outcome enters the window; a fault is an event as well.
RecordOk == health' = [health EXCEPT ![Current] = Recorded(@, FALSE)]
RecordFault == health' = [health EXCEPT ![Current] = Recorded(@, TRUE)]

Call ==
  /\ cursor = 0
  /\ cursor' = 1
  /\ unwell' = {}
  /\ UNCHANGED <<health, events, ended, resets>>

\* The call ends at the candidate considered.
End(how) ==
  /\ cursor' = 0
  /\ ended' = [how |-> how, at |-> cursor]

Considering == cursor \in DOMAIN Candidate

SkipTripped ==
  /\ Considering
  /\ is_tripped(Current)
  /\ cursor' = cursor + 1
  /\ UNCHANGED <<unwell, health, events, ended, resets>>

\* Slip: a report of ill health enters the window without an event.
SkipUnhealthySilently ==
  /\ Considering
  /\ ~is_tripped(Current)
  /\ Len(events) < MaxEvents
  /\ RecordFault
  /\ unwell' = unwell \cup {cursor}
  /\ cursor' = cursor + 1
  /\ UNCHANGED <<events, ended, resets>>

SkipUnhealthy ==
  /\ Considering
  /\ ~is_tripped(Current)
  /\ Len(events) < MaxEvents
  /\ RecordFault
  /\ events' = Append(events, HealthEvent(Current, "reported_unhealthy"))
  /\ unwell' = unwell \cup {cursor}
  /\ cursor' = cursor + 1
  /\ UNCHANGED <<ended, resets>>

\* Slip: a tripped mechanism is probed with live traffic.
AnswersAnyway ==
  /\ Considering
  /\ RecordOk
  /\ End("response")
  /\ UNCHANGED <<unwell, events, resets>>

Answers ==
  /\ Considering
  /\ ~is_tripped(Current)
  /\ RecordOk
  /\ End("response")
  /\ UNCHANGED <<unwell, events, resets>>

\* VerifierFailure: recorded, and raised again.  A fault that trips the primary
\* is followed by the escalation event.
Fails ==
  /\ Considering
  /\ ~is_tripped(Current)
  /\ Len(events) + 1 < MaxEvents
  /\ RecordFault
  /\ End("failure")
  /\ events' = Append(events, HealthEvent(Current, "fault"))
                 \o (IF cursor = 1 /\ is_tripped(Primary)'
                       THEN <<HealthEvent(Primary, "escalated")>> ELSE <<>>)
  /\ UNCHANGED <<unwell, resets>>

\* Any other exception passes through verify() and leaves no trace.
Raises ==
  /\ Considering
  /\ ~is_tripped(Current)
  /\ End("exception")
  /\ UNCHANGED <<unwell, health, events, resets>>

\* Slip: the refusal is raised as soon as the primary is out.
ExhaustedEarly ==
  /\ cursor > 1
  /\ End("unavailable")
  /\ UNCHANGED <<unwell, health, events, resets>>

\* VerifierUnavailable: no candidate was left.
Exhausted ==
  /\ cursor > Len(Candidate)
  /\ End("unavailable")
  /\ UNCHANGED <<unwell, health, events, resets>>

\* Someone resets a window, between calls.
Reset(name) ==
  /\ cursor = 0
  /\ resets[name] < MaxResets
  /\ health' = [health EXCEPT ![name] = <<>>]
  /\ resets' = [resets EXCEPT ![name] = @ + 1]
  /\ UNCHANGED <<cursor, unwell, events, ended>>

Consult == SkipTripped \/ SkipUnhealthy \/ Answers \/ Fails \/ Raises \/ Exhausted

Next == Call \/ Consult \/ \E name \in Name : Reset(name)

Spec == Init /\ [][Next]_vars

-------------------------------------------------------------------------------
(***************************************************************************)
(* Properties.                                                             *)
(***************************************************************************)
EventName == {"fault", "reported_unhealthy", "escalated"}

\* The shape of the state; a window never outgrows its capacity.
TypeOK ==
  /\ cursor \in 0 .. Len(Candidate) + 1
  /\ unwell \subseteq DOMAIN Candidate
  /\ health \in [Name -> Seq(BOOLEAN)]
  /\ \A n \in Name : Len(health[n]) <= Capacity
  /\ events \in Seq([mechanism : Name, event : EventName])
  /\ ended \in {<<>>} \cup
       [how : {"response", "failure", "exception", "unavailable"},
        at : 1 .. Len(Candidate) + 1]
  /\ resets \in [Name -> 0 .. MaxResets]

\* Escalation is sticky (ResilientVerifier, class docstring): a tripped mechanism
\* stays tripped, whatever is asked of the others, until its window is reset.
TripIsSticky ==
  [][\A n \in Name : is_tripped(n) => is_tripped(n)' \/ resets'[n] # resets[n]]_vars

\* A call is served by the first candidate that is neither tripped nor unwell,
\* and it is refused for want of a verifier only if every candidate is one or
\* the other (ET-RES-001, ET-RES-002).
Passed(k) == is_tripped(Candidate[k]) \/ k \in unwell

ServedByFirstPermitted ==
  [][cursor # 0 /\ cursor' = 0 =>
       /\ \A k \in 1 .. cursor - 1 : Passed(k)
       /\ IF ended'.how = "unavailable" THEN \A k \in DOMAIN Candidate : Passed(k)
          ELSE ended'.at \in DOMAIN Candidate /\ ~Passed(ended'.at)]_vars

EventsOf(name, kinds) ==
  {i \in DOMAIN events : events[i].mechanism = name /\ events[i].event \in kinds}

\* Every fault that weighs on a mechanism was recorded as an event; and the trip
\* of a primary is announced at most once per life of its window, so that the
\* escalations in the event log can be counted.
EventsAccountForFaults ==
  /\ \A n \in Name :
       faults(n) <= Cardinality(EventsOf(n, {"fault", "reported_unhealthy"}))
  /\ Cardinality(EventsOf(Primary, {"escalated"})) <= resets[Primary] + 1

\* A mechanism that only faults is given up after exactly the minimum number of
\* observations: the breaker learns no longer than the contract says.  For this
\* the threshold must be one that a full window of faults exceeds even with one
\* answer in it; otherwise old answers still count while they slide out.
FaultyIsGivenUp ==
  MinObservations > 0 /\ (Capacity - 1) * ThresholdDen > ThresholdNum * Capacity
  => \A n \in Name : faults(n) = observations(n) => observations(n) <= MinObservations

\* Every change in which mechanism serves verification is recorded as a health
\* event (HealthEvent, docstring): a tripped primary was announced since its
\* window was last reset.
EscalationIsRecorded ==
  is_tripped(Primary) => Cardinality(EventsOf(Primary, {"escalated"})) > resets[Primary]

===============================================================================
