------------------------------- MODULE Metrics -------------------------------
(***************************************************************************)
(* Behaviour metrics over the captured telemetry, telemetry/metrics.py:    *)
(* how traffic is classified (telemetry/events.py), which events count as  *)
(* observed, what is counted, when a rate is withheld, and which latencies *)
(* are reported.                                                           *)
(*                                                                         *)
(* The metrics are a function of the events captured so far; the only      *)
(* state is the telemetry store.  Rates are in ten-thousandths.            *)
(***************************************************************************)
EXTENDS DecisionFunction, Rounding

CONSTANTS Environment, PermittedEnvironment,  \* observed_metric_environments
          Label,                              \* what a deployment may call itself
          MinimumSample,                      \* minimum_sample
          Traffic,                            \* the events captured: see TrafficType
          MaxEvents                           \* bound: events captured

\* TelemetryEvent, the fields the metrics read, as a deployment labels them; a
\* reason code is a verifier fault or a judgement (TelemetryEvent.is_fault), and
\* only refusals carry one.
FaultReason == {"verifier_error", "verifier_timeout", "verifier_output_truncated",
                "malformed_verifier_output", "no_verifier_available"}
JudgementReason == {"unsupported_claim", "insufficient_evidence"}
TrafficType == [reason_code : FaultReason \cup JudgementReason \cup {None},
                environment : Label, population : Label, latency_ms : Nat]

ASSUME MetricsAssumption ==
  /\ "production" \in Environment
  /\ PermittedEnvironment \subseteq Environment
  /\ MinimumSample \in Nat \ {0}
  /\ Traffic \subseteq TrafficType
  /\ MaxEvents \in Nat

VARIABLE events   \* the telemetry store

\* A deployment nobody can place is taken for production, and a population only
\* for observed if it says so.
classify_environment(label) == IF label \in Environment THEN label ELSE "production"
classify_population(label) == IF label = "observed" THEN "observed" ELSE "synthetic"

grounded(e) == e.reason_code = None
is_fault(e) == e.reason_code \in FaultReason

-------------------------------------------------------------------------------
\* Slip: the environment alone decides what is observed.
observed_eventsAnyPopulation ==
  {i \in DOMAIN events : events[i].environment \in PermittedEnvironment}

observed_events ==
  {i \in DOMAIN events : /\ events[i].environment \in PermittedEnvironment
                         /\ events[i].population = "observed"}

synthetic_excluded == {i \in DOMAIN events : events[i].population # "observed"}

other_env_excluded ==
  {i \in DOMAIN events : /\ events[i].population = "observed"
                         /\ events[i].environment \notin PermittedEnvironment}

Sufficient(window) == Cardinality(window) >= MinimumSample

\* A figure is None (here <<>>) or a number (here <<number>>).
NoFigure == <<>>

\* No rate is reported when the sample is too small.
_rate(part, window) ==
  IF ~Sufficient(window) \/ window = {} THEN NoFigure
  ELSE <<FourDecimals(Cardinality(part), Cardinality(window))>>

\* The latency that takes place k (from 1) when the window is sorted.
Ranked(window, k) ==
  CHOOSE ms \in {events[i].latency_ms : i \in window} :
    /\ Cardinality({i \in window : events[i].latency_ms < ms}) < k
    /\ k <= Cardinality({i \in window : events[i].latency_ms <= ms})

AtLeastOne(k) == IF k < 1 THEN 1 ELSE k

\* Slip: the rank is rounded down.
RankRoundedDown(n, percent) == AtLeastOne((percent * n) \div 100)

\* max(0, min(n - 1, round(fraction * n) - 1)), counted from one.
Rank(n, percent) == AtLeastOne(RoundHalfEven(percent * n, 100))

_percentile(window, percent) ==
  IF window = {} THEN NoFigure
  ELSE <<Ranked(window, Rank(Cardinality(window), percent))>>

\* compute_behavior_metrics(), with observed_only as given.
BehaviorMetrics(observed_only) ==
  LET window == IF observed_only THEN observed_events ELSE DOMAIN events
      refused == {i \in window : ~grounded(events[i])}
      faults == {i \in window : is_fault(events[i])}
  IN  [total |-> Cardinality(window),
       insufficient_sample |-> ~Sufficient(window),
       grounded |-> Cardinality(window \ refused),
       refused |-> Cardinality(refused),
       faults |-> Cardinality(faults),
       reason_code_counts |->
         [code \in {events[i].reason_code : i \in refused} |->
            Cardinality({i \in window : events[i].reason_code = code})],
       grounded_rate |-> _rate(window \ refused, window),
       refused_rate |-> _rate(refused, window),
       fault_rate |-> _rate(faults, window),
       latency_ms_p50 |-> _percentile(window, 50),
       latency_ms_p95 |-> _percentile(window, 95),
       synthetic_events_excluded |->
         IF observed_only THEN Cardinality(synthetic_excluded) ELSE 0,
       other_environment_events_excluded |->
         IF observed_only THEN Cardinality(other_env_excluded) ELSE 0]

-------------------------------------------------------------------------------
\* InMemoryTelemetryStore.append(), of an event classified as it was labelled.
Capture(e) ==
  /\ Len(events) < MaxEvents
  /\ events' = Append(events,
                 [e EXCEPT !.environment = classify_environment(@),
                           !.population = classify_population(@)])

-------------------------------------------------------------------------------
(***************************************************************************)
(* Properties.                                                             *)
(***************************************************************************)
\* What describes production can only be moved by production: an event that
\* was not labelled observed, or whose label names another environment, changes
\* none of the observed figures, rates and latencies (ET-TEL-002).
Figures == [BehaviorMetrics(TRUE) EXCEPT !.synthetic_events_excluded = 0,
                                         !.other_environment_events_excluded = 0]

TestTrafficMovesNothing ==
  [][\A e \in Traffic :
       /\ \/ e.population # "observed"
          \/ e.environment \in Environment \ PermittedEnvironment
       /\ Capture(e)
       => Figures' = Figures]_events

\* The median reported is the least observed latency that half of the observed
\* latencies do not exceed, as its docstring has it ("Nearest-rank percentile",
\* metrics.py:179), except where the number of latencies is 5, 9, 13 and so on:
\* there its rank is rounded to even, and half less a latency is enough.  Never is
\* it off by more, and the 95th percentile is not below it.
MedianTakesItsRank ==
  LET m == BehaviorMetrics(TRUE)
      half == IF m.total > 1 /\ m.total % 4 = 1 THEN m.total - 1 ELSE m.total
      below == {i \in observed_events : events[i].latency_ms < m.latency_ms_p50[1]}
      upTo == {i \in observed_events : events[i].latency_ms <= m.latency_ms_p50[1]}
  IN  observed_events # {} =>
        /\ 2 * Cardinality(below) < half
        /\ 2 * Cardinality(upTo) >= half
        /\ m.latency_ms_p50[1] <= m.latency_ms_p95[1]

===============================================================================
