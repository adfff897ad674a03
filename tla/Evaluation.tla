------------------------------ MODULE Evaluation ------------------------------
(***************************************************************************)
(* The offline evaluation gate, evaluation/runner.py: cases are run one    *)
(* after the other, compared with what a human expected, and summarised    *)
(* into a pass rate that the contract's baseline gate is applied to.       *)
(*                                                                         *)
(* Each case gets fresh stores, clock and identifiers (run_case()), so a   *)
(* case contributes nothing but what was expected and what was decided.    *)
(* Runs of equal cases are evaluated as one batch, so that large golden    *)
(* sets are within reach.                                                  *)
(***************************************************************************)
EXTENDS DecisionFunction, Rounding

CONSTANTS Category,     \* categories of the golden set
          MinimumRate,  \* minimum pass rates contracts require, in ten-thousandths
          BatchSize,    \* bound: how many equal cases are evaluated at once
          MaxBatches    \* bound: batches in one suite

ASSUME EvaluationAssumption ==
  /\ MinimumRate \subseteq Nat
  /\ BatchSize \subseteq Nat \ {0}
  /\ MaxBatches \in Nat

\* What a case may expect, EvaluationCase._expectations_obey_the_outcome_relation(),
\* which is also what VerificationDecision enforces of the decisions made.
Verdict ==
  {v \in [outcome : DecisionOutcome, strategy : ResponseStrategy \cup {None},
          reason_code : {"unsupported_claim", "insufficient_evidence", None}] :
     IF v.outcome = "GROUNDED" THEN v.strategy # None /\ v.reason_code = None
     ELSE v.strategy = None /\ v.reason_code # None}

VARIABLE results   \* the CaseResults, in the order of evaluation

-------------------------------------------------------------------------------
\* Slip: a refusal for another reason counts as a pass.
passedOutcomeOnly(result) ==
  result.expected.outcome = result.actual.outcome
    /\ result.expected.strategy = result.actual.strategy

\* No divergence in outcome, strategy or reason code.
passed(result) ==
  /\ result.expected.outcome = result.actual.outcome
  /\ result.expected.strategy = result.actual.strategy
  /\ result.expected.reason_code = result.actual.reason_code

\* The cases that some of the batches stand for.
Times(indices) ==
  LET upTo[n \in 0 .. Len(results)] ==
        IF n = 0 THEN 0
        ELSE upTo[n - 1] + (IF n \in indices THEN results[n].times ELSE 0)
  IN  upTo[Len(results)]

total == Times(DOMAIN results)
passing == {i \in DOMAIN results : passed(results[i])}

\* Slip: the rate is rounded to whole percents.
pass_rateInPercent ==
  IF total = 0 THEN 0 ELSE 100 * RoundHalfEven(100 * Times(passing), total)

pass_rate == IF total = 0 THEN 0 ELSE FourDecimals(Times(passing), total)

InCategory(c) == {i \in DOMAIN results : results[i].category = c}

by_category ==
  [c \in {results[i].category : i \in DOMAIN results} |->
     [total |-> Times(InCategory(c)), passed |-> Times(InCategory(c) \cap passing)]]

\* summarize(), for a contract that requires the given rate.
summarize(minimum) ==
  [total |-> total, passed |-> Times(passing), failed |-> total - Times(passing),
   by_category |-> by_category,
   gate_passed |-> total > 0 /\ pass_rate >= minimum]

-------------------------------------------------------------------------------
\* evaluate(): the same expectation and the same decision, so many times.
Evaluate(category, expected, actual, times) ==
  /\ Len(results) < MaxBatches
  /\ results' = Append(results, [category |-> category, expected |-> expected,
                                 actual |-> actual, times |-> times])

-------------------------------------------------------------------------------
(***************************************************************************)
(* Properties.                                                             *)
(***************************************************************************)
Diverges(i) == results[i].expected # results[i].actual

\* Running more cases moves the gate in the right direction only: a diverging
\* case never opens it, not even as the first unless the contract requires a rate
\* of nothing, and a conforming one never closes it once it is open, whatever the
\* rate required (summarize()).
GateMovesTheRightWay ==
  [][results' # results =>
       LET latest == results'[Len(results')]
       IN  \A minimum \in MinimumRate :
             IF latest.expected # latest.actual
               THEN summarize(minimum)'.gate_passed =>
                      \/ summarize(minimum).gate_passed
                      \/ minimum = 0 /\ results = <<>>
               ELSE summarize(minimum).gate_passed => summarize(minimum)'.gate_passed]_results

\* Up to the size at which four decimals still tell one failure apart, a gate
\* that requires a perfect rate is open only if no case diverged.
PerfectGateIsExact ==
  total \in 1 .. 2 * Whole - 1 =>
    (summarize(Whole).gate_passed <=> \A i \in DOMAIN results : ~Diverges(i))

===============================================================================
