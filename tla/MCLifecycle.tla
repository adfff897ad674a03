----------------------------- MODULE MCLifecycle -----------------------------
(***************************************************************************)
(* Lifecycle under the shipped contract.                                   *)
(***************************************************************************)
EXTENDS Lifecycle, TLC

\* lifecycle.transitions of contracts/executable-trust-v1.0.yaml.
ShippedRules ==
  << [from |-> "PROPOSED", to |-> "ACCEPTED", requires_human_review |-> TRUE,
      requires_role |-> TRUE, requires_successor |-> FALSE],
     [from |-> "PROPOSED", to |-> "REJECTED", requires_human_review |-> TRUE,
      requires_role |-> TRUE, requires_successor |-> FALSE],
     [from |-> "ACCEPTED", to |-> "SUPERSEDED", requires_human_review |-> FALSE,
      requires_role |-> FALSE, requires_successor |-> TRUE] >>

ShippedTerminal == {"REJECTED", "SUPERSEDED"}

\* Decisions are interchangeable: nothing orders them.
LifecycleSymmetry == Permutations(Decision)

===============================================================================
