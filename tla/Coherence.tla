------------------------------- MODULE Coherence -------------------------------
(***************************************************************************)
(* An author writes the lifecycle of a contract, transition by transition, *)
(* and the cross-artifact check is run after each.                         *)
(***************************************************************************)
EXTENDS LifecycleRules, FiniteSets

CONSTANT MaxRules   \* bound: transitions declared

VARIABLES transitions,  \* lifecycle.transitions, in order
          terminal      \* lifecycle.terminal_states

lifecycle == <<transitions, terminal>>

initial_state == "PROPOSED"

-------------------------------------------------------------------------------
Init ==
  /\ transitions = <<>>
  /\ terminal \in SUBSET {"REJECTED", "SUPERSEDED"} \ {{}}

\* Every transition the schema admits asks for what its target calls for, or
\* for nothing.
Declare ==
  /\ Len(transitions) < MaxRules
  /\ \E from \in LifecycleState, to \in LifecycleState, demanding \in BOOLEAN :
       transitions' = Append(transitions,
         [from |-> from, to |-> to, requires_human_review |-> demanding,
          requires_role |-> demanding, requires_successor |-> demanding])
  /\ UNCHANGED terminal

Spec == Init /\ [][Declare]_lifecycle

-------------------------------------------------------------------------------
\* The states a decision can get into: each step adds the targets of what leaves
\* the states found before, and there are no more steps than states.
Found[n \in 0 .. Cardinality(LifecycleState)] ==
  IF n = 0 THEN {initial_state}
  ELSE Found[n - 1] \cup
         {transitions[k].to : k \in {i \in DOMAIN transitions :
                                       transitions[i].from \in Found[n - 1]}}

\* "Checks that ... every state except the initial one is reachable ... A
\* lifecycle with an unreachable state is a lifecycle with a typo"
\* (contracts/validation.py:118-121, validate_lifecycle_coherence()).
EveryStateIsReachable ==
  lifecycle_coherent(transitions, initial_state, terminal) =>
    Found[Cardinality(LifecycleState)] = LifecycleState

===============================================================================
