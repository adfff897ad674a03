---------------------------- MODULE LifecycleRules ----------------------------
(***************************************************************************)
(* The lifecycle a contract declares (contracts/models.py, the schema      *)
(* trust-contract.schema.json) and the check of its coherence              *)
(* (contracts/validation.py).                                              *)
(***************************************************************************)
EXTENDS Naturals, Sequences

None == "none"

\* The schema admits exactly these states, and no other initial state.
LifecycleState == {"PROPOSED", "ACCEPTED", "REJECTED", "SUPERSEDED"}

\* LifecycleTransitionRule, the fields the machine reads.
Rule == [from : LifecycleState, to : LifecycleState,
         requires_human_review : BOOLEAN, requires_role : BOOLEAN,
         requires_successor : BOOLEAN]

\* validate_lifecycle_coherence(): nothing leaves a terminal state, every state
\* can be entered, and the rules ask for what the validators will insist on.
lifecycle_coherent(rules, initial, terminal) ==
  /\ \A k \in DOMAIN rules :
       /\ rules[k].from \notin terminal
       /\ rules[k].to = "SUPERSEDED" => rules[k].requires_successor
       /\ rules[k].to \in {"ACCEPTED", "REJECTED"} =>
            rules[k].requires_human_review /\ rules[k].requires_role
  /\ LifecycleState \subseteq {initial} \cup {rules[k].to : k \in DOMAIN rules}

===============================================================================
