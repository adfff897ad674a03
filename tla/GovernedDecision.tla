--------------------------- MODULE GovernedDecision ---------------------------
(***************************************************************************)
(* What the governed request path promises, without its gates, verifier    *)
(* and telemetry (module docstring of decisions/service.py): one call at a *)
(* time, an immutable ledger with one decision per request at most, a      *)
(* caller told exactly what the ledger says, and no exception once a       *)
(* decision is in the ledger.                                              *)
(***************************************************************************)
EXTENDS Naturals, Sequences

CONSTANT Request

VARIABLES status,   \* per request: "new", "open", "answered" or "raised"
          ledger,   \* the decisions, in the order they became final
          told      \* per request: the outcome its caller was given

vars == <<status, ledger, told>>

Outcome == {"GROUNDED", "REFUSED"}
Untold == "none"

InLedger(r) == \E i \in DOMAIN ledger : ledger[i].request = r

Init ==
  /\ status = [r \in Request |-> "new"]
  /\ ledger = <<>>
  /\ told = [r \in Request |-> Untold]

\* A caller asks, for the first time or again after an exception.
Open(r) ==
  /\ \A other \in Request : status[other] # "open"
  /\ status[r] \in {"new", "raised"}
  /\ status' = [status EXCEPT ![r] = "open"]
  /\ UNCHANGED <<ledger, told>>

\* The decision becomes final before anyone is told of it.
Decide(r, outcome) ==
  /\ status[r] = "open"
  /\ ~InLedger(r)
  /\ ledger' = Append(ledger, [request |-> r, outcome |-> outcome])
  /\ UNCHANGED <<status, told>>

Answer(r) ==
  /\ status[r] = "open"
  /\ \E i \in DOMAIN ledger :
       /\ ledger[i].request = r
       /\ told' = [told EXCEPT ![r] = ledger[i].outcome]
  /\ status' = [status EXCEPT ![r] = "answered"]
  /\ UNCHANGED ledger

Raise(r) ==
  /\ status[r] = "open"
  /\ ~InLedger(r)
  /\ status' = [status EXCEPT ![r] = "raised"]
  /\ UNCHANGED <<ledger, told>>

Progress ==
  \E r \in Request :
    \/ \E outcome \in Outcome : Decide(r, outcome)
    \/ Answer(r)
    \/ Raise(r)

Next == (\E r \in Request : Open(r)) \/ Progress

Spec == Init /\ [][Next]_vars /\ WF_vars(Progress)

===============================================================================
