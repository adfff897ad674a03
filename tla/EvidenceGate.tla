----------------------------- MODULE EvidenceGate -----------------------------
(***************************************************************************)
(* The two checks between authorization and generation, evidence/gate.py,  *)
(* over the retrieved set of evidence/models.py.                           *)
(*                                                                         *)
(* An evidence set is the sequence of items in the order retrieval         *)
(* returned them.  Identifiers are ordered (Nat); relevance scores are in  *)
(* hundredths.  Neither the code nor this module requires identifiers to   *)
(* be distinct.                                                            *)
(***************************************************************************)
EXTENDS Naturals, Sequences, FiniteSets

CONSTANTS MinScore,           \* evidence.gate.min_similarity_score
          MinChunks,          \* evidence.gate.min_chunks_required
          TopK,               \* evidence.gate.top_k
          ProvenanceRequired, \* evidence.provenance.required
          PermittedSource,    \* evidence.provenance.permitted_sources
          Source              \* every origin an item may declare

\* contracts/models.py:75-93 bounds each threshold on its own; nothing relates
\* min_chunks_required to top_k.
ASSUME GateAssumption ==
  /\ MinScore \in 0 .. 100
  /\ MinChunks \in Nat \ {0}
  /\ TopK \in Nat \ {0}
  /\ ProvenanceRequired \in BOOLEAN
  /\ PermittedSource \subseteq Source

EvidenceItem == [id : Nat, score : 0 .. 100, provenance : Source]
EvidenceSet == Seq(EvidenceItem)

-------------------------------------------------------------------------------
check_provenance(items) ==
  ProvenanceRequired =>
    \A i \in DOMAIN items : items[i].provenance \in PermittedSource

\* Slip: ties are left in retrieval order.
PrecedesUnstable(items, i, j) ==
  items[i].score > items[j].score \/ (items[i].score = items[j].score /\ i < j)

\* The order of sorted(key=(-score, id)), which is stable.
Precedes(items, i, j) ==
  \/ items[i].score > items[j].score
  \/ /\ items[i].score = items[j].score
     /\ \/ items[i].id < items[j].id
        \/ items[i].id = items[j].id /\ i < j

\* truncated_to(top_k): the positions of the top_k items that come first.
Window(items) ==
  {j \in DOMAIN items :
     Cardinality({i \in DOMAIN items : Precedes(items, i, j)}) < TopK}

\* Slip: the bar applies to the first item retrieved.
top_scoreFirst(items, window) == IF window = {} THEN 0 ELSE items[1].score

\* EvidenceSet.top_score of a window; 0 when it is empty.
top_score(items, window) ==
  IF window = {} THEN 0
  ELSE LET best == CHOOSE i \in window :
                     \A j \in window : items[j].score <= items[i].score
       IN  items[best].score

evaluate_gate(items) ==
  LET window == Window(items)
  IN  CASE window = {} -> "empty"
        [] window # {} /\ \/ Cardinality(window) < MinChunks
                          \/ top_score(items, window) < MinScore -> "insufficient"
        [] OTHER -> "sufficient"

===============================================================================
