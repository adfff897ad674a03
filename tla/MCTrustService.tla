---------------------------- MODULE MCTrustService ----------------------------
(***************************************************************************)
(* TrustService on a small instance: one ask per way the gates can decide, *)
(* one verifier answer per way decide() can, both kinds of exception.      *)
(***************************************************************************)
EXTENDS TrustService

Item(id, score, source) == [id |-> id, score |-> score, provenance |-> source]

Strong == Item(1, 80, "governed_corpus")
Weak == Item(2, 20, "governed_record")
Web == Item(3, 90, "open_web")

GoodAsk == [standing |-> "ratified", allowed |-> TRUE, evidence |-> <<Weak, Weak, Strong>>]

\* Three items make the window (TopK = 2) smaller than the set.
MCAsk ==
  {[GoodAsk EXCEPT !.standing = "unknown"],
   [GoodAsk EXCEPT !.standing = "draft"],
   [GoodAsk EXCEPT !.allowed = FALSE],
   [GoodAsk EXCEPT !.evidence = <<Strong, Web>>],
   [GoodAsk EXCEPT !.evidence = <<>>],
   [GoodAsk EXCEPT !.evidence = <<Weak>>],
   GoodAsk}

MCMechanism == {"authorization", "evidence-gate", "contract-resolution",
                "scripted", "served"}

RawOf(verdict, limits) ==
  [verdict |-> verdict, text |-> "words", evidence_ref |-> None, limits |-> limits]

Whole == [mechanism |-> "served", claims |-> <<RawOf("SUPPORTED", TRUE)>>,
          answers_question |-> "true", truncated |-> FALSE]

\* One response that grounds, one that refuses on its claims, one before them.
MCResponse ==
  {Whole,
   [Whole EXCEPT !.claims = <<RawOf("SUPPORTED", FALSE), RawOf("CONTRADICTED", FALSE)>>],
   [Whole EXCEPT !.truncated = TRUE]}

===============================================================================
