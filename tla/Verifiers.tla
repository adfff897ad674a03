------------------------------- MODULE Verifiers -------------------------------
(***************************************************************************)
(* The verifiers the repository ships, verification/deterministic.py: the  *)
(* scripted one, the keyword one, and the wrapper that injects faults.     *)
(*                                                                         *)
(* verify() returns a VerifierResponse or raises a VerifierFailure, and so *)
(* an outcome is one or the other.  A text is the set of its words.        *)
(***************************************************************************)
EXTENDS DecisionFunction, SequencesExt

CONSTANTS Word,         \* what texts are made of
          Significant,  \* the words _significant() keeps: three characters or
                        \*   more, and not a stopword
          PartOf        \* <<v, w>>: v occurs inside w

ASSUME WordAssumption ==
  /\ Significant \subseteq Word
  /\ PartOf \subseteq Word \X Word
  /\ \A w \in Word : <<w, w>> \in PartOf

Sentence == [words : SUBSET Word, limits : BOOLEAN]
Passage == SUBSET Word

Returned(response) == [raised |-> None, response |-> response]
Raise(code) == [raised |-> code, response |-> <<>>]

-------------------------------------------------------------------------------
(***************************************************************************)
(* KeywordVerifier.                                                        *)
(***************************************************************************)
\* w in haystack: w may occur inside a longer word of the text.
OccursIn(w, passage) == \E v \in passage : <<w, v>> \in PartOf

\* Slip: a sentence without a significant word is entailed by anything.
EntailsVacuously(passage, sentence) ==
  \A w \in sentence.words \cap Significant : OccursIn(w, passage)

Entails(passage, sentence) ==
  /\ sentence.words \cap Significant # {}
  /\ \A w \in sentence.words \cap Significant : OccursIn(w, passage)

\* The items that entail a sentence; the first of them is cited.
Entailing(sentence, passages) ==
  {i \in DOMAIN passages : Entails(passages[i], sentence)}

JudgedSentence(sentence, passages) ==
  LET supported == Entailing(sentence, passages) # {}
  IN  [verdict |-> IF supported THEN "SUPPORTED" ELSE "UNSUPPORTED",
       text |-> "words",
       evidence_ref |-> IF supported THEN "ref" ELSE None,
       limits |-> sentence.limits]

_overlaps(question, sentence) ==
  question \cap sentence.words \cap Significant # {}

KeywordVerify(name, answer, passages, question) ==
  [mechanism |-> name,
   claims |-> [i \in DOMAIN answer |-> JudgedSentence(answer[i], passages)],
   answers_question |->
     IF \E i \in DOMAIN answer : /\ Entailing(answer[i], passages) # {}
                                /\ _overlaps(question, answer[i])
       THEN "true" ELSE "false",
   truncated |-> FALSE]

-------------------------------------------------------------------------------
(***************************************************************************)
(* FaultInjectingVerifier.  Wrappers may be wrapped again, so a verifier   *)
(* is a scripted one under a stack of behaviours, innermost first; its     *)
(* name lists the inner verifier's and every behaviour but "normal".       *)
(***************************************************************************)
Raising == {"raise", "timeout", "unavailable"}
Behavior == {"normal", "malformed", "truncated"} \cup Raising

CodeOf(behavior) ==
  CASE behavior = "raise" -> "verifier_error"
    [] behavior = "timeout" -> "verifier_timeout"
    [] behavior = "unavailable" -> "no_verifier_available"

NameOf(script, stack) ==
  <<script.mechanism>> \o SelectSeq(stack, LAMBDA b : b # "normal")

\* Only the outermost wrapper is asked: it does not ask the one inside it.
healthy(stack) == stack = <<>> \/ Last(stack) \notin Raising

Malformed(name) ==
  [mechanism |-> name, truncated |-> FALSE, answers_question |-> "true",
   claims |-> <<[verdict |-> "other", text |-> "words", evidence_ref |-> None,
                 limits |-> FALSE]>>]

\* Slip: the inner verifier's exception is taken for a cut-off response.
InjectSwallowing(behavior, name, inner) ==
  CASE behavior = "normal" -> inner
    [] behavior = "malformed" -> Returned(Malformed(name))
    [] behavior = "truncated" ->
         Returned([Malformed(name) EXCEPT !.truncated = TRUE])
    [] OTHER -> Raise(CodeOf(behavior))

Inject(behavior, name, inner) ==
  CASE behavior = "normal" -> inner
    [] behavior = "malformed" -> Returned(Malformed(name))
    [] behavior = "truncated" ->
         IF inner.raised # None THEN inner
         ELSE Returned([inner.response EXCEPT !.truncated = TRUE, !.mechanism = name])
    [] OTHER -> Raise(CodeOf(behavior))

\* verify() of a scripted verifier under a stack of wrappers.
InjectedVerify(script, stack) ==
  LET layer[n \in 0 .. Len(stack)] ==
        IF n = 0 THEN Returned([script EXCEPT !.mechanism = <<@>>])
        ELSE Inject(stack[n], NameOf(script, SubSeq(stack, 1, n)), layer[n - 1])
  IN  layer[Len(stack)]

\* What a governed request, or a case of the offline evaluation, makes of an
\* outcome: a failure is refused under the name of the verifier that was called.
Judge(outcome, name) ==
  IF outcome.raised # None THEN Refuse(outcome.raised, name, <<>>, not_measured)
  ELSE decide(outcome.response)

===============================================================================
