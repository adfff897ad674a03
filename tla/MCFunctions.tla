------------------------------ MODULE MCFunctions ------------------------------
(***************************************************************************)
(* The pure functions.  A governed request is decided by the authorizer,   *)
(* explored over every policy written grant by grant; the evidence gate,   *)
(* over every set retrieval can build item by item; decide(), over every   *)
(* response a verifier can build claim by claim; and the shipped           *)
(* verifiers, over every answer, passage and stack of wrappers.  What was  *)
(* decided is measured by the metrics, event by event, and by the          *)
(* evaluation, case by case.  None reads another's input, so each is       *)
(* explored in behaviours of its own.                                      *)
(***************************************************************************)
EXTENDS Authorization, EvidenceGate, Verifiers, Metrics, Evaluation

CONSTANTS MaxClaims,    \* bound: claims in one response
          Samples,      \* the raw claims explored
          MaxWrappers,  \* bound: fault-injecting wrappers around a verifier
          MaxItems,     \* bound: items in one set
          Ids,          \* identifiers retrieval uses
          Scores,       \* relevance scores, in hundredths
          MaxGrants,    \* bound: grants of a policy
          MaxSentences, \* bound: sentences of an answer
          MaxPassages   \* bound: passages the keyword verifier is given

ASSUME InputsAssumption ==
  /\ Samples \subseteq RawClaim
  /\ Ids \subseteq Nat
  /\ Scores \subseteq 0 .. 100

VARIABLES subject,   \* the function explored
          response,  \* the verifier's response so far
          stack,     \* the wrappers around the verifier, innermost first
          items,     \* the evidence set so far
          policy,    \* the authorization policy so far
          answer,    \* the generated answer so far, sentence by sentence
          passages,  \* the texts retrieved so far
          question   \* the words of the question

inputs == <<subject, response, stack, items, policy, answer, passages, question>>
measured == <<events, results>>
vars == <<inputs, measured>>

\* One raw claim per way a claim can be good, limited, rejected or defective.
Raw(verdict, text, ref, limits) ==
  [verdict |-> verdict, text |-> text, evidence_ref |-> ref, limits |-> limits]

WellFormedSamples ==
  {Raw("SUPPORTED", "words", "ref", FALSE),
   Raw("SUPPORTED", "words", None, TRUE),
   Raw("UNSUPPORTED", "words", None, FALSE),
   Raw("CONTRADICTED", "words", None, TRUE)}

DefectiveSamples ==
  {Raw("absent", "words", None, FALSE), Raw("other", "words", None, FALSE),
   Raw("SUPPORTED", "absent", None, FALSE), Raw("SUPPORTED", "words", "junk", TRUE),
   Raw("UNSUPPORTED", "words", "ref", FALSE), Raw("absent", "absent", "junk", TRUE)}

NoTextSample == Raw("SUPPORTED", "null", None, FALSE)

AllSamples == WellFormedSamples \cup DefectiveSamples \cup {NoTextSample}

NoResponse == [mechanism |-> "scripted", claims |-> <<>>,
               answers_question |-> "true", truncated |-> FALSE]

Init ==
  /\ subject \in {"decide", "gate", "authorizer", "keyword", "metrics", "evaluation"}
  /\ response \in (IF subject = "decide"
                     THEN [mechanism : {"scripted"}, claims : {<<>>},
                           answers_question : {None, "true", "false"},
                           truncated : {FALSE}]
                     ELSE {NoResponse})
  /\ question \in (IF subject = "keyword" THEN SUBSET Word ELSE {{}})
  /\ stack = <<>> /\ items = <<>> /\ policy = <<>>
  /\ answer = <<>> /\ passages = <<>>
  /\ events = <<>> /\ results = <<>>

\* Retrieval returns one more item, in no particular order.
Retrieve ==
  /\ subject = "gate"
  /\ Len(items) < MaxItems
  /\ \E item \in [id : Ids, score : Scores, provenance : Source] :
       items' = Append(items, item)
  /\ UNCHANGED <<subject, response, stack, policy, answer, passages, question, measured>>

\* The verifier decomposes the answer into one more claim.
EmitClaim ==
  /\ subject = "decide"
  /\ ~response.truncated /\ stack = <<>>
  /\ Len(response.claims) < MaxClaims
  /\ \E raw \in Samples : response' = [response EXCEPT !.claims = Append(@, raw)]
  /\ UNCHANGED <<subject, stack, items, policy, answer, passages, question, measured>>

\* The output is cut off at a size cap after the claims emitted so far.
CutOff ==
  /\ subject = "decide"
  /\ ~response.truncated /\ stack = <<>>
  /\ response' = [response EXCEPT !.truncated = TRUE]
  /\ UNCHANGED <<subject, stack, items, policy, answer, passages, question, measured>>

\* Someone wraps the verifier to inject a fault, or wraps it for nothing.
Wrap ==
  /\ subject = "decide"
  /\ Len(response.claims) <= 1 /\ Len(stack) < MaxWrappers
  /\ \E behavior \in Behavior : stack' = Append(stack, behavior)
  /\ UNCHANGED <<subject, response, items, policy, answer, passages, question, measured>>

\* A revision of the policy writes one more grant, of up to two patterns, before,
\* between or after those that are there.
AddGrant ==
  /\ subject = "authorizer"
  /\ Len(policy) < MaxGrants
  /\ \E k \in 1 .. Len(policy) + 1, role \in Role, p \in ResourceName, q \in ResourceName :
       policy' = InsertAt(policy, k, [role |-> role, resources |-> {p, q}])
  /\ UNCHANGED <<subject, response, stack, items, answer, passages, question, measured>>

\* The generator writes one more sentence.
Write ==
  /\ subject = "keyword"
  /\ passages = <<>> /\ Len(answer) < MaxSentences
  /\ \E sentence \in [words : SUBSET Word \ {{}}, limits : {FALSE}] :
       answer' = Append(answer, sentence)
  /\ UNCHANGED <<subject, response, stack, items, policy, passages, question, measured>>

\* Retrieval returns one more passage.
RetrievePassage ==
  /\ subject = "keyword"
  /\ Len(passages) < MaxPassages
  /\ \E passage \in Passage : passages' = Append(passages, passage)
  /\ UNCHANGED <<subject, response, stack, items, policy, answer, question, measured>>

\* A governed request is observed.
Observe ==
  /\ subject = "metrics"
  /\ \E e \in Traffic : Capture(e)
  /\ UNCHANGED <<inputs, results>>

\* The harness runs equal cases.
RunCases ==
  /\ subject = "evaluation"
  /\ \E c \in Category, e \in Verdict, a \in Verdict, n \in BatchSize :
       Evaluate(c, e, a, n)
  /\ UNCHANGED <<inputs, events>>

Next ==
  \/ Retrieve \/ EmitClaim \/ CutOff \/ Wrap
  \/ AddGrant \/ Write \/ RetrievePassage
  \/ Observe \/ RunCases

Spec == Init /\ [][Next]_vars

-------------------------------------------------------------------------------
(***************************************************************************)
(* The contract's own reading of a response: the set of rules that object, *)
(* ranked by the order the contract lists.                                 *)
(***************************************************************************)
Objections(r) ==
  LET good == {i \in DOMAIN r.claims : r.claims[i].verdict = "SUPPORTED"}
      first == CHOOSE i \in Defective(r.claims) :
                 Defective(r.claims) \cap 1 .. i = {i}
  IN  {o \in {<<1, "verifier_output_truncated">>} : r.truncated}
        \cup {<<2, ClaimDefect(r.claims[i])>> :
                i \in {j \in Defective(r.claims) : j = first}}
        \cup {o \in {<<3, "empty_claim_set">>} : r.claims = <<>>}
        \cup {o \in {<<4, "no_supported_claims">>} : good = {}}
        \cup {o \in {<<5, "unsupported_claim">>} : good # DOMAIN r.claims}
        \cup {o \in {<<6, "malformed_verifier_output">>} : r.answers_question = None}
        \cup {o \in {<<7, "does_not_address_question">>} : r.answers_question = "false"}

\* decide() refuses exactly when some rule of the contract objects, with the
\* code of the objection the contract ranks first, and grounds otherwise
\* (decide(): "zero daylight between what the contract says and what the
\* function does").
DecidesAsTheContractRanks ==
  LET d == decide(response)
  IN  IF Objections(response) = {}
        THEN d.outcome = "GROUNDED" /\ d.reason_code = None
        ELSE /\ d.outcome = "REFUSED"
             /\ \E o \in Objections(response) :
                  /\ d.reason_code = o[2]
                  /\ \A other \in Objections(response) : o[1] <= other[1]

\* A refused response that already holds a claim is not rescued by the claims
\* that follow it: decide() judges the whole collection, so examining more of
\* an answer can only take a grounding away.
MoreClaimsNeverGround ==
  [][(/\ response.claims # <<>>
      /\ decide(response).outcome = "REFUSED") => decide(response)'.outcome = "REFUSED"]_vars

Reordered(r) ==
  {[r EXCEPT !.claims = [i \in DOMAIN r.claims |-> r.claims[p[i]]]] :
     p \in {f \in [DOMAIN r.claims -> DOMAIN r.claims] :
              \A i, j \in DOMAIN r.claims : f[i] = f[j] => i = j}}

\* The outcome, the strategy and the counts do not depend on the order in
\* which the verifier listed its claims; only the reason code of a parse
\* failure may, because parse_claims() stops at the first defect.
ClaimOrderIsIrrelevant ==
  \A r \in Reordered(response) :
    LET a == decide(response)
        b == decide(r)
    IN  /\ a.outcome = b.outcome
        /\ a.strategy = b.strategy
        /\ a.claim_counts = b.claim_counts

\* Faults present in the stack, and the outermost of some of them.
Faulty == {n \in DOMAIN stack : stack[n] # "normal"}
Outermost(faults) == stack[CHOOSE n \in faults : \A m \in faults : m <= n]

\* However wrappers are stacked, an injected fault never grounds, and the request
\* is refused with the code of the outermost fault, except that a cut-off never
\* hides an exception raised inside it.  Without a fault a wrapper changes
\* nothing, and a verifier that says it is unhealthy would indeed have raised, so
\* that the breaker gives no answer away by believing it.
InjectedFaultsRefuse ==
  LET outcome == InjectedVerify(response, stack)
      judged == Judge(outcome, NameOf(response, stack))
      louder == {n \in Faulty : stack[n] # "truncated"}
  IN  /\ IF Faulty = {}
           THEN judged = [decide(response) EXCEPT !.mechanism = <<@>>]
           ELSE /\ judged.outcome = "REFUSED"
                /\ judged.reason_code =
                     CASE louder # {} /\ Outermost(louder) \in Raising
                            -> CodeOf(Outermost(louder))
                       [] Outermost(Faulty) = "malformed" -> "unknown_claim_verdict"
                       [] Outermost(Faulty) = "truncated"
                            /\ (louder = {} \/ Outermost(louder) \notin Raising)
                            -> "verifier_output_truncated"
      /\ ~healthy(stack) => outcome.raised # None

-------------------------------------------------------------------------------
DistinctIds(set) ==
  \A i, j \in DOMAIN set : set[i].id = set[j].id => i = j

Reorderings(set) ==
  {[i \in DOMAIN set |-> set[p[i]]] :
     p \in {f \in [DOMAIN set -> DOMAIN set] :
              \A i, j \in DOMAIN set : f[i] = f[j] => i = j}}

\* The window the gate judges does not depend on the order in which retrieval
\* returned the items (truncated_to(), docstring): ties in relevance are broken
\* by identifier, so a baseline can be reproduced.
WindowIsOrderFree ==
  DistinctIds(items) =>
    \A other \in Reorderings(items) :
      {other[i] : i \in Window(other)} = {items[i] : i \in Window(items)}

\* Ranking and truncation never cost a request its best item: the gate opens
\* exactly when enough items fit the window and some item retrieved, wherever
\* it was listed and whatever it ties with, reaches the bar; and it says that
\* retrieval found nothing only if it did (evaluate_gate(), docstring).
GateOpensOnBestScore ==
  /\ evaluate_gate(items) = "empty" <=> items = <<>>
  /\ evaluate_gate(items) = "sufficient" <=>
       /\ Len(items) >= MinChunks /\ TopK >= MinChunks
       /\ \E i \in DOMAIN items : items[i].score >= MinScore

-------------------------------------------------------------------------------
\* A grant written anywhere into a policy moves nobody's access but that of its own
\* role, and theirs only if it comes before the role's first grant: then it is all
\* they have, whatever they had before, and never adds to it.  Anywhere else it
\* says something and changes nothing (grant_for(), the first grant governs).
InsertionMovesItsRoleOnly ==
  [][\A k \in DOMAIN policy' :
       AddGrant /\ policy' = InsertAt(policy, k, policy'[k]) =>
         \A actor \in Actor, resource \in ResourceName :
           authorize(policy', actor, resource) <=>
             IF /\ policy'[k].role = actor.role
                /\ \A j \in 1 .. k - 1 : policy[j].role # actor.role
             THEN actor.actor_type = "principal" /\ permits(policy'[k], resource)
             ELSE authorize(policy, actor, resource)]_vars

-------------------------------------------------------------------------------
\* An answer judged by the keyword verifier is grounded exactly if it says
\* something, each sentence has a significant word and one retrieved passage
\* in which all of those occur, and one sentence takes up a significant word of
\* the question.  Evidence is never pieced together from several passages, what
\* is not significant ("not", a two-digit number) never counts, and whatever is
\* not grounded is refused as a judgement, never as malformed output.
Carried(sentence) ==
  LET content == sentence.words \cap Significant
  IN  /\ content # {}
      /\ \E i \in DOMAIN passages :
           \A w \in content : passages[i] \cap {v \in Word : <<w, v>> \in PartOf} # {}

KeywordGroundsOnEvidence ==
  LET d == decide(KeywordVerify("keyword", answer, passages, question))
  IN  IF /\ answer # <<>>
         /\ \A i \in DOMAIN answer : Carried(answer[i])
         /\ \E i \in DOMAIN answer : answer[i].words \cap question \cap Significant # {}
        THEN d.outcome = "GROUNDED"
        ELSE d.outcome = "REFUSED" /\ d.reason_code \in JudgementCode

-------------------------------------------------------------------------------
(***************************************************************************)
(* The instance.                                                           *)
(***************************************************************************)
\* A word inside another, and one that _significant() drops.
MCWord == {"rate", "separate", "not"}
MCSignificant == {"rate", "separate"}
MCPartOf == {<<w, w>> : w \in MCWord} \cup {<<"rate", "separate">>}

Event(reason, environment, population, ms) ==
  [reason_code |-> reason, environment |-> environment, population |-> population,
   latency_ms |-> ms]

\* Observed events that differ in outcome and latency, one of them from a
\* deployment of no known name, and one for each way not to be observed.
MixedTraffic ==
  {Event(None, "production", "observed", 10),
   Event("verifier_timeout", "unknown", "observed", 30),
   Event("unsupported_claim", "production", "observed", 20),
   Event(None, "test", "observed", 90),
   Event("verifier_error", "production", "unknown", 90),
   Event("unsupported_claim", "test", "synthetic", 5)}

\* The shipped contract requires a perfect pass rate, and nothing bounds the rate
\* another one may require.
Rates == {0, 7500, Whole}

===============================================================================
