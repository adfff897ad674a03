# Executable Trust: specifications, model checks and proofs

This directory holds TLA+ specifications of the `executable_trust` package
(`src/src/executable_trust` in the paths of `PROJECT.json`), the TLC
configurations that check them on small instances, and proofs that TLAPS checks
for every value of the constants. `PROJECT.json` maps every definition to the
lines it translates; this file says what the system is, what is modelled and
what the checks and proofs show.

Run a check with `tlc -config MCTrustService.cfg MCTrustService.tla`, a proof
with `tlapm LifecycleProofs.tla`.

## 1. The system

The package governs requests that are answered by a text generator. A request is
answered only if a ratified contract governs it, its actor is authorized, the
evidence retrieved is governed and sufficient, and a verifier has classified
every claim of the generated text as supported. Whatever happens is recorded as
an immutable decision, observed by telemetry, and later reviewed by a human.

| Component | State | Operations | Talks to |
| --- | --- | --- | --- |
| `TrustService` (`decisions/service.py`) | none of its own; the locals of one `handle()` | `handle`, `_finalize` | all of the below, in order |
| Contract registry and loader (`contracts/`) | contracts by (id, version), reason codes, amendments | `register`, `register_reason_codes`, `register_amendment`, `resolve` | asked by the service; filled from files |
| Authorization (`authorization/`) | a frozen policy | `authorize` | called before anything is read |
| Evidence gate (`evidence/`) | none | `check_provenance`, `truncated_to`, `evaluate_gate` | called before generation; its window is what the generator and verifier see |
| Verification (`verification/decision_function.py`, `models.py`) | none | `decide`, `parse_claims` | applied to the verifier's response |
| Resilient verifier (`verification/resilience.py`) | a health window per mechanism name, the health events | `verify`, `HealthWindow.reset` | stands in for a verifier; calls the mechanisms |
| Decision store and records (`decisions/`) | records by identifier, insertion order | `append`, `get`, `superseded_by`, `successors_of` | written by `_finalize`, before telemetry, and by whoever corrects a decision |
| Telemetry (`telemetry/`) | events; the count of capture failures | `record`, `append` | written by `_finalize`, read by the metrics |
| Metrics (`telemetry/metrics.py`) | none | `compute_behavior_metrics` | reads the events |
| Lifecycle (`lifecycle/`) | the transition log | `transition`, `accept`, `reject`, `supersede`, `append` | names decisions by identifier |
| Identifiers (`domain/identifiers.py`) | a counter per prefix | `new_id`, `reset` | used by service, recorder and lifecycle |
| Evaluation (`evaluation/`) | the results of one run | `evaluate`, `summarize` | assembles the whole path once per case |
| Shipped verifiers (`verification/deterministic.py`) | what they were scripted or told to inject | `verify`, `healthy` | wrapped around each other, behind the service or the breaker |
| Amendments, consistency checks, traceability (`amendments/`, `contracts/validation.py`, `traceability/`) | none; the contract directory is theirs to read | loading, comparing | called on a registry or a directory by commands and scripts; nothing waits for them |
| Reporting, command line, scripts | none | printing | read the results |

### What is hard here

The package is synchronous and keeps everything in memory;
`docs/limitations.md` (section 2) puts concurrency, durability and crash recovery
out of scope, so there are no interleavings of threads, and of what is modelled
only the contract directory survives a process. What is hard is the order of things within and between calls:

* foreign code (authorizer, generator, verifier, telemetry store) may raise in
  the middle of `handle()`, and the caller retries;
* the decision is stored before telemetry is attempted and before the caller is
  told;
* `SequentialIdFactory.reset()` makes identifiers reappear while the stores keep
  their contents;
* several reasons to refuse hold at once, and responses may be cut off;
* the lifecycle log is guarded by three boundaries that have to agree, and is
  reachable without the state machine;
* a correction is two writes on two stores, the decision store and the lifecycle
  log, that know nothing of each other, and what it cites need not be stored;
* the breaker's windows fill in two different ways, what is skipped is no longer
  observed, and one fault is recorded by two components;
* contract files are edited while processes live that were started from them,
  checks are made of them at one moment or never, and decisions outlive the
  processes that made them;
* figures are rounded before they are compared.

Section 5 states, and `PROJECT.json` under `hazards` lists line by line, which
property covers which.

## 2. Modules

| Module | Models | How |
| --- | --- | --- |
| `DecisionFunction` | `decide()`, `parse_claims()`, the constructors and enums | pure operators; the guards keep the order of the code |
| `EvidenceGate` | provenance check, window, gate | pure operators |
| `Verifiers` | `KeywordVerifier`, `ScriptedVerifier`, stacks of `FaultInjectingVerifier` | pure operators over sets of words and sequences of wrappers |
| `TrustService` | `handle()` and `_finalize()`, decision store, recorder, identifier factory | one action per way a stage can end; `pc` is the stage, `frame` the arguments of `handle()`, `draft` those of `_finalize()` |
| `GovernedDecision` | the promise of the request path | abstract specification; `TrustService` is shown to implement it |
| `ResilientVerifier` | circuit breaker | one action per thing that can happen to the candidate considered |
| `GovernedVerification` | `TrustService` with the breaker as its verifier | extends the one, instantiates the other; a joint action per way `verify()` can end |
| `LifecycleRules` | the lifecycle a contract declares, and its coherence check | data and one operator, shared by the next three |
| `Lifecycle` | state machine and log | one action per method; `last` is how the latest call ended |
| `Corrections` | decision store, `superseded_by()`, and the lifecycle beside it | extends `Lifecycle`; the two halves of a correction are separate actions |
| `Coherence` | an author declaring a lifecycle | transitions one by one, the check after each |
| `Registry` | contract registry | one action per operation |
| `Artifacts` | the contract directory, its checks, process starts | extends `Registry`; authors edit a file, a process starts, or the living one checks, reads the codes again or works |
| `Authorization` | policy and authorizer | pure operators over a policy |
| `Metrics`, `Evaluation` | behaviour metrics; offline gate | figures as operators over the events and results so far |
| `Rounding` | `round()` of Python | exact half-even rounding of a rational |
| `DecisionProofs` | | theorems about `DecisionFunction` and `EvidenceGate` |
| `FunctionsProofs` | | theorems about `Verifiers`, `Authorization`, `Metrics`, `Evaluation` and `Rounding`, over the inputs of `MCFunctions` |
| `ArtifactsProofs` | | theorems about `Registry` and `Artifacts` |
| other `*Proofs` | | theorems about the module they are named after |
| `MC*` | | instances for TLC; `MCFunctions` drives all pure functions |

The compositions are `GovernedVerification` (request path and breaker),
`Corrections` (decision store and lifecycle), `Artifacts` (directory and
registry), and `TrustService` itself, which extends `DecisionFunction` and
`EvidenceGate`, so that the request path is checked with the real gate and the
real decision function in it.

Definitions named after a code definition keep its name. A definition preceded by
a comment that begins with "Slip:" is a plausible bug in the definition it
precedes; no specification uses it. Each property is known to fail when its slip
takes the place of the definition (`mutants` in `PROJECT.json`).

### Abstractions, by module

* **`TrustService`.** Calls do not overlap. A request is an identifier with what
  decides its fate: the standing of its contract, the authorizer's answer and the
  evidence. The authorizer's verdict is an input here and is computed in
  `Authorization`. Each boundary at which foreign code runs has an action for
  each result, and one for each exception that leaves `handle()`: of the
  authorizer, the generator and the verifier (anything but `VerifierFailure`), and
  of the store. `seen` is a history variable: which attempt used the generator
  and the verifier, and for what. Times, latencies, texts and wording are left
  out. A factory of random identifiers is the case in which `ResetIds` is never
  taken. `run_case()` of the evaluation calls `handle()` on fresh stores and is
  covered here.
* **`DecisionFunction`.** A text is `words`, `absent`, or `null` (Python's `None`),
  which is what the parser tells apart; an evidence reference is `None`, a
  reference, or junk. `str()` is modelled by what it does, so that a text of
  `None` becomes a text.
* **`EvidenceGate`.** Scores are hundredths. Ties are broken by identifier as in
  the code, and identifiers need not be distinct.
* **`Verifiers`.** A text is the set of its words; which words are significant and
  which occur inside which are parameters. Splitting a text into sentences and
  words is left out, and with it words that consist of punctuation only.
* **`ResilientVerifier`.** What a mechanism returns, raises or reports about its
  health is chosen freely. The fault rate is compared as an exact fraction; the
  code divides floats, which agrees unless a threshold is not representable and
  the rate equals it exactly.
* **`GovernedVerification`.** `handle()` waits while the breaker walks its
  candidates. A mechanism signs its responses with its own name; what it raises,
  the service records under the breaker's. `outages` is a history variable that
  counts the calls no candidate served. A malformed or truncated response is a
  fault in telemetry and a success in the breaker's window, as in the code.
* **`Lifecycle`.** Reason codes, notes, times and the `requires_actor` flag, which
  `transition()` never reads, are left out. Whether the contract's transitions
  and terminal states are coherent is not assumed; the constants may be any
  contract. `OpenSpec` is what callers can do who hold the log: they construct a
  `LifecycleTransition`, which its validators must accept, and append it.
* **`Corrections`.** A record keeps the fields a correction carries over or
  changes. `callers` says what the callers of a behaviour heed, because nothing in
  the code ties the two stores together. *Careful* callers supersede a decision
  only by one that `successors_of()` returns for it, and correct any record that
  could be built: `superseded_by()` is a method of every `DecisionRecord`, and
  `append()` never asks whether the decision cited is stored. *Orderly* callers
  also read from the store what they correct. *Any* callers ask the machine for
  anything and have no store, as `examples/run_reference_flow.py` does.
* **`Registry`.** A contract is a document and what was parsed from it. In `Spec`
  contracts come from files, so the two agree when they are registered, as
  `build_default_registry()` has it; in `OpenSpec` callers register any contract,
  copies with the document of another included (only the proofs use it).
* **`Artifacts`.** The directory maps a version to the document filed under it, one
  file per version: two files that claim one version with different content make
  `register()` refuse, and no process starts from them. A process starts from any
  directory whose amendments fit, which is all that `build_default_registry()`
  asks. `Validate` (`validate_registry()` and the preservation check), `Trace`
  (`require_traceability()`) and `ReadCodes` (`register_reason_codes()`, with what
  the file says by then) are calls the living process may make at any time; a check
  that finds something changes nothing and has no step. The histories `validated`
  and `traced` say which checks found nothing since the codes were read. The
  validators of one amendment (its ratifier is not its author, the version moves
  forward, it declares that it preserves the prior one) are one flag, `proper`.
  There is one reason-code file; its entries always have an origin. What decisions
  were governed by (`governed`) outlives processes, as the records would that name
  it.
* **`Coherence`.** An author's transition either asks for everything or for
  nothing; the schema fixes the states and the initial one.
* **`Metrics`, `Evaluation`.** Rates are ten-thousandths, rounded half to even as
  `round(x, 4)` does, on exact fractions. An event carries the labels of its
  deployment, which `Capture` classifies. Equal cases are evaluated in batches.

## 3. Runs

| Run | States | Asks |
| --- | --- | --- |
| `MCFunctions` | 413,734 | every pure function over its own small inputs |
| `MCTrustService` | 163,628 | the request path: gates, records, telemetry, retries, identifier reset; refinement of `GovernedDecision` |
| `MCTrustService_exception` | violated | is every exception of a mechanism refused? |
| `MCGovernedVerification` | 873,008 | the request path over the breaker: faults and refusals balance, an outage refuses, callers are unaware |
| `MCResilientVerifier` | 261,515 | the breaker under any mix of outcomes |
| `MCResilientVerifier_recorded` | violated | is a trip of the primary always announced? |
| `MCCorrections` | 98,245 | the machine under the shipped contract, alone and with the decision store beside it |
| `MCCorrections_successor` | violated | is a successor a newer accepted decision? |
| `MCLifecycle_undeclared` | violated | is an undeclared transition refused by the log? |
| `MCArtifacts` | 676,696 | edits, restarts, checks, registrations and resolutions in any order |
| `MCArtifacts_rewritten` | violated | does an amendment leave the prior version as it was? |
| `MCCoherence` | violated | does a coherent lifecycle reach all of its states? |

`MCFunctions` is one run over separate behaviours: `subject` says which function a
behaviour explores, and the inputs of the others stay empty, so the states are the
sum and not the product of those of its subjects.

### Bounds, and why they are enough

* `MCTrustService`: two requests, each submitted at most twice (`MaxAttempts`), one
  `reset()` (`MaxResets`). Two requests are needed for one's record to collide with
  the other's identifier after a reset; a second attempt is what a retry is. The
  seven asks are one per way the gates can decide, one of them with a set larger
  than the window (`TopK` = 2); the responses are one that grounds, one refused on
  its claims and one refused before them (all others are covered by
  `MCFunctions`); the failure codes are one of the vocabulary and one outside.
* `MCGovernedVerification`: two mechanisms, a window of two, a threshold of one in
  two after one observation, so that a first fault trips a fresh window, and
  so do two in a row, while one next to an answer does not; four health events
  (`MaxHealthEvents`) trip both, and one reset per window brings one back. Two
  requests with one retry let an outage follow a fault, and one identifier reset
  (`MaxResets`) lets the store reject a refusal the breaker has already counted.
  Asks that never reach the verifier do not concern the breaker and are left to
  `MCTrustService`; the proofs include them.
* `MCResilientVerifier`: windows of four, three observations before a trip, a
  threshold of one in four; mechanisms fault while fewer than four events are
  recorded (`MaxEvents`), which trips both, and one reset per window.
* `MCCorrections`: three decisions and four transition identifiers (`MaxTxn`): one
  decision accepted and superseded, its successor too, which is the shortest chain
  that could turn back, and refused calls at every point of it. Three decisions
  also let two corrections of one decision compete.
  `MCLifecycle_undeclared`: two decisions, every position, source and target.
* `MCArtifacts`: two versions, an amendment between them, two rules, two reason
  codes, three edits (`MaxEdits`): enough to add a version, amend it and rewrite
  it, or to change a contract, its tests and its codes together so that the checks
  pass again. Starts, checks and work are unbounded.
* `MCCoherence`: three transitions, the fewest that enter all states.
* `MCFunctions`: three claims tell first, middle and last apart; three wrappers let
  a fault lie above, below and between others; four items over a window of two
  allow ties within, across and outside the window; names of up to two symbols
  and three grants of up to two patterns, so that a grant can be written before,
  between and after others of its role; two sentences over two passages, and a word
  that occurs inside another; five events around a minimum sample of three; batches
  of 1 and 9,999 cases, on both sides of where four decimals stop telling one
  failure apart, against contracts that require a pass rate of 0, 0.75 and 1.

Deadlock checking is off where a system may stop because nobody asks for anything
more (all bounds are of that kind), and on for `MCResilientVerifier`, where a call
can always be made.

Symmetry is used for decisions in `MCCorrections` and the lifecycle runs: the code
compares identifiers and does not order them, and these runs check no liveness.
`MCCorrections` has a view that forgets how the latest call ended where a store is
beside the machine: the properties about `last` are checked in the behaviours of
other callers, where the view keeps it. Of the records of careful callers it keeps
which decision cites which, all that their next calls and their properties depend
on.

### Fairness

`TrustService` assumes `WF_vars(HandleStep)`. `handle()` is straight-line
code and its caller waits for it, so a call goes on as long as the foreign code it
calls returns or raises, each of which is a step. Callers are not obliged to
submit, and nobody to reset. `KeepsThePromise` uses it: under it every call of the
abstract specification is answered or raises.

`GovernedVerification` assumes `WF(Handle \/ Walk)`, the same of `handle()` with
the loop over the candidates inside it; nobody is obliged to reset a window.
`CallersAreUnaware` shows that this implies the fairness of `TrustService`, so that
the breaker holds no call up, and `OutageRefuses` that a request which finds all
mechanisms tripped is refused.

## 4. Proofs

All theorems hold for every value of the constants that satisfies the module's
assumption. They are proved from an inductive invariant, one lemma per action.

* **`LifecycleProofs`.** The invariant is `TypeOK /\ SequencesContiguous`. The type
  invariant alone is not inductive enough: that the next position is the number of
  transitions plus one needs the positions of a decision to be 1 to n without
  gaps. From it follow that the machine's appends are never refused by the log,
  that the latest transition is the one with position n, and hence
  `HistoryIsAPath`, `TerminalIsPermanent`, `TransitionsDeclared`,
  `BoundariesAgree` and `HistoryIsStable`. `LogIsContiguous` and `Attribution` are
  proved of `OpenSpec`, so they hold whoever writes to the log. The theorems do not
  assume a coherent contract; `TerminalPermanent` holds whatever the contract
  declares.
* **`CorrectionsProofs`.** A step of `Corrections` is a step of `Lifecycle` or leaves
  it alone (`CorrectionsRefineLifecycle`), so the theorems above carry over
  (`HistoriesSurviveCorrections`). `CitationsEnd` is inductive with the validity of
  every record; `ChainsEnd` adds that every supersession names a pair of records,
  the second citing the first, and that records never move. Both have the
  discipline of orderly callers as a premise, which the code does not enforce
  (section 5 says what careful callers may do). `OneReplacement` has no
  such premise: a terminal state is entered once, and what `successors_of()`
  returned once it returns forever.
* **`ArtifactsProofs`.** First the registry: the invariant adds to the types that
  every registered contract is what the loader makes of its own document
  (`AllLoaded`). `register()` compares documents and then stores the contract, so
  without it the comparison would not imply that nothing changes. The part that
  does not depend on where the history began is `Core`, which the directory uses.
  There `Sourced` relates a living process to a directory that has moved on:
  unless a version's file was changed or removed, it still holds what the process
  read and what decisions were governed by. `Readable` says the same of the
  registry. Together they are what a restart preserves (`SurvivesRestarts`);
  `DocumentsStay` is what remains of the registry's
  promise without `AllLoaded`, for any contract a caller registers.
  `FixedWhileAlive` and `CodesStayExplained` rest on the registry never losing a
  version within one process; the latter starts at the check that was made and ends
  where the codes are read again.
* **`ResilientVerifierProofs`.** `StickyTrip` needs no more than the type
  invariant: nothing is recorded for a tripped candidate, and two candidates of one
  name share a window, in the model as in the code. `ServedFirst` carries, next to
  the types, that all candidates before the cursor were passed over.
  `EventsAccount` strengthens the property by what makes the next announcement
  affordable: as long as the primary is not tripped, it was announced at most as
  often as its window was reset. A window that forgets never gains faults by it, so
  faults stay covered by events for any capacity. `FaultyGivenUp` is inductive with the types; its
  arithmetic is where the premise on the threshold comes from (section 5).
* **`DecisionProofs`.** `decide()` finds the first defect in order of rank and
  counts claims by kind: `DecideIsExact` says which defect decides, and that the
  order of the claims does not matter. `GateIsExact` says when the evidence gate
  opens. The first defect of a response is found by well-founded choice and counts
  are carried along bijections of claims, so no induction is needed.
* **`FunctionsProofs`.** The inputs grow freely, so the invariant is only what they
  are (`InputsTyped`); the properties follow from it as theorems about the
  functions. Wrappers are layers of a recursive function, unfolded one layer at a
  time (`InjectedRefuses`). A grant inserted into a policy moves those behind it by
  one place, and the first grant of a role is found by well-founded choice
  (`InsertionMoves`). The value at a rank of a sorted window is bounded by how many
  values lie on either side of it (`MedianIsExact`, `WindowReproducible`). Half-even rounding is shown to be the nearest whole and
  monotone, which is what the gate of the evaluation rests on (`PerfectRateIsExact`,
  `GateMovesRight`). A running sum over cases is compared with another at the
  least place where a claim about them would fail: the library's induction
  theorems cannot be used, the least counterexample can.
* **`TrustServiceProofs`.** First `decide()`: for any response it returns a
  decision that obeys the outcome relation and grounds only what may ground
  (`DecideIsSound`). Then the actions are sorted by effect (the call
  moves on, is finalized, is left by an exception, is stored, captured, returned),
  and each invariant is argued once per effect. `Typed` adds to `TypeOK` what
  `draft` and `frame` hold at each stage; `Ledger` says which request has a record
  at which stage; `Balanced` counts records against events; `ResultsRepeat`
  relates what was returned to what is stored. `PromiseIsKept` is the refinement of
  `GovernedDecision`: initial states map to initial states and every step to a
  step or a stutter. `GeneratorRunsExactly` says that the generator sees
  everything governable and nothing else; `TopK >= MinChunks` is part of what is
  governable there, since nothing in the code ensures it.
* **`GovernedVerificationProofs`.** The composition implements `TrustService`
  (`PathIsUnaware`: a walk over the candidates is a sequence of stutters that ends
  in one of the ways a verifier's call may end) and the breaker
  (`BreakerIsUnaware`), so the theorems of both hold of it (`GovernedPathIsSafe`,
  `BreakerIsSafe`). For the latter the breaker's theorems come from an instance of
  `ResilientVerifierProofs`, whose steps are shown to be those of the composition's
  instance of the breaker. That no walk outlives its call
  (`CallsDoNotLeak`) is an invariant of its own. `FaultsBecomeRefusals` carries the
  balance of the two ledgers through the middle of a call: a refusal counts from
  the moment it is drafted, and the breaker's name is never a mechanism's
  (`CompositionAssumption`), so that what the breaker refuses can be told from
  what a mechanism does.

The names `SafetySpec` and `Spec` in the theorems: `SafetySpec` is `Spec` without
fairness, which no safety theorem uses.

Every safety property that a passing run checks is also a theorem. `TransitionsDeclared`
is proved of the machine (`OnlyDeclared`) and refuted by a run of the log on its own. Only
model-checked are the properties about liveness, which is out of the prover's
reach together with ENABLED: `OutageRefuses`, and the fairness part of
`KeepsThePromise` and `CallersAreUnaware` (their safety parts are `PromiseIsKept`
and `PathIsUnaware`). Out of reach, too, is induction over data; where a proof
would use it, a least counterexample or a bijection stands in.

## 5. What the checks show

* **Request path.** The generator is reached by exactly the requests that should
  reach it. An answered request has one record and a request whose call raised has
  none, whatever is retried. A grounding rests on what the verifier said in that
  same call. The caller is told what the store holds. Records, events and the
  failure counter balance. After an identifier reset the store refuses to
  overwrite; the request then raises after its answer was generated, and the retry
  is given the next identifier.
* **Request path over the breaker.** Nothing changes for callers. Every fault of a
  serving mechanism and every call that none served is one refusal, under the
  breaker's name, until identifiers are handed out again: then the store may
  reject the refusal, and only the health log knows of the fault. With all mechanisms tripped a request is refused, after its
  answer was generated all the same: `handle()` does not ask before it generates.
* **Breaker.** Trips are sticky, and calls are served by the first candidate that
  is neither tripped nor unwell. A mechanism that only faults is given up after the
  minimum number of observations, if a full window of faults still exceeds the
  threshold with one answer in it; with a higher threshold, answers that slide out
  of the window delay it.
* **Lifecycle and corrections.** Through the machine everything the contract
  promises holds. The log alone keeps positions and attribution and nothing else.
  The log names at most one replacement of a decision. With callers who read what
  they correct from the store and ask it before they supersede, the store and the
  log tell one story and chains of corrections end; asking before they supersede is
  not enough: a decision B may be stored that corrects an A which is not, then an A
  that corrects B, and each, once accepted, be superseded by the other. The code ensures neither.
* **Directory.** Registrations keep amendments based. Reason codes are explained in
  a process that was validated, until they are read again: neither its start nor
  the reading checks them. No check notices that a file was rewritten: only a
  version whose file nobody touched is sure to be read the same by the next
  process.
* **Shipped verifiers.** However wrappers are stacked, an injected fault is never
  grounded. The keyword verifier never pieces evidence together from passages.
* **Authorization.** A grant inserted into a policy moves the access of its own role
  only, and only as the first grant of it, which then hides the others.
* **Metrics, evaluation.** The median is the nearest rank but for 5, 9, 13, ...
  latencies, where it is one rank low. For the rest see the comments of the
  properties.

Six statements of the repository do not hold of the code; each has a run
(`findings` in `PROJECT.json`):

1. Not every exception of a verification mechanism is refused (ET-VER-009): only
   `VerifierFailure` is caught.
2. Transitions are not re-checked against the contract at the persistence
   boundary (ET-LC-005, `InvalidTransition`).
3. A primary that trips by reporting itself unhealthy is replaced without an
   `escalated` event (`HealthEvent`).
4. A decision may be superseded by one that was never accepted, or never recorded
   (`supersession.replaced`).
5. The file of an amended version may be rewritten in place: the preservation
   check looks whether it is there (`amendments/service.py`).
6. A lifecycle whose states are entered only from each other passes the
   reachability check (`validate_lifecycle_coherence()`).

Reading the code for the models showed more, which no run is spent on:

* a claim whose text is `None` is parsed as the text `"None"`
  (`verification/models.py:205`); the model does the same;
* a tripped mechanism is never observed again, so its bounded window cannot
  forget, which is what `HealthWindow`'s docstring has it bounded for
  (`verification/resilience.py:35` and `:154`), and health windows with a
  capacity below the minimum number of observations never trip (`:138`);
* an answer may trip a window too, when it brings the observations up to the
  minimum, and then no `escalated` event is recorded (`:166`);
* an evidence window shorter than the minimum number of items (`top_k` below
  `min_chunks`) keeps the gate shut, whatever is retrieved: nothing compares the
  two;
* a contract that requires a pass rate of 0 opens its gate on any first case, also
  a diverging one, while an empty run does not (`evaluation/runner.py`);
* a word of punctuation only is stripped to the empty text, which occurs in every
  passage (`verification/deterministic.py:194`);
* `register()` compares documents only, so a `model_copy()` with another status
  and the same document replaces a version (`contracts/registry.py:62`), although
  "a version's content is fixed once registered" (`:64`); `DocumentsStay` says what
  is left of that;
* `_percentile()` rounds the rank half to even where its docstring says nearest
  rank (`telemetry/metrics.py:182`): the median of five is the second.
  `MedianTakesItsRank` says for which sizes the two differ, and by how much;
* the reason-code file is the last by name, so that v1.10 comes before v1.9;
* the pass rate is rounded before it is compared with 1.0
  (`evaluation/runner.py:248`): from twenty thousand cases on, one divergence may
  pass the gate; `PerfectGateIsExact` says up to where it cannot.

## 6. Not modelled

* JSON schema validation of a file: a verdict of an external library on one
  document.
* The consistency checks of enum alignment, outcome applicability, strategy
  relation and code links: each compares one static document with constants of the
  program, without state.
* How rule identifiers are found in the text of the test suite; how texts are split
  into sentences and words.
* Loading of evaluation suites, provenance metadata of a run, reporting, command
  line and scripts: they read files and print.
* `filtered()` of the telemetry store: a query that nothing in the package calls.
* Clocks: no control depends on time.

## 7. Plan

Done: the request path, the breaker, the lifecycle, the registry, and their
compositions; the shipped verifiers, metrics, evaluation and authorization; the
contract directory. Proofs of every safety property of the passing runs.

Left, in this order:

1. Theorems the runs do not ask for: that the breaker's composition keeps the
   promise of `GovernedDecision` step by step, and that the gate of the evaluation
   opens exactly at the rate required.
2. A run with two candidates of one name, which share a window, and one over a
   contract whose minimum exceeds the window.
3. The hazard listed without a property that a document would have to settle first:
   claims whose text is missing.
