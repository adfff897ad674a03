------------------------------- MODULE Artifacts -------------------------------
(***************************************************************************)
(* The contract directory, and the processes that are started from it.     *)
(*                                                                         *)
(* Authors edit one file at a time.  A process starts by building its      *)
(* registry from the directory (build_default_registry()), which asks of   *)
(* the files no more than each registration does.  From then on it         *)
(* resolves contracts, and registers files written since.  The             *)
(* cross-artifact checks (contracts/validation.py), the preservation check *)
(* (amendments/service.py) and the traceability check                      *)
(* (traceability/validator.py) are calls of their own: a process may make  *)
(* them at any time, or never, and goes on living if they find something.  *)
(***************************************************************************)
EXTENDS Registry, Naturals

CONSTANTS InitialContracts,  \* the directory before the first edit: contract
          InitialAmendments, \*   files, amendment files,
          InitialCodes,      \*   the rule each reason code names,
          InitialTests,      \*   and the rules the test suite names
          MaxEdits           \* bound: edits of the directory

\* A file holds one document, filed under what it says it is.
DirectoryAssumption ==
  /\ DOMAIN InitialContracts = Key /\ DOMAIN InitialAmendments = AmendmentId
  /\ \A key \in Key : InitialContracts[key] # {} =>
       \E doc \in Document : InitialContracts[key] = {doc} /\ doc.key = key
  /\ \A id \in AmendmentId : InitialAmendments[id] # {} =>
       \E a \in Amendment : InitialAmendments[id] = {a} /\ a.id = id

ASSUME ArtifactAssumption ==
  DirectoryAssumption /\ InitialCodes \in [ReasonCode -> Rule] /\ MaxEdits \in Nat

VARIABLES
  contract_files,   \* by key: the document filed, {} where none is
  amendment_files,  \* by identifier: the amendment filed, {} where none is
  code_entries,     \* the reason-codes file: the rule each code names
  tests,            \* the rules the test suite names
  explained,        \* code_entries as the living process read them
  edits,            \* how often the directory was edited
  rewritten,        \* history: versions whose file was changed or removed
  validated,        \* history: whether the process validated what it read
  traced            \* history: the rules tested when it was traced since

files == <<contract_files, amendment_files, code_entries, tests>>
checks == <<validated, traced>>
artifactVars == <<vars, files, explained, edits, rewritten, checks>>

-------------------------------------------------------------------------------
(***************************************************************************)
(* What the directory, and the registry read from it, have to satisfy.     *)
(***************************************************************************)
filed == {key \in Key : contract_files[key] # {}}
Filed(key) == CHOOSE doc \in contract_files[key] : TRUE
FiledAmendments == UNION {amendment_files[id] : id \in AmendmentId}
LiveAmendments == UNION {amendments[id] : id \in AmendmentId}

\* register_amendment(), of every amendment filed, against what was just read.
AmendmentsFit ==
  \A a \in FiledAmendments : a.base \in filed /\ a.affects \subseteq Filed(a.base).rules

\* collect_rule_ids(): over every version, whether it may govern or not.
declared_rules == UNION {Registered(key).rules : key \in registered}

\* Slip: it is enough that each code names some rule (load_reason_codes()).
reason_codes_coveredLoosely == \A code \in reason_codes : explained[code] \in Rule

\* validate_reason_code_coverage().
reason_codes_covered == \A code \in reason_codes : explained[code] \in declared_rules

\* validate_amendments() of the registry, and load_amendments() of the files.
amendments_proper == \A a \in LiveAmendments \cup FiledAmendments : a.proper

\* assert_prior_versions_preserved(): the file is there, whatever it says.
prior_versions_preserved == \A a \in FiledAmendments : a.base \in filed

\* TraceabilityResult.ok: no rule untested, no test dangling.
traceable == declared_rules = tests

-------------------------------------------------------------------------------
Empty == [key \in Key |-> {}]

ArtifactInit ==
  /\ Init
  /\ contract_files = InitialContracts
  /\ amendment_files = InitialAmendments
  /\ code_entries = InitialCodes
  /\ tests = InitialTests
  /\ explained = <<>>
  /\ edits = 0
  /\ rewritten = {}
  /\ validated = FALSE
  /\ traced = {}

\* Authors write, rewrite or remove one file.
EditContract(key, content) ==
  /\ contract_files' = [contract_files EXCEPT ![key] = content]
  /\ rewritten' = rewritten \cup {k \in {key} : contract_files[k] \notin {{}, content}}
  /\ UNCHANGED <<amendment_files, code_entries, tests>>

EditAmendment(id, content) ==
  /\ amendment_files' = [amendment_files EXCEPT ![id] = content]
  /\ UNCHANGED <<contract_files, code_entries, tests, rewritten>>

EditReasonCodes(code, rule) ==
  /\ code_entries' = [code_entries EXCEPT ![code] = rule]
  /\ UNCHANGED <<contract_files, amendment_files, tests, rewritten>>

EditTests(rules) ==
  /\ tests' = rules
  /\ UNCHANGED <<contract_files, amendment_files, code_entries, rewritten>>

Edit ==
  /\ edits < MaxEdits
  /\ edits' = edits + 1
  /\ \/ \E doc \in Document : EditContract(doc.key, {doc})
     \/ \E key \in Key : EditContract(key, {})
     \/ \E a \in Amendment : EditAmendment(a.id, {a})
     \/ \E id \in AmendmentId : EditAmendment(id, {})
     \/ \E code \in ReasonCode, rule \in Rule : EditReasonCodes(code, rule)
     \/ \E rules \in SUBSET Rule : EditTests(rules)
  /\ UNCHANGED <<vars, explained, checks>>

\* Slip: a version that an amendment moves on from is not loaded any more.
StartSuperseding ==
  /\ AmendmentsFit
  /\ contracts' = [key \in Key |-> IF \E a \in FiledAmendments : a.base = key
                                   THEN {} ELSE {load_contract(doc) : doc \in contract_files[key]}]
  /\ amendments' = amendment_files
  /\ reason_codes' = ReasonCode
  /\ explained' = code_entries
  /\ validated' = FALSE /\ traced' = {}
  /\ UNCHANGED <<governed, files, edits, rewritten>>

\* A process is started anew, unless an amendment does not fit; what decisions
\* were governed by is on record.
Start ==
  /\ AmendmentsFit
  /\ contracts' = [key \in Key |-> {load_contract(doc) : doc \in contract_files[key]}]
  /\ amendments' = amendment_files
  /\ reason_codes' = ReasonCode
  /\ explained' = code_entries
  /\ validated' = FALSE /\ traced' = {}
  /\ UNCHANGED <<governed, files, edits, rewritten>>

alive == reason_codes # {}

\* validate_registry() and the preservation check find nothing.
Validate ==
  /\ alive
  /\ reason_codes_covered
  /\ amendments_proper
  /\ prior_versions_preserved
  /\ validated' = TRUE /\ traced' = {}
  /\ UNCHANGED <<vars, files, explained, edits, rewritten>>

\* require_traceability() finds nothing.
Trace ==
  /\ alive
  /\ traceable
  /\ traced' = tests
  /\ UNCHANGED <<vars, files, explained, edits, rewritten, validated>>

\* The living process reads the reason codes again; they are checked no more
\* than when it started.
ReadCodes ==
  /\ alive
  /\ register_reason_codes(ReasonCode)
  /\ explained' = code_entries
  /\ validated' = FALSE /\ traced' = {}
  /\ UNCHANGED <<files, edits, rewritten>>

\* The living process registers a file written since, or decides.
Work ==
  /\ alive
  /\ \/ \E key \in filed : register(load_contract(Filed(key)))
     \/ \E a \in FiledAmendments : register_amendment(a)
     \/ \E key \in Key : resolve(key)
  /\ UNCHANGED <<files, explained, edits, rewritten, checks>>

Live == Validate \/ Trace \/ ReadCodes \/ Work

ArtifactSpec == ArtifactInit /\ [][Edit \/ Start \/ Live]_artifactVars

-------------------------------------------------------------------------------
(***************************************************************************)
(* Properties.                                                             *)
(***************************************************************************)
\* Across restarts, a decision's contract stays readable, and is the very one
\* that governed it, unless someone changed or removed the file of that
\* version; and a version that a live amendment amends is there even then.
ReadableUnlessRewritten ==
  alive =>
    \A c \in governed :
      /\ c.key \notin rewritten => c.key \in filed
      /\ c.key \notin rewritten => contracts[c.key] = {c}
      /\ (\E a \in LiveAmendments : a.base = c.key) => c.key \in registered

\* A process that validated its registry can explain every code it puts on a
\* refusal by a rule that one of its contracts declares, and if it then traced
\* it, by a rule that a test named (reason-codes-v1.0.yaml:7-10): two checks,
\* neither of which asks for the second fact, made once, of a registry and a
\* directory that keep changing.  It holds until the codes are read again, and
\* of a process that was only started nothing of the kind holds.
ReasonCodesKeepTheirRules ==
  validated =>
    \A code \in reason_codes :
      /\ \E key \in registered : explained[code] \in Registered(key).rules
      /\ traced # {} => explained[code] \in traced

\* While a process lives, what a version says never changes and no version
\* disappears, whatever happens to the file; only another process may differ.
ContentIsFixedWhileAlive ==
  [][Live \/ Edit =>
       \A key \in registered : contracts'[key] = contracts[key]]_artifactVars

\* "An amendment never rewrites the contract it amends.  The prior version file
\* stays on disk, unmodified, and continues to govern the decisions that named
\* it" (amendments/service.py:3-5), of a process that made the check which this
\* module exists for.
PriorVersionsAreUnmodified ==
  validated =>
    \A c \in governed :
      (\E a \in LiveAmendments : a.base = c.key) => contracts[c.key] = {c}

===============================================================================
