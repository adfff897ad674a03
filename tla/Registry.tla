------------------------------- MODULE Registry -------------------------------
(***************************************************************************)
(* ContractRegistry (contracts/registry.py): every contract version known  *)
(* to the process, the controlled reason codes, and the amendments, with   *)
(* what the loader (contracts/loader.py) lets through.                     *)
(*                                                                         *)
(* A contract is a typed object that carries the document it was parsed    *)
(* from (raw).  load_contract() makes the two agree; a copy of a contract  *)
(* (model_copy) may change the typed fields and keep the document.  In     *)
(* Spec contracts come from files only, as build_default_registry() has    *)
(* it; in OpenSpec callers register any contract.                          *)
(***************************************************************************)
CONSTANTS Key,        \* (contract_id, version) pairs
          Status,     \* ratification statuses a document may state
          Rule,       \* rule identifiers
          ReasonCode, \* the codes the implementation can emit
          Text,       \* what else two documents may differ in
          AmendmentId

Document == [key : Key, status : Status, rules : SUBSET Rule, text : Text]
Contract == [key : Key, status : Status, rules : SUBSET Rule, raw : Document]

\* An amendment is proper if its author did not ratify it, it moves to a later
\* version, and it says that it preserves the one before.
Amendment == [id : AmendmentId, base : Key, affects : SUBSET Rule \ {{}},
              proper : BOOLEAN]

ASSUME RegistryAssumption == "ratified" \in Status

VARIABLES
  contracts,     \* _contracts: the contracts by key, {} where none is
  reason_codes,  \* _reason_codes: the codes declared
  amendments,    \* _amendments: by identifier, {} where none is
  governed       \* history: the contracts resolve() handed to decisions

vars == <<contracts, reason_codes, amendments, governed>>

registered == {key \in Key : contracts[key] # {}}
Registered(key) == CHOOSE c \in contracts[key] : TRUE

\* load_contract(): the typed fields are those of the document.
load_contract(doc) ==
  [key |-> doc.key, status |-> doc.status, rules |-> doc.rules, raw |-> doc]

Loaded == {load_contract(doc) : doc \in Document}

-------------------------------------------------------------------------------
Init ==
  /\ contracts = [key \in Key |-> {}]
  /\ reason_codes = {}
  /\ amendments = [id \in AmendmentId |-> {}]
  /\ governed = {}

\* Slip: the latest registration wins.
registerReplacing(contract) ==
  /\ contracts' = [contracts EXCEPT ![contract.key] = {contract}]
  /\ UNCHANGED <<reason_codes, amendments, governed>>

\* A version already registered from another document is refused
\* (ContractValidationError); anything else takes, or keeps, the place.
register(contract) ==
  /\ contract.key \in registered => Registered(contract.key).raw = contract.raw
  /\ contracts' = [contracts EXCEPT ![contract.key] = {contract}]
  /\ UNCHANGED <<reason_codes, amendments, governed>>

\* load_reason_codes() lets only the exact set through, and
\* register_reason_codes() replaces what was there.
register_reason_codes(codes) ==
  /\ codes = ReasonCode
  /\ reason_codes' = codes
  /\ UNCHANGED <<contracts, amendments, governed>>

\* Slip: only the version an amendment amends is looked up, not its rules.
register_amendmentUnchecked(amendment) ==
  /\ amendment.base \in registered
  /\ amendments' = [amendments EXCEPT ![amendment.id] = {amendment}]
  /\ UNCHANGED <<contracts, reason_codes, governed>>

\* An amendment of an unknown version, or of rules the version does not declare,
\* is refused; another one of the same identifier is replaced.
register_amendment(amendment) ==
  /\ amendment.base \in registered
  /\ amendment.affects \subseteq Registered(amendment.base).rules
  /\ amendments' = [amendments EXCEPT ![amendment.id] = {amendment}]
  /\ UNCHANGED <<contracts, reason_codes, governed>>

\* ContractNotFound and ContractNotRatified leave everything as it was.
resolve(key) ==
  /\ key \in registered
  /\ Registered(key).status = "ratified"
  /\ governed' = governed \cup {Registered(key)}
  /\ UNCHANGED <<contracts, reason_codes, amendments>>

Use ==
  \/ \E codes \in SUBSET ReasonCode : register_reason_codes(codes)
  \/ \E amendment \in Amendment : register_amendment(amendment)
  \/ \E key \in Key : resolve(key)

FromFiles == Use \/ \E contract \in Loaded : register(contract)

Spec == Init /\ [][FromFiles]_vars

AnyContract == Use \/ \E contract \in Contract : register(contract)

OpenSpec == Init /\ [][AnyContract]_vars

-------------------------------------------------------------------------------
(***************************************************************************)
(* Properties.                                                             *)
(***************************************************************************)
\* The shape of the state: one contract per version at most.
TypeOK ==
  /\ \A key \in Key :
       contracts[key] = {} \/ \E c \in Contract : contracts[key] = {c} /\ c.key = key
  /\ DOMAIN contracts = Key /\ DOMAIN amendments = AmendmentId
  /\ \A id \in AmendmentId :
       amendments[id] = {} \/ \E a \in Amendment : amendments[id] = {a} /\ a.id = id
  /\ reason_codes \in {{}, ReasonCode}
  /\ governed \subseteq Contract

\* The rules a decision was judged by stay readable: whatever is registered
\* later, the version a decision names yields the very contract that governed
\* it, and that contract was, and still is, ratified (ContractRegistry docstring,
\* ET-CON-002).
GoverningContractsStayReadable ==
  \A c \in governed : contracts[c.key] = {c} /\ Registered(c.key).status = "ratified"

\* Every amendment on record documents a change to rules that are there: its
\* version is registered and declares them, now and not only when it was
\* registered (register_amendment()).
AmendmentsHaveABase ==
  \A id \in AmendmentId : \A a \in amendments[id] :
    /\ a.base \in registered
    /\ a.affects \subseteq Registered(a.base).rules

\* A version's content is fixed once registered (registry.py:64-65,
\* tests/contract/test_contract_artifacts.py): what a version says, and whether
\* it may govern, never changes, and no version disappears.
VersionContentIsFixed ==
  [][\A key \in Key : contracts[key] # {} => contracts'[key] = contracts[key]]_vars

\* All that is left of it where callers register any contract, a copy with the
\* document of another included (OpenSpec): no version disappears, and its document
\* stays.  What the contract says beside its document may change.
DocumentsAreFixed ==
  [][\A key \in registered :
       contracts'[key] # {} /\ \A c \in contracts'[key] : c.raw = Registered(key).raw]_vars

===============================================================================
