---------------------------- MODULE ArtifactsProofs ----------------------------
(***************************************************************************)
(* Theorems about Registry, for any versions, documents and amendments,    *)
(* and about Artifacts, for any directory and edits of it.                 *)
(*                                                                         *)
(* The invariant of the registry is Inv: the types, together with the fact *)
(* that every registered contract is what load_contract() makes of its own *)
(* document.  Without it register(), which compares documents only, could  *)
(* replace a contract by another.  It holds while contracts come from      *)
(* files, and is exactly what a copy of a contract breaks.                 *)
(*                                                                         *)
(* The registry of a living process was read from the directory, and the   *)
(* directory has moved on since.  Sourced says what is left of the         *)
(* relation: unless a version's file was changed or removed, it still      *)
(* holds the document that the process read, and the one that every        *)
(* decision was governed by.  That is what a restart needs.                *)
(***************************************************************************)
EXTENDS Artifacts, TLAPS

-------------------------------------------------------------------------------
(***************************************************************************)
(* The registry of one process.                                            *)
(***************************************************************************)
\* Every registered contract agrees with the document it carries.
AllLoaded ==
  \A key \in Key : \A c \in contracts[key] : c \in Loaded

\* What holds of the contracts and amendments, wherever the history began.
Core == TypeOK /\ AllLoaded /\ AmendmentsHaveABase

Inv == Core /\ GoverningContractsStayReadable

\* A loaded contract is a contract, and is determined by its document.
LEMMA LoadedIsDetermined ==
  /\ \A c \in Loaded : c \in Contract /\ c = load_contract(c.raw)
  /\ \A c, d \in Loaded : c.raw = d.raw => c = d
BY DEF Loaded, load_contract, Contract, Document

\* The contract of a registered key is the only one there, and names that key.
LEMMA RegisteredIsUnique ==
  ASSUME TypeOK, NEW key \in registered
  PROVE  /\ Registered(key) \in Contract
         /\ contracts[key] = {Registered(key)}
         /\ Registered(key).key = key
<1>1. key \in Key /\ contracts[key] # {}
  BY DEF registered
<1>2. PICK c \in Contract : contracts[key] = {c} /\ c.key = key
  BY <1>1 DEF TypeOK
<1>3. Registered(key) = c
  BY <1>2 DEF Registered
<1> QED
  BY <1>2, <1>3

LEMMA InitInv == Init => Inv
BY DEF Init, Inv, Core, TypeOK, AllLoaded, GoverningContractsStayReadable,
       AmendmentsHaveABase

\* A registration of a loaded contract puts it where nothing was, or puts back
\* what was there.
LEMMA RegisterKeeps ==
  ASSUME TypeOK, AllLoaded, NEW contract \in Loaded, register(contract)
  PROVE  /\ contract.key \in Key
         /\ contracts' = [contracts EXCEPT ![contract.key] = {contract}]
         /\ \A key \in Key : contracts[key] # {} => contracts'[key] = contracts[key]
<1>1. contract \in Contract /\ contract.key \in Key
  BY LoadedIsDetermined DEF Contract
<1>2. contracts' = [contracts EXCEPT ![contract.key] = {contract}]
  BY DEF register
<1>3. ASSUME contracts[contract.key] # {}
      PROVE  contracts[contract.key] = {contract}
  <2>1. contract.key \in registered
    BY <1>1, <1>3 DEF registered
  <2>2. contracts[contract.key] = {Registered(contract.key)}
    BY <2>1, RegisteredIsUnique
  <2>3. Registered(contract.key) \in Loaded
    BY <1>1, <2>2 DEF AllLoaded
  <2>4. Registered(contract.key).raw = contract.raw
    BY <2>1 DEF register
  <2>5. Registered(contract.key) = contract
    BY <2>3, <2>4, LoadedIsDetermined
  <2> QED
    BY <2>2, <2>5
<1>4. DOMAIN contracts = Key
  BY DEF TypeOK
<1> QED
  BY <1>1, <1>2, <1>3, <1>4

\* Registering a loaded contract preserves the invariant.
LEMMA RegisterInv ==
  ASSUME Core, NEW contract \in Loaded, register(contract)
  PROVE  Core' /\ (GoverningContractsStayReadable => GoverningContractsStayReadable')
<1> USE DEF Core
<1>1. /\ contract.key \in Key
      /\ contracts' = [contracts EXCEPT ![contract.key] = {contract}]
      /\ \A key \in Key : contracts[key] # {} => contracts'[key] = contracts[key]
  BY RegisterKeeps
<1>2. contract \in Contract
  BY LoadedIsDetermined
<1>3. UNCHANGED <<reason_codes, amendments, governed>>
  BY DEF register
<1>4. DOMAIN contracts = Key
  BY DEF TypeOK
<1>5. TypeOK'
  <2>1. \A key \in Key :
          contracts'[key] = {}
            \/ \E c \in Contract : contracts'[key] = {c} /\ c.key = key
    BY <1>1, <1>2, <1>4 DEF TypeOK
  <2> QED
    BY <1>1, <1>3, <1>4, <2>1 DEF TypeOK
<1>6. AllLoaded'
  BY <1>1, <1>4 DEF AllLoaded
<1>7. \A key \in registered : key \in registered' /\ Registered(key)' = Registered(key)
  BY <1>1 DEF registered, Registered
<1>8. ASSUME GoverningContractsStayReadable
      PROVE  GoverningContractsStayReadable'
  <2>1. ASSUME NEW c \in governed
        PROVE  c.key \in registered /\ contracts'[c.key] = {c}
               /\ Registered(c.key)'.status = "ratified"
    <3>1. c \in Contract /\ c.key \in Key
      BY DEF TypeOK, Contract
    <3>2. contracts[c.key] = {c} /\ Registered(c.key).status = "ratified"
      BY <1>8 DEF GoverningContractsStayReadable
    <3>3. c.key \in registered
      BY <3>1, <3>2 DEF registered
    <3> QED
      BY <1>1, <1>7, <3>1, <3>2, <3>3
  <2> QED
    BY <1>3, <2>1 DEF GoverningContractsStayReadable
<1>9. AmendmentsHaveABase'
  BY <1>3, <1>7 DEF AmendmentsHaveABase
<1> QED
  BY <1>5, <1>6, <1>8, <1>9

\* Recording the reason codes disturbs no contract.
LEMMA ReasonCodesInv ==
  ASSUME Inv, NEW codes, register_reason_codes(codes)
  PROVE  Inv'
BY DEF Inv, Core, TypeOK, AllLoaded, GoverningContractsStayReadable, AmendmentsHaveABase,
       register_reason_codes, registered, Registered

\* An amendment is recorded beside the contracts, after its base was looked up.
LEMMA AmendmentInv ==
  ASSUME Core, NEW amendment \in Amendment, register_amendment(amendment)
  PROVE  Core' /\ (GoverningContractsStayReadable => GoverningContractsStayReadable')
<1> USE DEF Core
<1>1. UNCHANGED <<contracts, reason_codes, governed>>
  BY DEF register_amendment
<1>2. registered' = registered /\ \A key : Registered(key)' = Registered(key)
  BY <1>1 DEF registered, Registered
<1>3. amendment.id \in AmendmentId
  BY DEF Amendment
<1>4. amendments' = [amendments EXCEPT ![amendment.id] = {amendment}]
  BY DEF register_amendment
<1>5. TypeOK'
  <2>1. DOMAIN amendments' = AmendmentId
    BY <1>4 DEF TypeOK
  <2>2. \A id \in AmendmentId :
          amendments'[id] = {}
            \/ \E a \in Amendment : amendments'[id] = {a} /\ a.id = id
    BY <1>3, <1>4 DEF TypeOK
  <2> QED
    BY <1>1, <2>1, <2>2 DEF TypeOK
<1>6. AllLoaded' /\ (GoverningContractsStayReadable => GoverningContractsStayReadable')
  BY <1>1, <1>2 DEF AllLoaded, GoverningContractsStayReadable
<1>7. AmendmentsHaveABase'
  <2>1. ASSUME NEW id \in AmendmentId, NEW a \in amendments'[id]
        PROVE  a.base \in registered /\ a.affects \subseteq Registered(a.base).rules
    <3>1. CASE id = amendment.id
      BY <1>3, <1>4, <2>1, <3>1 DEF register_amendment, TypeOK
    <3>2. CASE id # amendment.id
      BY <1>4, <2>1, <3>2 DEF AmendmentsHaveABase, TypeOK
    <3> QED
      BY <3>1, <3>2
  <2> QED
    BY <1>2, <2>1 DEF AmendmentsHaveABase
<1> QED
  BY <1>5, <1>6, <1>7

\* Resolving a version adds to what governed, and only a ratified version.
LEMMA ResolveInv ==
  ASSUME Core, NEW key \in Key, resolve(key)
  PROVE  Core' /\ (GoverningContractsStayReadable => GoverningContractsStayReadable')
<1> USE DEF Core
<1>1. UNCHANGED <<contracts, reason_codes, amendments>>
      /\ governed' = governed \cup {Registered(key)}
  BY DEF resolve
<1>2. /\ key \in registered
      /\ Registered(key).status = "ratified"
      /\ Registered(key) \in Contract
      /\ contracts[key] = {Registered(key)}
      /\ Registered(key).key = key
  BY RegisteredIsUnique DEF resolve
<1>3. registered' = registered /\ \A k : Registered(k)' = Registered(k)
  BY <1>1 DEF registered, Registered
<1>4. TypeOK' /\ AllLoaded' /\ AmendmentsHaveABase'
  BY <1>1, <1>2, <1>3 DEF TypeOK, AllLoaded, AmendmentsHaveABase
<1>5. GoverningContractsStayReadable => GoverningContractsStayReadable'
  BY <1>1, <1>2, <1>3 DEF GoverningContractsStayReadable
<1> QED
  BY <1>4, <1>5

LEMMA StepInv == Inv /\ [FromFiles]_vars => Inv'
<1> SUFFICES ASSUME Inv, [FromFiles]_vars PROVE Inv'
  OBVIOUS
<1>1. CASE \E codes \in SUBSET ReasonCode : register_reason_codes(codes)
  BY <1>1, ReasonCodesInv
<1>2. CASE \E amendment \in Amendment : register_amendment(amendment)
  BY <1>2, AmendmentInv DEF Inv
<1>3. CASE \E key \in Key : resolve(key)
  BY <1>3, ResolveInv DEF Inv
<1>4. CASE \E contract \in Loaded : register(contract)
  BY <1>4, RegisterInv DEF Inv
<1>5. CASE UNCHANGED vars
  BY <1>5 DEF vars, Inv, Core, TypeOK, AllLoaded, GoverningContractsStayReadable,
              AmendmentsHaveABase, registered, Registered
<1> QED
  BY <1>1, <1>2, <1>3, <1>4, <1>5 DEF FromFiles, Use

(***************************************************************************)
(* The theorems.                                                           *)
(***************************************************************************)
\* While contracts come from files, the invariant holds.
THEOREM RegistryInvariant == Spec => []Inv
<1>1. Init => Inv
  BY InitInv
<1>2. Inv /\ [FromFiles]_vars => Inv'
  BY StepInv
<1> QED
  BY <1>1, <1>2, PTL DEF Spec

\* At most one contract per version, and everything keeps its type.
THEOREM RegistryTypeCorrect == Spec => []TypeOK
<1>1. Inv => TypeOK
  BY DEF Inv, Core
<1> QED
  BY <1>1, RegistryInvariant, PTL

\* The version a decision names always yields the contract that governed it.
THEOREM GoverningStaysReadable == Spec => []GoverningContractsStayReadable
<1>1. Inv => GoverningContractsStayReadable
  BY DEF Inv
<1> QED
  BY <1>1, RegistryInvariant, PTL

\* No amendment on record is without the rules it changes.
THEOREM AmendmentsBased == Spec => []AmendmentsHaveABase
<1>1. Inv => AmendmentsHaveABase
  BY DEF Inv, Core
<1> QED
  BY <1>1, RegistryInvariant, PTL

\* No registration changes or removes a version (registry.py:64-65), as long as
\* contracts are loaded from files.
THEOREM VersionsAreFixed == Spec => VersionContentIsFixed
<1> DEFINE Fixed == \A key \in Key : contracts[key] # {} => contracts'[key] = contracts[key]
<1>1. Inv /\ [FromFiles]_vars => [Fixed]_vars
  <2> SUFFICES ASSUME Inv, FromFiles PROVE Fixed
    OBVIOUS
  <2>1. CASE Use
    BY <2>1 DEF Use, register_reason_codes, register_amendment, resolve
  <2>2. CASE \E contract \in Loaded : register(contract)
    BY <2>2, RegisterKeeps DEF Inv, Core
  <2> QED
    BY <2>1, <2>2 DEF FromFiles
<1>2. Spec => [][Fixed]_vars
  BY <1>1, RegistryInvariant, PTL DEF Spec
<1> QED
  BY <1>2 DEF VersionContentIsFixed

\* Whatever contracts callers register, no version disappears or loses its document
\* (register(), which compares nothing else).
THEOREM DocumentsStay == OpenSpec => DocumentsAreFixed
<1> DEFINE Single == DOMAIN contracts = Key
                     /\ \A key \in Key : \A c, d \in contracts[key] : c = d
           Kept == \A key \in registered :
                     contracts'[key] # {} /\ \A c \in contracts'[key] : c.raw = Registered(key).raw
<1>1. Init => Single
  BY DEF Init
<1>2. ASSUME Single, [AnyContract]_vars PROVE Single' /\ (UNCHANGED vars \/ Kept)
  <2>1. CASE UNCHANGED contracts
    <3>1. ASSUME NEW key \in registered, NEW c \in contracts[key]
          PROVE  c = Registered(key)
      <4>1. key \in Key /\ Registered(key) \in contracts[key]
        BY <3>1 DEF registered, Registered
      <4> QED
        BY <1>2, <3>1, <4>1
    <3> QED
      BY <1>2, <2>1, <3>1 DEF registered
  <2>2. ASSUME NEW contract \in Contract, register(contract) PROVE Single' /\ Kept
    <3>1. contract.key \in Key
      BY DEF Contract
    <3>2. /\ DOMAIN contracts' = Key
          /\ contracts'[contract.key] = {contract}
          /\ \A key \in Key \ {contract.key} : contracts'[key] = contracts[key]
      BY <1>2, <2>2, <3>1 DEF register
    <3>3. ASSUME NEW key \in registered
          PROVE  /\ contracts'[key] # {}
                 /\ \A c \in contracts'[key] : c.raw = Registered(key).raw
      <4>1. key \in Key /\ contracts[key] # {} /\ Registered(key) \in contracts[key]
        BY DEF registered, Registered
      <4>2. CASE key = contract.key
        BY <2>2, <3>2, <4>2 DEF register
      <4>3. CASE key # contract.key
        BY <1>2, <3>2, <4>1, <4>3
      <4> QED
        BY <4>2, <4>3
    <3> QED
      BY <1>2, <3>1, <3>2, <3>3
  <2>3. CASE Use
    BY <2>1, <2>3 DEF Use, register_reason_codes, register_amendment, resolve
  <2> QED
    BY <1>2, <2>1, <2>2, <2>3 DEF AnyContract, vars
<1>3. Single /\ [AnyContract]_vars => Single' /\ [Kept]_vars
  BY <1>2
<1> HIDE DEF Single
<1>4. OpenSpec => [][Kept]_vars
  BY <1>1, <1>3, PTL DEF OpenSpec
<1> QED
  BY <1>4 DEF DocumentsAreFixed

-------------------------------------------------------------------------------
(***************************************************************************)
(* The directory the process reads.                                        *)
(***************************************************************************)
\* A file holds one document, filed under what it says it is.
FilesOK ==
  /\ DOMAIN contract_files = Key /\ DOMAIN amendment_files = AmendmentId
  /\ \A key \in Key : contract_files[key] # {} =>
       \E doc \in Document : contract_files[key] = {doc} /\ doc.key = key
  /\ \A id \in AmendmentId : amendment_files[id] # {} =>
       \E a \in Amendment : amendment_files[id] = {a} /\ a.id = id

\* Unless it was rewritten, a version's file holds what was read and what
\* governed.
Sourced ==
  \A key \in Key : key \notin rewritten =>
    /\ \A c \in contracts[key] : contract_files[key] = {c.raw}
    /\ \A c \in governed : c.key = key =>
         c = load_contract(c.raw) /\ contract_files[key] = {c.raw}

\* In a living process, what governed is there unless it was rewritten.
Readable ==
  alive =>
    \A c \in governed : c.key \notin rewritten => contracts[c.key] = {c}

\* A process that validated holds a contract for the rule of each of its codes,
\* and whatever it traced since had all of them.
Explained ==
  validated =>
    \A code \in reason_codes :
      /\ explained[code] \in declared_rules
      /\ traced # {} => explained[code] \in traced

ArtifactInv == Core /\ FilesOK /\ Sourced /\ Readable /\ Explained

-------------------------------------------------------------------------------
LEMMA ArtifactInitInv == ArtifactInit => ArtifactInv
<1> SUFFICES ASSUME ArtifactInit PROVE ArtifactInv
  OBVIOUS
<1>1. Core
  BY InitInv DEF ArtifactInit, Inv
<1>2. FilesOK
  BY ArtifactAssumption DEF ArtifactInit, FilesOK, DirectoryAssumption
<1>3. Sourced /\ Readable /\ Explained
  BY DEF ArtifactInit, Init, Sourced, Readable, Explained, alive
<1> QED
  BY <1>1, <1>2, <1>3 DEF ArtifactInv

\* What is filed can be loaded, and is filed under its own name.
LEMMA FiledIsLoadable ==
  ASSUME FilesOK, NEW key \in filed
  PROVE  /\ key \in Key
         /\ Filed(key) \in Document
         /\ Filed(key).key = key
         /\ contract_files[key] = {Filed(key)}
         /\ load_contract(Filed(key)) \in Loaded
         /\ load_contract(Filed(key)).key = key
         /\ load_contract(Filed(key)).raw = Filed(key)
<1>1. key \in Key /\ contract_files[key] # {}
  BY DEF filed
<1>2. PICK doc \in Document : contract_files[key] = {doc} /\ doc.key = key
  BY <1>1 DEF FilesOK
<1>3. Filed(key) = doc
  BY <1>2 DEF Filed
<1> QED
  BY <1>1, <1>2, <1>3 DEF load_contract, Loaded

LEMMA AmendmentsAreTyped ==
  ASSUME FilesOK, NEW a \in FiledAmendments
  PROVE  a \in Amendment
BY DEF FilesOK, FiledAmendments

\* While contracts are kept, so are the rules they declare.
LEMMA RulesAccumulate ==
  ASSUME \A key \in Key : contracts[key] # {} => contracts'[key] = contracts[key]
  PROVE  declared_rules \subseteq declared_rules'
<1>1. \A key \in registered : key \in registered' /\ Registered(key)' = Registered(key)
  BY DEF registered, Registered
<1> QED
  BY <1>1 DEF declared_rules

-------------------------------------------------------------------------------
\* An edit leaves the process alone, and marks the version it disturbs.
LEMMA EditInv ==
  ASSUME ArtifactInv, Edit
  PROVE  ArtifactInv'
<1> USE DEF ArtifactInv
<1>1. UNCHANGED <<vars, explained, checks>>
  BY DEF Edit
<1>2. Core' /\ Explained'
  BY <1>1 DEF vars, checks, Core, TypeOK, AllLoaded, AmendmentsHaveABase, registered,
              Registered, Explained, declared_rules
<1>3. ASSUME NEW key \in Key, NEW content, EditContract(key, content),
             content # {} => \E doc \in Document : content = {doc} /\ doc.key = key
      PROVE  FilesOK' /\ Sourced' /\ Readable'
  <2>1. /\ contract_files' = [contract_files EXCEPT ![key] = content]
        /\ rewritten' = rewritten \cup {k \in {key} : contract_files[k] \notin {{}, content}}
        /\ UNCHANGED amendment_files
    BY <1>3 DEF EditContract
  <2>2. FilesOK'
    BY <1>3, <2>1 DEF FilesOK
  <2>3. ASSUME NEW k \in Key, k \notin rewritten', contract_files[k] # {}
        PROVE  k \notin rewritten /\ contract_files'[k] = contract_files[k]
    BY <2>1, <2>3 DEF FilesOK
  <2>4. Sourced'
    <3>1. SUFFICES ASSUME NEW k \in Key, k \notin rewritten'
                   PROVE  /\ \A c \in contracts[k] : contract_files'[k] = {c.raw}
                          /\ \A c \in governed : c.key = k =>
                               c = load_contract(c.raw) /\ contract_files'[k] = {c.raw}
      BY <1>1 DEF Sourced, vars
    <3>2. k \notin rewritten
      BY <2>1, <3>1
    <3> QED
      BY <2>3, <3>1, <3>2 DEF Sourced
  <2>5. Readable'
    BY <1>1, <2>1 DEF Readable, alive, vars
  <2> QED
    BY <2>2, <2>4, <2>5
<1>4. ASSUME NEW doc \in Document, EditContract(doc.key, {doc})
      PROVE  FilesOK' /\ Sourced' /\ Readable'
  <2>1. doc.key \in Key
    BY DEF Document
  <2> QED
    BY <1>3, <1>4, <2>1
<1>5. ASSUME NEW key \in Key, EditContract(key, {})
      PROVE  FilesOK' /\ Sourced' /\ Readable'
  BY <1>3, <1>5
<1>6. ASSUME UNCHANGED <<contract_files, rewritten>>
      PROVE  Sourced' /\ Readable'
  BY <1>1, <1>6 DEF Sourced, Readable, alive, vars
<1>7. ASSUME NEW a \in Amendment, EditAmendment(a.id, {a})
      PROVE  FilesOK' /\ Sourced' /\ Readable'
  <2>1. a.id \in AmendmentId
    BY DEF Amendment
  <2>2. FilesOK'
    BY <1>7, <2>1 DEF EditAmendment, FilesOK
  <2> QED
    BY <1>6, <1>7, <2>2 DEF EditAmendment
<1>8. ASSUME NEW id \in AmendmentId, EditAmendment(id, {})
      PROVE  FilesOK' /\ Sourced' /\ Readable'
  <2>1. FilesOK'
    BY <1>8 DEF EditAmendment, FilesOK
  <2> QED
    BY <1>6, <1>8, <2>1 DEF EditAmendment
<1>9. ASSUME NEW code, NEW rule, EditReasonCodes(code, rule)
      PROVE  FilesOK' /\ Sourced' /\ Readable'
  BY <1>6, <1>9 DEF EditReasonCodes, FilesOK
<1>10. ASSUME NEW rules, EditTests(rules)
       PROVE  FilesOK' /\ Sourced' /\ Readable'
  BY <1>6, <1>10 DEF EditTests, FilesOK
<1>11. FilesOK' /\ Sourced' /\ Readable'
  BY <1>4, <1>5, <1>7, <1>8, <1>9, <1>10 DEF Edit
<1> QED
  BY <1>2, <1>11

\* A process starts from the files, and so from what governed.
LEMMA StartInv ==
  ASSUME ArtifactInv, Start
  PROVE  ArtifactInv'
<1> USE DEF ArtifactInv
<1>1. /\ contracts' = [key \in Key |-> {load_contract(doc) : doc \in contract_files[key]}]
      /\ amendments' = amendment_files
      /\ reason_codes' = ReasonCode
      /\ ~validated'
      /\ UNCHANGED <<governed, files, edits, rewritten>>
  BY DEF Start
<1>2. /\ registered' = filed
      /\ \A key \in filed : /\ Registered(key)' = load_contract(Filed(key))
                            /\ contracts'[key] = {load_contract(Filed(key))}
  <2>1. ASSUME NEW key \in Key
        PROVE  contracts'[key] # {} <=> key \in filed
    BY <1>1 DEF filed
  <2>2. ASSUME NEW key \in filed
        PROVE  contracts'[key] = {load_contract(Filed(key))}
    <3>1. key \in Key /\ contract_files[key] = {Filed(key)}
      BY FiledIsLoadable
    <3> QED
      BY <1>1, <3>1
  <2>3. registered' = filed
    BY <2>1 DEF registered, filed
  <2> QED
    BY <2>2, <2>3 DEF Registered
<1>3. TypeOK'
  <2>1. ASSUME NEW key \in Key
        PROVE  \/ contracts'[key] = {}
               \/ \E c \in Contract : contracts'[key] = {c} /\ c.key = key
    <3>1. CASE key \in filed
      BY <1>2, <3>1, FiledIsLoadable, LoadedIsDetermined
    <3>2. CASE key \notin filed
      BY <1>1, <3>2 DEF filed
    <3> QED
      BY <3>1, <3>2
  <2>2. ASSUME NEW id \in AmendmentId
        PROVE  \/ amendments'[id] = {}
               \/ \E a \in Amendment : amendments'[id] = {a} /\ a.id = id
    BY <1>1 DEF FilesOK
  <2>3. governed' \subseteq Contract
    BY <1>1 DEF Core, TypeOK
  <2>4. DOMAIN contracts' = Key /\ DOMAIN amendments' = AmendmentId
    BY <1>1 DEF FilesOK
  <2> QED
    BY <1>1, <2>1, <2>2, <2>3, <2>4 DEF TypeOK
<1>4. AllLoaded'
  <2>1. ASSUME NEW key \in Key, NEW c \in contracts'[key]
        PROVE  c \in Loaded
    <3>1. key \in filed
      BY <1>1 DEF filed
    <3> QED
      BY <1>2, <3>1, FiledIsLoadable
  <2> QED
    BY <2>1 DEF AllLoaded
<1>5. AmendmentsHaveABase'
  <2>1. ASSUME NEW id \in AmendmentId, NEW a \in amendments'[id]
        PROVE  a.base \in registered' /\ a.affects \subseteq Registered(a.base)'.rules
    <3>1. a \in FiledAmendments
      BY <1>1, <2>1 DEF FiledAmendments, FilesOK
    <3>3. a.base \in filed /\ a.affects \subseteq Filed(a.base).rules
      BY <3>1 DEF Start, AmendmentsFit
    <3>4. load_contract(Filed(a.base)).rules = Filed(a.base).rules
      BY DEF load_contract
    <3> QED
      BY <1>2, <3>3, <3>4
  <2> QED
    BY <2>1 DEF AmendmentsHaveABase
<1>6. Explained'
  BY <1>1 DEF Explained
<1>7. FilesOK'
  BY <1>1 DEF FilesOK, files
<1>8. Sourced'
  <2>1. SUFFICES ASSUME NEW key \in Key, key \notin rewritten
                 PROVE  /\ \A c \in contracts'[key] : contract_files[key] = {c.raw}
                        /\ \A c \in governed : c.key = key =>
                             c = load_contract(c.raw) /\ contract_files[key] = {c.raw}
    BY <1>1 DEF Sourced, files
  <2>2. ASSUME NEW c \in contracts'[key]
        PROVE  contract_files[key] = {c.raw}
    <3>1. key \in filed
      BY <1>1, <2>2 DEF filed
    <3> QED
      BY <1>2, <2>2, <3>1, FiledIsLoadable
  <2> QED
    BY <2>1, <2>2 DEF Sourced
<1>9. Readable'
  <2>1. ASSUME NEW c \in governed, c.key \notin rewritten
        PROVE  contracts'[c.key] = {c}
    <3>1. c.key \in Key
      BY DEF Core, TypeOK, Contract
    <3>2. c = load_contract(c.raw) /\ contract_files[c.key] = {c.raw}
      BY <2>1, <3>1 DEF Sourced
    <3> QED
      BY <1>1, <3>1, <3>2
  <2> QED
    BY <1>1, <2>1 DEF Readable
<1> QED
  BY <1>3, <1>4, <1>5, <1>6, <1>7, <1>8, <1>9 DEF Core

-------------------------------------------------------------------------------
\* What a process checked holds of what it knows, as long as it lives.
LEMMA CheckInv ==
  ASSUME ArtifactInv, Validate \/ Trace
  PROVE  ArtifactInv'
<1> USE DEF ArtifactInv
<1>1. UNCHANGED <<vars, files, explained, edits, rewritten>>
  BY DEF Validate, Trace
<1>2. Core' /\ FilesOK' /\ Sourced' /\ Readable'
  BY <1>1 DEF vars, files, Core, TypeOK, AllLoaded, AmendmentsHaveABase, registered,
              Registered, FilesOK, Sourced, Readable, alive
<1>3. UNCHANGED <<declared_rules, reason_codes, explained>>
  BY <1>1 DEF vars, declared_rules, registered, Registered
<1>4. ASSUME Validate PROVE Explained'
  BY <1>3, <1>4 DEF Validate, reason_codes_covered, Explained
<1>5. ASSUME Trace PROVE Explained'
  BY <1>3, <1>5 DEF Trace, traceable, Explained
<1> QED
  BY <1>2, <1>4, <1>5

\* Codes read again are not validated.
LEMMA ReadCodesInv ==
  ASSUME ArtifactInv, ReadCodes
  PROVE  ArtifactInv'
<1> USE DEF ArtifactInv
<1>1. /\ UNCHANGED <<contracts, amendments, governed, files, rewritten>>
      /\ alive /\ reason_codes' = ReasonCode
      /\ ~validated'
  BY DEF ReadCodes, register_reason_codes
<1>2. Core' /\ FilesOK' /\ Sourced'
  BY <1>1 DEF files, Core, TypeOK, AllLoaded, AmendmentsHaveABase, registered,
              Registered, FilesOK, Sourced
<1>3. Readable' /\ Explained'
  BY <1>1 DEF Readable, Explained
<1> QED
  BY <1>2, <1>3

\* A living process registers only what is filed, so what it holds is either
\* what it held or what is filed now.
LEMMA WorkStep ==
  ASSUME Core, FilesOK, Work
  PROVE  /\ alive
         /\ UNCHANGED <<files, explained, edits, rewritten, checks>>
         /\ UNCHANGED reason_codes
         /\ Core'
         /\ \A key \in Key : contracts[key] # {} => contracts'[key] = contracts[key]
         /\ \A key \in Key : \/ contracts'[key] = contracts[key]
                             \/ /\ key \in filed
                                /\ contracts'[key] = {load_contract(Filed(key))}
         /\ \A c \in governed' :
              \/ c \in governed
              \/ UNCHANGED contracts /\ contracts[c.key] = {c}
<1>1. ASSUME NEW key \in filed, register(load_contract(Filed(key)))
      PROVE  /\ UNCHANGED <<reason_codes, governed>>
             /\ Core'
             /\ \A k \in Key : contracts[k] # {} => contracts'[k] = contracts[k]
             /\ \A k \in Key : \/ contracts'[k] = contracts[k]
                               \/ k \in filed /\ contracts'[k] = {load_contract(Filed(k))}
  <2>1. load_contract(Filed(key)) \in Loaded /\ load_contract(Filed(key)).key = key
    BY FiledIsLoadable
  <2>2. Core'
    BY <1>1, <2>1, RegisterInv
  <2>3. /\ contracts' = [contracts EXCEPT ![key] = {load_contract(Filed(key))}]
        /\ \A k \in Key : contracts[k] # {} => contracts'[k] = contracts[k]
    BY <1>1, <2>1, RegisterKeeps DEF Core
  <2>4. DOMAIN contracts = Key
    BY DEF Core, TypeOK
  <2>5. UNCHANGED <<reason_codes, governed>>
    BY <1>1 DEF register
  <2> QED
    BY <2>2, <2>3, <2>4, <2>5
<1>2. ASSUME NEW a \in FiledAmendments, register_amendment(a)
      PROVE  UNCHANGED <<contracts, reason_codes, governed>> /\ Core'
  <2>1. a \in Amendment
    BY AmendmentsAreTyped
  <2> QED
    BY <1>2, <2>1, AmendmentInv DEF register_amendment
<1>3. ASSUME NEW key \in Key, resolve(key)
      PROVE  /\ UNCHANGED <<contracts, reason_codes>>
             /\ Core'
             /\ \A c \in governed' : c \in governed \/ contracts[c.key] = {c}
  <2>1. key \in registered /\ governed' = governed \cup {Registered(key)}
    BY <1>3 DEF resolve
  <2>2. contracts[key] = {Registered(key)} /\ Registered(key).key = key
    BY <2>1, RegisteredIsUnique DEF Core
  <2>3. Core'
    BY <1>3, ResolveInv
  <2> QED
    BY <1>3, <2>1, <2>2, <2>3 DEF resolve
<1> QED
  BY <1>1, <1>2, <1>3 DEF Work

LEMMA WorkInv ==
  ASSUME ArtifactInv, Work
  PROVE  ArtifactInv'
<1> USE DEF ArtifactInv
<1>1. FilesOK'
  BY WorkStep DEF FilesOK, files
<1>2. Sourced'
  <2>1. SUFFICES ASSUME NEW key \in Key, key \notin rewritten
                 PROVE  /\ \A c \in contracts'[key] : contract_files[key] = {c.raw}
                        /\ \A c \in governed' : c.key = key =>
                             c = load_contract(c.raw) /\ contract_files[key] = {c.raw}
    BY WorkStep DEF Sourced, files
  <2>2. \A c \in contracts'[key] : contract_files[key] = {c.raw}
    BY <2>1, WorkStep, FiledIsLoadable DEF Sourced
  <2>3. ASSUME NEW c \in governed', c.key = key
        PROVE  c = load_contract(c.raw) /\ contract_files[key] = {c.raw}
    <3>1. CASE c \in governed
      BY <2>1, <2>3, <3>1 DEF Sourced
    <3>2. CASE UNCHANGED contracts /\ contracts[c.key] = {c}
      <4>1. c \in Loaded
        BY <2>1, <2>3, <3>2 DEF Core, AllLoaded
      <4> QED
        BY <2>1, <2>2, <2>3, <3>2, <4>1, LoadedIsDetermined
    <3> QED
      BY <2>3, <3>1, <3>2, WorkStep
  <2> QED
    BY <2>2, <2>3
<1>3. Readable'
  <2>1. ASSUME NEW c \in governed', c.key \notin rewritten
        PROVE  contracts'[c.key] = {c}
    <3>1. CASE c \in governed
      <4>1. c.key \in Key /\ contracts[c.key] = {c}
        BY <2>1, <3>1, WorkStep DEF Readable, Core, TypeOK, Contract
      <4> QED
        BY <4>1, WorkStep
    <3>2. CASE UNCHANGED contracts /\ contracts[c.key] = {c}
      BY <3>2
    <3> QED
      BY <2>1, <3>1, <3>2, WorkStep
  <2> QED
    BY <2>1, WorkStep DEF Readable
<1>4. Explained'
  <2>1. declared_rules \subseteq declared_rules'
    BY WorkStep, RulesAccumulate
  <2> QED
    BY <2>1, WorkStep DEF Explained, checks
<1> QED
  BY <1>1, <1>2, <1>3, <1>4, WorkStep

LEMMA ArtifactStepInv ==
  ArtifactInv /\ [Edit \/ Start \/ Live]_artifactVars => ArtifactInv'
<1> SUFFICES ASSUME ArtifactInv, [Edit \/ Start \/ Live]_artifactVars
             PROVE  ArtifactInv'
  OBVIOUS
<1>1. CASE UNCHANGED artifactVars
  <2>1. Core'
    BY <1>1 DEF artifactVars, vars, ArtifactInv, Core, TypeOK, AllLoaded,
                AmendmentsHaveABase, registered, Registered
  <2>2. FilesOK' /\ Sourced' /\ Readable'
    BY <1>1 DEF artifactVars, vars, files, ArtifactInv, FilesOK, Sourced, Readable, alive
  <2>3. Explained'
    BY <1>1 DEF artifactVars, vars, checks, ArtifactInv, Explained, declared_rules,
                registered, Registered
  <2> QED
    BY <2>1, <2>2, <2>3 DEF ArtifactInv
<1> QED
  BY <1>1, EditInv, StartInv, CheckInv, ReadCodesInv, WorkInv DEF Live

(***************************************************************************)
(* The theorems.                                                           *)
(***************************************************************************)
THEOREM ArtifactInvariant == ArtifactSpec => []ArtifactInv
BY ArtifactInitInv, ArtifactStepInv, PTL DEF ArtifactSpec

\* Across restarts, every amendment of a living process has its base.
THEOREM AmendmentsStayBased == ArtifactSpec => []AmendmentsHaveABase
<1>1. ArtifactInv => AmendmentsHaveABase
  BY DEF ArtifactInv, Core
<1> QED
  BY <1>1, ArtifactInvariant, PTL

\* A process that validated its registry can explain every code by a rule of one
\* of its contracts until it reads the codes again, and by a tested rule if it
\* then traced it.
THEOREM CodesStayExplained == ArtifactSpec => []ReasonCodesKeepTheirRules
<1>1. ArtifactInv => ReasonCodesKeepTheirRules
  BY DEF ArtifactInv, Explained, ReasonCodesKeepTheirRules, declared_rules
<1> QED
  BY <1>1, ArtifactInvariant, PTL

\* What governed a decision survives restarts, unless its file was rewritten.
THEOREM SurvivesRestarts == ArtifactSpec => []ReadableUnlessRewritten
<1>1. ArtifactInv => ReadableUnlessRewritten
  <2> SUFFICES ASSUME ArtifactInv, alive, NEW c \in governed
               PROVE  /\ c.key \notin rewritten => c.key \in filed
                      /\ c.key \notin rewritten => contracts[c.key] = {c}
                      /\ (\E a \in LiveAmendments : a.base = c.key)
                           => c.key \in registered
    BY DEF ReadableUnlessRewritten
  <2>1. c.key \in Key
    BY DEF ArtifactInv, Core, TypeOK, Contract
  <2>2. c.key \notin rewritten => c.key \in filed
    BY <2>1 DEF ArtifactInv, Sourced, filed
  <2>3. c.key \notin rewritten => contracts[c.key] = {c}
    BY DEF ArtifactInv, Readable
  <2>4. (\E a \in LiveAmendments : a.base = c.key)
          => c.key \in registered
    BY DEF ArtifactInv, Core, AmendmentsHaveABase, LiveAmendments
  <2> QED
    BY <2>2, <2>3, <2>4
<1> QED
  BY <1>1, ArtifactInvariant, PTL

\* Only another process may know a version differently.
THEOREM FixedWhileAlive == ArtifactSpec => ContentIsFixedWhileAlive
<1> DEFINE Fixed == Live \/ Edit =>
                      \A key \in registered : contracts'[key] = contracts[key]
<1>1. ArtifactInv /\ [Edit \/ Start \/ Live]_artifactVars => [Fixed]_artifactVars
  <2> SUFFICES ASSUME ArtifactInv, Live \/ Edit
               PROVE  \A key \in registered : contracts'[key] = contracts[key]
    OBVIOUS
  <2>1. CASE Edit
    BY <2>1 DEF Edit, vars
  <2>2. CASE Work
    BY <2>2, WorkStep DEF ArtifactInv, registered
  <2>3. CASE Validate \/ Trace \/ ReadCodes
    BY <2>3 DEF Validate, Trace, ReadCodes, register_reason_codes, vars
  <2> QED
    BY <2>1, <2>2, <2>3 DEF Live
<1>2. ArtifactSpec => [][Fixed]_artifactVars
  BY <1>1, ArtifactInvariant, PTL DEF ArtifactSpec
<1> QED
  BY <1>2 DEF ContentIsFixedWhileAlive

===============================================================================
