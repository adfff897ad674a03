------------------------------ MODULE MCArtifacts ------------------------------
(***************************************************************************)
(* A directory with a ratified version, a later draft, and an amendment    *)
(* between them.                                                           *)
(***************************************************************************)
EXTENDS Artifacts

Doc(key, status, rules) ==
  [key |-> key, status |-> status, rules |-> rules, text |-> "original"]

FirstVersion == Doc("v1.0", "ratified", {"ET-VER-004"})
SecondVersion == Doc("v1.1", "draft", {"ET-VER-004", "ET-VER-005"})

MCContracts == [key \in Key |-> IF key = "v1.0" THEN {FirstVersion} ELSE {SecondVersion}]

MCAmendments ==
  [id \in AmendmentId |->
     {[id |-> id, base |-> "v1.0", affects |-> {"ET-VER-004"}, proper |-> TRUE]}]

MCCodes == [code \in ReasonCode |->
              IF code = "unsupported_claim" THEN "ET-VER-004" ELSE "ET-VER-005"]

===============================================================================
