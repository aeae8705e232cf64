-------------------------------- MODULE Stores --------------------------------
(***************************************************************************)
(* The stores that the service does not use, side by side: the three of      *)
(* governance/storage.py and PolicyVersionStore of governance/versioning.py. *)
(* They share nothing, and a behaviour is about one of them.                 *)
(***************************************************************************)
EXTENDS JsonStore, JsonlStore, AuditTable, PolicyVersions

VARIABLE used    \* the store this behaviour is about

Names == {"json", "jsonl", "audit", "versions"}

vars == <<used, jsonVars, jsonlVars, auditVars, versionsVars>>

Init ==
    /\ used \in Names
    /\ JsonInit
    /\ JsonlInit
    /\ AuditInit
    /\ VersionsInit

Next ==
    \/ /\ used = "json" /\ JsonNext
       /\ UNCHANGED <<used, jsonlVars, auditVars, versionsVars>>
    \/ /\ used = "jsonl" /\ JsonlNext
       /\ UNCHANGED <<used, jsonVars, auditVars, versionsVars>>
    \/ /\ used = "audit" /\ AuditNext
       /\ UNCHANGED <<used, jsonVars, jsonlVars, versionsVars>>
    \/ /\ used = "versions" /\ VersionsNext
       /\ UNCHANGED <<used, jsonVars, jsonlVars, auditVars>>

Spec == Init /\ [][Next]_vars

\* Every variable of the stores has its type.
TypeOK ==
    /\ used \in Names
    /\ JsonTypeOK
    /\ JsonlTypeOK
    /\ AuditTypeOK
    /\ VersionsTypeOK
=============================================================================
