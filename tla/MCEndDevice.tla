------------------------------ MODULE MCEndDevice ------------------------------
(* Three networks, each heard through one coordinator only. *)
EXTENDS EndDevice

MCParents == {"gateway", "other", "third"}
MCPanOf == [p \in MCParents |-> IF p = "gateway" THEN 1 ELSE IF p = "other" THEN 2 ELSE 3]
================================================================================
