----------------------------- MODULE MCManagerJobs -----------------------------
(* Small instances of ManagerJobs: a tick that wraps after a few periods.   *)
EXTENDS ManagerJobs

CONSTANTS LatDiscovery, LatAttributes, LatAlarms

MCLatency == [j \in Jobs |-> CASE j = "discovery"  -> LatDiscovery
                               [] j = "attributes" -> LatAttributes
                               [] j = "alarms"     -> LatAlarms]
================================================================================
