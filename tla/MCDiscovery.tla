------------------------------ MODULE MCDiscovery ------------------------------
(***************************************************************************)
(* Instances of Discovery for TLC.  MCDiscovery walks two nodes in two     *)
(* jobs.  MCDiscoveryPasses walks one node in three, so that an attribute  *)
(* is read twice and a network discovered again, and loses one update or   *)
(* overwrites one return code (MaxFaults).  MCDiscoveryLate lets an old    *)
(* answer meet a new one; with MaxStray 0 an answer that outlives its      *)
(* request is the last to come.  MaxReq is never reached: a discovery of N *)
(* nodes with E endpoints issues at most 2 + N + N * E requests, a pass    *)
(* N * E * C * A.                                                          *)
(***************************************************************************)
EXTENDS Discovery

MCAddr == 1 .. 2
MCOne == {1}

================================================================================
