---------------------------- MODULE MCHostCalls ----------------------------
(* HostCalls needs no more than values for its constants. *)
EXTENDS HostCalls
============================================================================
