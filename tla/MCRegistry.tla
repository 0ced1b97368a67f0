----------------------------- MODULE MCRegistry -----------------------------
(* Registry needs no more than values for its constants. *)
EXTENDS Registry
=============================================================================
