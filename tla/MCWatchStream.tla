--------------------------- MODULE MCWatchStream ---------------------------
(* WatchStream needs no more than values for its limits. *)
EXTENDS WatchStream
============================================================================
