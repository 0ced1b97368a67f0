-------------------------- MODULE MissionLifecycle --------------------------
(***************************************************************************)
(* What one daemon mission promises its operator (src/daemon/mod.rs,       *)
(* mission_loop), without queues, recorders or runner threads: attempts    *)
(* follow one another, a mission rests only when its latest attempt is on  *)
(* file, a held mission starts nothing, and every rescue retry is worth    *)
(* one attempt that overrides the repeat-failure gate.                     *)
(***************************************************************************)

VARIABLES
    phase,   \* "ready", "running", "resting", "held" or "ended"
    grant,   \* the next or current attempt overrides the gate
    filed    \* the latest attempt is on file, or its write failure reported

vars == <<phase, grant, filed>>

TypeOK ==
    /\ phase \in {"ready", "running", "resting", "held", "ended"}
    /\ grant \in BOOLEAN
    /\ filed \in BOOLEAN

Init ==
    /\ phase = "ready"
    /\ grant = FALSE
    /\ filed = FALSE

(* An attempt starts and the record of the previous one is no longer the
   latest. *)
Start ==
    /\ phase = "ready"
    /\ phase' = "running"
    /\ filed' = FALSE
    /\ UNCHANGED grant

(* The attempt could not even start, or it completed: it is put on file and
   has used up its grant. *)
Close ==
    /\ phase \in {"ready", "running"}
    /\ phase' = "resting"
    /\ filed' = TRUE
    /\ grant' = FALSE

(* The wake-up time of a scheduled mission has come. *)
Wake ==
    /\ phase = "resting"
    /\ phase' = "ready"
    /\ UNCHANGED <<grant, filed>>

(* A rescue retry: the only way to a grant. *)
Retry ==
    /\ phase \in {"running", "resting", "held"}
    /\ phase' = "ready"
    /\ grant' = TRUE
    /\ UNCHANGED filed

(* A hold takes the grant of the attempt it interrupts. *)
Hold ==
    /\ phase \in {"running", "resting"}
    /\ phase' = "held"
    /\ grant' = FALSE
    /\ UNCHANGED filed

(* A held mission may go back to rest only with its latest attempt on file;
   otherwise resuming it starts another attempt. *)
Resume ==
    /\ phase = "held"
    /\ \/ phase' = "ready"
       \/ filed /\ phase' = "resting"
    /\ UNCHANGED <<grant, filed>>

Abort ==
    /\ phase \in {"running", "resting", "held"}
    /\ phase' = "ended"
    /\ grant' = FALSE
    /\ UNCHANGED filed

Next == Start \/ Close \/ Wake \/ Retry \/ Hold \/ Resume \/ Abort

Spec == Init /\ [][Next]_vars
============================================================================
