---------------------------- MODULE MissionFeed ----------------------------
(***************************************************************************)
(* What `watch` promises the clients of one daemon mission                 *)
(* (src/daemon/mod.rs, cmd_watch), without history, channels or files:     *)
(* a client that joins is owed the recent events and every event recorded  *)
(* from then on, gets them in order and once, and can lose only events     *)
(* that are at least Window events old.                                    *)
(***************************************************************************)
EXTENDS Integers, Sequences

CONSTANTS
    Watcher,   \* the clients
    Window     \* events a client may fall behind and lose nothing

VARIABLES
    recorded,  \* events recorded so far; their numbers are 0..recorded-1
    over,      \* the mission has ended
    phase,     \* of each watcher: "away", "live", "replay", "done", "left"
    due,       \* the events each watcher is still to get
    seen       \* the events it got

vars == <<recorded, over, phase, due, seen>>

Init ==
    /\ recorded = 0
    /\ over = FALSE
    /\ phase = [w \in Watcher |-> "away"]
    /\ due = [w \in Watcher |-> {}]
    /\ seen = [w \in Watcher |-> <<>>]

Record ==
    /\ ~over
    /\ recorded' = recorded + 1
    /\ due' = [w \in Watcher |->
                 IF phase[w] = "live" THEN due[w] \cup {recorded} ELSE due[w]]
    /\ UNCHANGED <<over, phase, seen>>

(* Watchers that are too far behind lose events, never one of the newest. *)
Overrun ==
    /\ \E lost \in [Watcher -> SUBSET (0..(recorded - Window - 1))] :
          due' = [w \in Watcher |-> due[w] \ lost[w]]
    /\ UNCHANGED <<recorded, over, phase, seen>>

End ==
    /\ ~over
    /\ over' = TRUE
    /\ UNCHANGED <<recorded, phase, due, seen>>

(* A client joins the live mission: some number of the latest events first. *)
Join(w) ==
    /\ phase[w] = "away"
    /\ \E first \in 0..recorded :
          due' = [due EXCEPT ![w] = first..(recorded - 1)]
    /\ phase' = [phase EXCEPT ![w] = "live"]
    /\ UNCHANGED <<recorded, over, seen>>

(* A client asks for an ended mission: what its file has of the events. *)
Replay(w) ==
    /\ phase[w] = "away"
    /\ over
    /\ \E lines \in 0..recorded : due' = [due EXCEPT ![w] = 0..(lines - 1)]
    /\ phase' = [phase EXCEPT ![w] = "replay"]
    /\ UNCHANGED <<recorded, over, seen>>

Deliver(w) ==
    /\ phase[w] \in {"live", "replay"}
    /\ \E e \in due[w] :
          /\ \A d \in due[w] : e <= d
          /\ seen' = [seen EXCEPT ![w] = Append(@, e)]
          /\ due' = [due EXCEPT ![w] = @ \ {e}]
    /\ UNCHANGED <<recorded, over, phase>>

(* The stream ends, with nothing owed. *)
Finish(w) ==
    /\ phase[w] \in {"live", "replay"}
    /\ over
    /\ due[w] = {}
    /\ phase' = [phase EXCEPT ![w] = "done"]
    /\ UNCHANGED <<recorded, over, due, seen>>

(* The client is gone. *)
Leave(w) ==
    /\ phase[w] \in {"live", "replay"}
    /\ phase' = [phase EXCEPT ![w] = "left"]
    /\ due' = [due EXCEPT ![w] = {}]
    /\ UNCHANGED <<recorded, over, seen>>

Next ==
    \/ Record \/ Overrun \/ End
    \/ \E w \in Watcher : Join(w) \/ Replay(w) \/ Deliver(w) \/ Finish(w) \/ Leave(w)

Spec == Init /\ [][Next]_vars
============================================================================
