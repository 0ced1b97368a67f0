---------------------------- MODULE WatchStream ----------------------------
(***************************************************************************)
(* The event stream of one daemon mission, from its launch on: the         *)
(* recorder appends each event to the events file and to a capped history  *)
(* and sends it to a broadcast channel (MissionRecorder::record), watchers *)
(* subscribe, replay the history and follow the channel (cmd_watch), or    *)
(* read the file once the mission has been removed from the registry.      *)
(*                                                                         *)
(* An event is its sequence number; its line is its length.  Steps of the  *)
(* recorder and of the watchers interleave wherever the code gives up the  *)
(* lock of the history or of the registry.                                 *)
(***************************************************************************)
EXTENDS Integers, Sequences, Functions

CONSTANTS
    Watcher,      \* connections that watch the mission
    MaxHistory,   \* MAX_HISTORY_EVENTS
    MaxBytes,     \* MAX_HISTORY_BYTES
    RingSize,     \* BROADCAST_CAPACITY
    Length,       \* of the lines the mission records
    MaxEvents     \* bound: events recorded in a behaviour

ASSUME CapAssumption ==
    /\ MaxHistory \in Nat
    /\ MaxBytes \in Nat
    /\ RingSize \in Nat \ {0}
    /\ Length \subseteq Nat
    /\ MaxEvents \in Nat

None == -1

VARIABLES
    running,   \* the mission's task lives, and the recorder with it
    listed,    \* the mission is in the registry
    history,   \* MissionHistory, its events and next_seq ...
    bytes,     \* ... and its byte count
    fresh,     \* the event that is in the history and not yet sent
    file,      \* lines of the events file; ok: it can still be written
    conn,      \* of each watcher: cmd_watch and its receiver
    seen,      \* history: events written to each watcher
    told,      \* history: the watchers whose lag was logged
    lengths    \* history: the lengths of all lines recorded

vars == <<running, listed, history, bytes, fresh, file, conn, seen, told, lengths>>

----------------------------------------------------------------------------
(* pc: "away" before the command, "subscribed" between the registry's lock
   and the history's, "watching" until "closed", or "reading" the file until
   "done", and "left" when a write failed.  todo: lines of the snapshot or of
   the file still to be written; cutoff: where they end.  rx, lag: the
   receiver's unread events, and whether it has lost any since it was last
   told. *)
Conn(pc) == [pc |-> pc, todo |-> <<>>, cutoff |-> 0, rx |-> <<>>, lag |-> FALSE]

Sum(s) == FoldFunction(+, 0, s)

Init ==
    /\ running = TRUE
    /\ listed = TRUE
    /\ history = [events |-> <<>>, next_seq |-> 0]
    /\ bytes = 0
    /\ fresh = None
    /\ file = [lines |-> 0, ok |-> TRUE]
    /\ conn = [w \in Watcher |-> Conn("away")]
    /\ seen = [w \in Watcher |-> <<>>]
    /\ told = {}
    /\ lengths = <<>>

----------------------------------------------------------------------------
(* MissionHistory::append of a line of length n: the event gets the next
   number, then events are dropped from the front until the rest fits. *)
Pushed(n) == Append(history.events, [seq |-> history.next_seq, len |-> n])
(* Mutant: an evicted line keeps its bytes. *)
BytesKept(es, k, n) == bytes + n

BytesLeft(es, k, n) == bytes + n - Sum([i \in 1..k |-> es[i].len])
Fits(es, k, n) == Len(es) - k <= MaxHistory /\ BytesLeft(es, k, n) <= MaxBytes

AppendLine(n) ==
    LET es == Pushed(n)
    IN  \E k \in 0..Len(es) :
           /\ Fits(es, k, n) \/ k = Len(es)
           /\ \A j \in 0..(k - 1) : ~Fits(es, j, n)
           /\ history' = [events |-> SubSeq(es, k + 1, Len(es)),
                          next_seq |-> history.next_seq + 1]
           /\ bytes' = BytesLeft(es, k, n)

(* MissionRecorder::record up to the history's lock.  Once a write to the
   file has failed, the file is given up. *)
Record(n, written) ==
    /\ running
    /\ fresh = None
    /\ history.next_seq < MaxEvents
    /\ AppendLine(n)
    /\ fresh' = history.next_seq
    /\ file' = IF file.ok /\ written THEN [file EXCEPT !.lines = @ + 1]
                                     ELSE [file EXCEPT !.ok = FALSE]
    /\ lengths' = Append(lengths, n)
    /\ UNCHANGED <<running, listed, conn, seen, told>>

(* The broadcast channel: a receiver that is RingSize behind loses its
   oldest unread event. *)
Queued(rx, e) == IF Len(rx) < RingSize THEN Append(rx, e) ELSE Append(Tail(rx), e)

Subscribed(w) == conn[w].pc \in {"subscribed", "watching"}

(* MissionRecorder::record: event_tx.send *)
Send ==
    /\ fresh # None
    /\ conn' = [w \in Watcher |->
                  IF Subscribed(w)
                  THEN [conn[w] EXCEPT !.rx = Queued(@, fresh),
                                       !.lag = @ \/ Len(conn[w].rx) = RingSize]
                  ELSE conn[w]]
    /\ fresh' = None
    /\ UNCHANGED <<running, listed, history, bytes, file, seen, told, lengths>>

(* mission_loop returns: recorder, file and its sender are dropped first, the
   cleanup guard after them. *)
End ==
    /\ running
    /\ fresh = None
    /\ running' = FALSE
    /\ UNCHANGED <<listed, history, bytes, fresh, file, conn, seen, told, lengths>>

(* remove_mission drops the handle, and the sender in it. *)
Cleanup ==
    /\ ~running
    /\ listed
    /\ listed' = FALSE
    /\ UNCHANGED <<running, history, bytes, fresh, file, conn, seen, told, lengths>>

----------------------------------------------------------------------------
(* cmd_watch, under the registry's lock *)
Subscribe(w) ==
    /\ conn[w].pc = "away"
    /\ listed
    /\ conn' = [conn EXCEPT ![w].pc = "subscribed"]
    /\ UNCHANGED <<running, listed, history, bytes, fresh, file, seen, told, lengths>>

(* Mutant: the cutoff is the number of the last event of the snapshot. *)
SnapshotToLast(w) ==
    /\ conn[w].pc = "subscribed"
    /\ conn' = [conn EXCEPT
                  ![w].pc = "watching",
                  ![w].todo = [i \in 1..Len(history.events) |-> history.events[i].seq],
                  ![w].cutoff = history.next_seq - 1]
    /\ UNCHANGED <<running, listed, history, bytes, fresh, file, seen, told, lengths>>

(* MissionHistory::snapshot, under the history's lock *)
Snapshot(w) ==
    /\ conn[w].pc = "subscribed"
    /\ conn' = [conn EXCEPT
                  ![w].pc = "watching",
                  ![w].todo = [i \in 1..Len(history.events) |-> history.events[i].seq],
                  ![w].cutoff = history.next_seq]
    /\ UNCHANGED <<running, listed, history, bytes, fresh, file, seen, told, lengths>>

(* A mission that is no longer listed: the whole file is read.  A tokio file
   is written in the background and nobody flushes this one, so its last line
   may still be missing. *)
ReadFile(w) ==
    /\ conn[w].pc = "away"
    /\ ~listed
    /\ \E n \in 0..file.lines :
          /\ n >= file.lines - 1
          /\ conn' = [conn EXCEPT ![w].pc = "reading",
                                  ![w].todo = [i \in 1..n |-> i - 1],
                                  ![w].cutoff = n]
    /\ UNCHANGED <<running, listed, history, bytes, fresh, file, seen, told, lengths>>

(* The next line of the snapshot or of the file is written. *)
WriteLine(w) ==
    /\ conn[w].todo # <<>>
    /\ seen' = [seen EXCEPT ![w] = Append(@, Head(conn[w].todo))]
    /\ conn' = [conn EXCEPT ![w].todo = Tail(@)]
    /\ UNCHANGED <<running, listed, history, bytes, fresh, file, told, lengths>>

(* The snapshot is written and the receiver has news. *)
Receiving(w) == conn[w].pc = "watching" /\ conn[w].todo = <<>>
Receivable(w) == Receiving(w) /\ ~conn[w].lag /\ conn[w].rx # <<>>

(* Mutant: the event at the cutoff is taken for one of the snapshot. *)
UpToCutoff(w) == Head(conn[w].rx) <= conn[w].cutoff
InSnapshot(w) == Head(conn[w].rx) < conn[w].cutoff

SkipEvent(w) ==
    /\ Receivable(w)
    /\ InSnapshot(w)
    /\ conn' = [conn EXCEPT ![w].rx = Tail(@)]
    /\ UNCHANGED <<running, listed, history, bytes, fresh, file, seen, told, lengths>>

WriteEvent(w) ==
    /\ Receivable(w)
    /\ ~InSnapshot(w)
    /\ seen' = [seen EXCEPT ![w] = Append(@, Head(conn[w].rx))]
    /\ conn' = [conn EXCEPT ![w].rx = Tail(@)]
    /\ UNCHANGED <<running, listed, history, bytes, fresh, file, told, lengths>>

(* Mutant: any error of the receiver ends the stream. *)
LagEnds(w) ==
    /\ Receiving(w)
    /\ conn[w].lag
    /\ conn' = [conn EXCEPT ![w].pc = "closed"]
    /\ told' = told \cup {w}
    /\ UNCHANGED <<running, listed, history, bytes, fresh, file, seen, lengths>>

(* RecvError::Lagged *)
Lagged(w) ==
    /\ Receiving(w)
    /\ conn[w].lag
    /\ conn' = [conn EXCEPT ![w].lag = FALSE]
    /\ told' = told \cup {w}
    /\ UNCHANGED <<running, listed, history, bytes, fresh, file, seen, lengths>>

(* Mutant: a watcher keeps a sender of its own. *)
SenderInWatch == ~running /\ ~listed /\ \A w \in Watcher : ~Subscribed(w)

(* RecvError::Closed: all senders are gone and all events read. *)
NoSender == ~running /\ ~listed

Closed(w) ==
    /\ Receiving(w)
    /\ ~conn[w].lag /\ conn[w].rx = <<>>
    /\ NoSender
    /\ conn' = [conn EXCEPT ![w].pc = "closed"]
    /\ UNCHANGED <<running, listed, history, bytes, fresh, file, seen, told, lengths>>

FileWritten(w) ==
    /\ conn[w].pc = "reading"
    /\ conn[w].todo = <<>>
    /\ conn' = [conn EXCEPT ![w].pc = "done"]
    /\ UNCHANGED <<running, listed, history, bytes, fresh, file, seen, told, lengths>>

(* write_resp fails: the client is gone, which only a write finds out. *)
WriteFails(w) ==
    /\ conn[w].todo # <<>> \/ (Receivable(w) /\ ~InSnapshot(w))
    /\ conn' = [conn EXCEPT ![w] = Conn("left")]
    /\ UNCHANGED <<running, listed, history, bytes, fresh, file, seen, told, lengths>>

----------------------------------------------------------------------------
Recorder == (\E n \in Length, written \in BOOLEAN : Record(n, written)) \/ Send

Follow(w) ==
    \/ Snapshot(w) \/ WriteLine(w) \/ SkipEvent(w) \/ WriteEvent(w)
    \/ Lagged(w) \/ Closed(w) \/ FileWritten(w)

Watch(w) == Subscribe(w) \/ ReadFile(w) \/ Follow(w) \/ WriteFails(w)

Next == Recorder \/ End \/ Cleanup \/ \E w \in Watcher : Watch(w)

Spec == Init /\ [][Next]_vars

(* The task of a connection and the cleanup task are scheduled, and a client
   that stays reads what it is sent; missions need not end. *)
Fairness ==
    /\ WF_vars(Send)
    /\ WF_vars(Cleanup)
    /\ \A w \in Watcher : WF_vars(Follow(w))

FairSpec == Spec /\ Fairness

----------------------------------------------------------------------------
EventType == [seq : Nat, len : Nat]
ConnType ==
    [pc : {"away", "subscribed", "watching", "closed", "reading", "done", "left"},
     todo : Seq(Nat), cutoff : Nat, rx : Seq(Nat), lag : BOOLEAN]

(* Every variable but bytes, of which HistoryIsRecent says all there is to
   say, stays in its type and no receiver holds more unread events
   than the broadcast channel. *)
TypeOK ==
    /\ running \in BOOLEAN
    /\ listed \in BOOLEAN
    /\ history \in [events : Seq(EventType), next_seq : Nat]
    /\ fresh \in Nat \cup {None}
    /\ file \in [lines : Nat, ok : BOOLEAN]
    /\ conn \in [Watcher -> ConnType]
    /\ \A w \in Watcher : Len(conn[w].rx) <= RingSize
    /\ seen \in [Watcher -> Seq(Nat)]
    /\ told \subseteq Watcher
    /\ lengths \in Seq(Length)

(* MissionHistory::append: the history is always the longest end of all that
   was recorded that is within both limits, so that its head moves no further
   than needed and the byte count never drifts from what it holds. *)
Retained(k) == SubSeq(lengths, Len(lengths) - k + 1, Len(lengths))
HistoryIsRecent ==
    LET k == Len(history.events)
    IN  /\ [i \in 1..k |-> history.events[i].len] = Retained(k)
        /\ [i \in 1..k |-> history.events[i].seq] =
               [i \in 1..k |-> Len(lengths) - k + i - 1]
        /\ bytes = Sum(Retained(k))
        /\ k <= MaxHistory /\ bytes <= MaxBytes
        /\ \A j \in (k + 1)..Len(lengths) :
               j > MaxHistory \/ Sum(Retained(j)) > MaxBytes

(* cmd_watch: no watcher gets an event twice or after a later one, although
   the snapshot and the channel overlap. *)
InOrder ==
    \A w \in Watcher : \A i, j \in 1..Len(seen[w]) : i < j => seen[w][i] < seen[w][j]

(* The events that watcher w is still to get: of its snapshot or file, and of
   the channel with what is about to be sent. *)
Elements(s) == {s[i] : i \in 1..Len(s)}
Owed(c, next) ==
    IF c.pc = "watching"
    THEN Elements(c.todo) \cup
            {e \in Elements(c.rx) \cup ({next} \ {None}) : e >= c.cutoff}
    ELSE Elements(c.todo)
Due(w) == Owed(conn[w], fresh)

(* cmd_watch: from the first event a watcher of a live mission gets, and from
   its snapshot at the latest, it misses none, neither at the seam of snapshot
   and channel nor at the end, unless the daemon logged that it lagged or is
   about to. *)
MissedMeansLagged ==
    \A w \in Watcher :
        conn[w].pc \in {"watching", "closed"} /\ ~conn[w].lag /\ w \notin told =>
            LET got == Elements(seen[w]) \cup Due(w)
            IN  \A e \in got \cup {conn[w].cutoff} :
                    e..(history.next_seq - 1) \subseteq got

(* When a mission is gone, the stream of each of its watchers ends. *)
StreamsEnd ==
    \A w \in Watcher :
        ~listed /\ conn[w].pc # "away" ~> conn[w].pc \in {"closed", "done", "left"}

(* The stream keeps the promises of MissionFeed: what the clients get is in
   order and complete but for events that are a whole channel old. *)
Phase(w) ==
    CASE conn[w].pc \in {"away", "subscribed"} -> "away"
      [] conn[w].pc = "watching" -> "live"
      [] conn[w].pc = "reading" -> "replay"
      [] conn[w].pc = "closed" -> "done"
      [] OTHER -> conn[w].pc

Feed == INSTANCE MissionFeed WITH
    Window <- RingSize,
    recorded <- history.next_seq,
    over <- ~running,
    phase <- [w \in Watcher |-> Phase(w)],
    due <- [w \in Watcher |-> Due(w)]

ImplementsFeed == Feed!Spec
============================================================================
