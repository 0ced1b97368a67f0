------------------------- MODULE WatchStream_proofs -------------------------
(***************************************************************************)
(* Proofs about WatchStream for every number of watchers, every capacity   *)
(* of channel and history and every length of line: what a watcher holds   *)
(* unread is always an interval of event numbers that joins the interval   *)
(* of its snapshot, from which order, completeness and the refinement of   *)
(* MissionFeed follow.  The history is always the longest end of what was  *)
(* recorded that is within its limits.                                     *)
(***************************************************************************)
EXTENDS WatchStream, SequenceTheorems, FiniteSetTheorems, WellFoundedInduction, TLAPS

(* The events sent to the channel are those before Sent. *)
Sent == IF fresh = None THEN history.next_seq ELSE history.next_seq - 1

(* s holds the numbers up to end, without a gap. *)
UpTo(s, end) ==
    /\ Len(s) <= end
    /\ \A i \in 1..Len(s) : s[i] = end - Len(s) + i - 1

MissionInv ==
    /\ ~listed => ~running
    /\ fresh # None => running /\ fresh = history.next_seq - 1
    /\ file.lines <= history.next_seq
    /\ Len(history.events) <= history.next_seq
    /\ \A i \in 1..Len(history.events) :
          history.events[i].seq = history.next_seq - Len(history.events) + i - 1

(* Where a watcher stands, the snapshot or file lines it holds and the unread
   events of its receiver. *)
ConnInv(w) ==
    /\ conn[w].pc \in {"away", "subscribed"} => seen[w] = <<>>
    /\ conn[w].pc = "away" => conn[w].rx = <<>>
    /\ conn[w].pc \in {"subscribed", "watching"} => UpTo(conn[w].rx, Sent)
    /\ conn[w].pc = "watching" =>
          conn[w].cutoff <= history.next_seq /\ UpTo(conn[w].todo, conn[w].cutoff)
    /\ conn[w].pc = "reading" =>
          conn[w].cutoff <= file.lines /\ UpTo(conn[w].todo, conn[w].cutoff)
    /\ conn[w].pc \notin {"watching", "reading"} => conn[w].todo = <<>>
    /\ conn[w].pc \in {"reading", "closed", "done"} => ~listed

(* What a watcher got is in order and before all it is still to get. *)
SeenInv(w) ==
    /\ \A i, j \in 1..Len(seen[w]) : i < j => seen[w][i] < seen[w][j]
    /\ \A i \in 1..Len(seen[w]) :
          /\ seen[w][i] < history.next_seq
          /\ \A d \in Due(w) : seen[w][i] < d

Got(w) == Elements(seen[w]) \cup Due(w)

(* ... and without a gap, unless the watcher has lagged. *)
GapInv(w) ==
    conn[w].pc \in {"watching", "closed"} /\ ~conn[w].lag /\ w \notin told =>
        \A e \in Got(w) \cup {conn[w].cutoff} :
            \A x \in e..(history.next_seq - 1) : x \in Got(w)

WatchInv(w) == ConnInv(w) /\ SeenInv(w) /\ GapInv(w)

IInv == TypeOK /\ MissionInv /\ \A w \in Watcher : WatchInv(w)

----------------------------------------------------------------------------
LEMMA Tuple ==
    ASSUME NEW n \in Nat, NEW f \in [1..n -> Nat]
    PROVE  f \in Seq(Nat) /\ Len(f) = n
BY SeqDef

LEMMA IntervalTail ==
    ASSUME NEW a \in Int, NEW b \in Int
    PROVE  (a + 1)..b = (a..b) \ {a}
OBVIOUS

(* Sequences that hold the numbers up to an end. *)
LEMMA UpToElements ==
    ASSUME NEW s \in Seq(Nat), NEW end \in Nat, UpTo(s, end)
    PROVE  Elements(s) = (end - Len(s))..(end - 1)
<1>1. ASSUME NEW x \in Elements(s)
      PROVE  x \in (end - Len(s))..(end - 1)
    <2>1. PICK i \in 1..Len(s) : x = s[i] BY DEF Elements
    <2>2. Len(s) \in Nat OBVIOUS
    <2> QED BY <2>1, <2>2 DEF UpTo
<1>2. ASSUME NEW x \in (end - Len(s))..(end - 1)
      PROVE  x \in Elements(s)
    <2> DEFINE i == x - end + Len(s) + 1
    <2>1. i \in 1..Len(s) OBVIOUS
    <2>2. s[i] = x BY <2>1 DEF UpTo
    <2> QED BY <2>1, <2>2 DEF Elements
<1> QED BY <1>1, <1>2

LEMMA UpToTail ==
    ASSUME NEW s \in Seq(Nat), NEW end \in Nat, UpTo(s, end), s # <<>>
    PROVE  /\ Tail(s) \in Seq(Nat)
           /\ Len(Tail(s)) = Len(s) - 1
           /\ Head(s) = end - Len(s)
           /\ Head(s) \in Nat
           /\ UpTo(Tail(s), end)
<1>1. Len(s) \in Nat \ {0} OBVIOUS
<1>2. /\ Tail(s) \in Seq(Nat)
      /\ Len(Tail(s)) = Len(s) - 1
      /\ \A i \in 1..Len(Tail(s)) : Tail(s)[i] = s[i + 1]
      /\ Head(s) = s[1]
    BY <1>1
<1> QED BY <1>1, <1>2 DEF UpTo

LEMMA UpToAppend ==
    ASSUME NEW s \in Seq(Nat), NEW end \in Nat, UpTo(s, end)
    PROVE  /\ Append(s, end) \in Seq(Nat)
           /\ Len(Append(s, end)) = Len(s) + 1
           /\ UpTo(Append(s, end), end + 1)
<1>1. /\ Append(s, end) \in Seq(Nat)
      /\ Len(Append(s, end)) = Len(s) + 1
      /\ \A i \in 1..Len(s) : Append(s, end)[i] = s[i]
      /\ Append(s, end)[Len(s) + 1] = end
    OBVIOUS
<1> QED BY <1>1 DEF UpTo

LEMMA AppendElements ==
    ASSUME NEW s \in Seq(Nat), NEW e \in Nat
    PROVE  Elements(Append(s, e)) = Elements(s) \cup {e}
<1>1. /\ Len(Append(s, e)) = Len(s) + 1
      /\ \A i \in 1..Len(s) : Append(s, e)[i] = s[i]
      /\ Append(s, e)[Len(s) + 1] = e
    OBVIOUS
<1> QED BY <1>1 DEF Elements

(* What a watcher is owed: the rest of its snapshot, and of what follows the
   cutoff all that its receiver has and will have. *)
LEMMA OwedWatching ==
    ASSUME NEW c \in ConnType, NEW f \in Nat \cup {None}, NEW n \in Nat, NEW sent \in Nat,
           c.pc = "watching", c.cutoff <= n,
           f = None => sent = n, f # None => sent = n - 1 /\ f = sent,
           UpTo(c.rx, sent), UpTo(c.todo, c.cutoff)
    PROVE  Owed(c, f) = ((c.cutoff - Len(c.todo))..(c.cutoff - 1))
                          \cup {e \in (sent - Len(c.rx))..(n - 1) : e >= c.cutoff}
<1>1. /\ c.todo \in Seq(Nat) /\ c.rx \in Seq(Nat) /\ c.cutoff \in Nat
      /\ Len(c.rx) \in Nat /\ Len(c.rx) <= sent
    BY DEF ConnType, UpTo
<1>2. Elements(c.todo) = (c.cutoff - Len(c.todo))..(c.cutoff - 1)
    BY <1>1, UpToElements
<1>3. Elements(c.rx) = (sent - Len(c.rx))..(sent - 1)
    BY <1>1, UpToElements
<1>4. Elements(c.rx) \cup ({f} \ {None}) = (sent - Len(c.rx))..(n - 1)
    BY <1>1, <1>3 DEF None
<1> QED BY <1>2, <1>4 DEF Owed

----------------------------------------------------------------------------
(* Type correctness. *)
LEMMA ConnUpdate ==
    ASSUME TypeOK, NEW w \in Watcher, NEW c \in ConnType,
           Len(c.rx) <= RingSize, conn' = [conn EXCEPT ![w] = c]
    PROVE  /\ conn' \in [Watcher -> ConnType]
           /\ \A v \in Watcher : Len(conn'[v].rx) <= RingSize
BY DEF TypeOK

LEMMA QueuedType ==
    ASSUME NEW q \in Seq(Nat), Len(q) <= RingSize, NEW e \in Nat
    PROVE  /\ Queued(q, e) \in Seq(Nat)
           /\ Len(Queued(q, e)) <= RingSize
BY CapAssumption DEF Queued

LEMMA RecordType ==
    ASSUME TypeOK, NEW n \in Length, NEW written \in BOOLEAN, Record(n, written)
    PROVE  TypeOK'
<1>1. PICK k \in 0..Len(Pushed(n)) :
         history' = [events |-> SubSeq(Pushed(n), k + 1, Len(Pushed(n))),
                     next_seq |-> history.next_seq + 1]
    BY DEF Record, AppendLine
<1>2. n \in Nat BY CapAssumption
<1>3. Pushed(n) \in Seq(EventType)
    BY <1>2 DEF TypeOK, Pushed, EventType
<1>4. SubSeq(Pushed(n), k + 1, Len(Pushed(n))) \in Seq(EventType)
    <2>1. \A i \in (k + 1)..Len(Pushed(n)) : Pushed(n)[i] \in EventType
        BY <1>3, ElementOfSeq
    <2>2. k \in Int /\ Len(Pushed(n)) \in Nat BY <1>3
    <2> QED BY <2>1, <2>2, SubSeqProperties
<1>5. history' \in [events : Seq(EventType), next_seq : Nat]
    BY <1>1, <1>4 DEF TypeOK
<1>6. fresh' \in Nat \cup {None} BY DEF TypeOK, Record
<1>7. file' \in [lines : Nat, ok : BOOLEAN]
    <2>1. file \in [lines : Nat, ok : BOOLEAN] BY DEF TypeOK
    <2>2. CASE file' = [file EXCEPT !.lines = @ + 1]
        BY <2>1, <2>2
    <2>3. CASE file' = [file EXCEPT !.ok = FALSE]
        BY <2>1, <2>3
    <2> QED BY <2>2, <2>3 DEF Record
<1>8. lengths' \in Seq(Length)
    BY DEF TypeOK, Record
<1> QED BY <1>5, <1>6, <1>7, <1>8 DEF TypeOK, Record

LEMMA SendType ==
    ASSUME TypeOK, Send
    PROVE  TypeOK'
<1>1. fresh \in Nat /\ fresh' = None BY DEF TypeOK, Send
<1>2. ASSUME NEW w \in Watcher
      PROVE  conn'[w] \in ConnType /\ Len(conn'[w].rx) <= RingSize
    <2>1. conn[w] \in ConnType /\ Len(conn[w].rx) <= RingSize BY DEF TypeOK
    <2>2. CASE ~Subscribed(w)
        BY <2>1, <2>2 DEF Send
    <2>3. CASE Subscribed(w)
        <3>1. conn'[w] = [conn[w] EXCEPT !.rx = Queued(@, fresh),
                                         !.lag = @ \/ Len(conn[w].rx) = RingSize]
            BY <2>3 DEF Send
        <3>2. Queued(conn[w].rx, fresh) \in Seq(Nat)
              /\ Len(Queued(conn[w].rx, fresh)) <= RingSize
            BY <1>1, <2>1, QueuedType DEF ConnType
        <3> QED BY <2>1, <3>1, <3>2 DEF ConnType
    <2> QED BY <2>2, <2>3
<1>3. conn' \in [Watcher -> ConnType] BY <1>2 DEF Send
<1> QED BY <1>1, <1>2, <1>3 DEF TypeOK, Send

LEMMA WatchType ==
    ASSUME TypeOK, NEW w \in Watcher, Watch(w)
    PROVE  TypeOK'
<1> DEFINE c == conn[w]
<1>1. c \in ConnType /\ Len(c.rx) <= RingSize BY DEF TypeOK
<1>2. CASE Subscribe(w)
    <2>1. [c EXCEPT !.pc = "subscribed"] \in ConnType BY <1>1 DEF ConnType
    <2> QED BY <1>1, <1>2, <2>1, ConnUpdate DEF Subscribe, TypeOK
<1>3. CASE ReadFile(w)
    <2>1. PICK n \in 0..file.lines :
            conn' = [conn EXCEPT ![w].pc = "reading",
                                 ![w].todo = [i \in 1..n |-> i - 1],
                                 ![w].cutoff = n]
        BY <1>3 DEF ReadFile
    <2> DEFINE s == [i \in 1..n |-> i - 1]
               d == [c EXCEPT !.pc = "reading", !.todo = s, !.cutoff = n]
    <2>2. n \in Nat /\ s \in [1..n -> Nat] BY DEF TypeOK
    <2>3. s \in Seq(Nat) BY <2>1, <2>2, Tuple
    <2>4. d \in ConnType /\ Len(d.rx) <= RingSize
        <3> HIDE DEF s
        <3> QED BY <1>1, <2>2, <2>3 DEF ConnType
    <2>5. conn' = [conn EXCEPT ![w] = d] BY <1>1, <2>1 DEF TypeOK, ConnType
    <2>6. /\ conn' \in [Watcher -> ConnType]
          /\ \A v \in Watcher : Len(conn'[v].rx) <= RingSize
        <3> HIDE DEF d
        <3> QED BY <2>4, <2>5, ConnUpdate
    <2> QED BY <1>3, <2>6 DEF ReadFile, TypeOK
<1>4. CASE Snapshot(w)
    <2> DEFINE s == [i \in 1..Len(history.events) |-> history.events[i].seq]
    <2> DEFINE d == [c EXCEPT !.pc = "watching", !.todo = s, !.cutoff = history.next_seq]
    <2>1. Len(history.events) \in Nat /\ history.next_seq \in Nat BY DEF TypeOK
    <2>2. s \in [1..Len(history.events) -> Nat]
        <3>1. ASSUME NEW i \in 1..Len(history.events)
              PROVE  history.events[i] \in EventType
            BY ElementOfSeq DEF TypeOK
        <3> QED BY <3>1 DEF EventType
    <2>3. s \in Seq(Nat) BY <2>1, <2>2, Tuple
    <2>4. d \in ConnType /\ Len(d.rx) <= RingSize
        <3> HIDE DEF s
        <3> QED BY <1>1, <2>1, <2>3 DEF ConnType
    <2>5. conn' = [conn EXCEPT ![w] = d] BY <1>1, <1>4 DEF Snapshot, TypeOK, ConnType
    <2>6. /\ conn' \in [Watcher -> ConnType]
          /\ \A v \in Watcher : Len(conn'[v].rx) <= RingSize
        <3> HIDE DEF d
        <3> QED BY <2>4, <2>5, ConnUpdate
    <2> QED BY <1>4, <2>6 DEF Snapshot, TypeOK
<1>5. CASE WriteLine(w)
    <2>1. c.todo \in Seq(Nat) /\ c.todo # <<>> BY <1>1, <1>5 DEF ConnType, WriteLine
    <2>2. Tail(c.todo) \in Seq(Nat) /\ Head(c.todo) \in Nat BY <2>1
    <2>3. [c EXCEPT !.todo = Tail(@)] \in ConnType BY <1>1, <2>2 DEF ConnType
    <2>4. seen' \in [Watcher -> Seq(Nat)] BY <1>5, <2>2 DEF WriteLine, TypeOK
    <2> QED BY <1>1, <1>5, <2>3, <2>4, ConnUpdate DEF WriteLine, TypeOK
<1>6. CASE SkipEvent(w) \/ WriteEvent(w)
    <2>1. c.rx \in Seq(Nat) /\ c.rx # <<>>
        BY <1>1, <1>6 DEF ConnType, SkipEvent, WriteEvent, Receivable
    <2>2. Tail(c.rx) \in Seq(Nat) /\ Head(c.rx) \in Nat /\ Len(Tail(c.rx)) <= RingSize
        BY <1>1, <2>1, CapAssumption
    <2>3. [c EXCEPT !.rx = Tail(@)] \in ConnType
          /\ Len([c EXCEPT !.rx = Tail(@)].rx) <= RingSize
        BY <1>1, <2>2 DEF ConnType
    <2>4. seen' \in [Watcher -> Seq(Nat)]
        <3>1. CASE SkipEvent(w) BY <3>1 DEF SkipEvent, TypeOK
        <3>2. CASE WriteEvent(w) BY <2>2, <3>2 DEF WriteEvent, TypeOK
        <3> QED BY <1>6, <3>1, <3>2
    <2>5. conn' = [conn EXCEPT ![w] = [c EXCEPT !.rx = Tail(@)]]
        BY <1>6 DEF SkipEvent, WriteEvent
    <2>6. /\ conn' \in [Watcher -> ConnType]
          /\ \A v \in Watcher : Len(conn'[v].rx) <= RingSize
        BY <2>3, <2>5, ConnUpdate
    <2> QED BY <1>6, <2>4, <2>6 DEF SkipEvent, WriteEvent, TypeOK
<1>7. CASE Lagged(w)
    <2>1. [c EXCEPT !.lag = FALSE] \in ConnType BY <1>1 DEF ConnType
    <2> QED BY <1>1, <1>7, <2>1, ConnUpdate DEF Lagged, TypeOK
<1>8. CASE Closed(w)
    <2>1. [c EXCEPT !.pc = "closed"] \in ConnType BY <1>1 DEF ConnType
    <2> QED BY <1>1, <1>8, <2>1, ConnUpdate DEF Closed, TypeOK
<1>9. CASE FileWritten(w)
    <2>1. [c EXCEPT !.pc = "done"] \in ConnType BY <1>1 DEF ConnType
    <2> QED BY <1>1, <1>9, <2>1, ConnUpdate DEF FileWritten, TypeOK
<1>10. CASE WriteFails(w)
    <2> DEFINE d == Conn("left")
    <2>1. d \in ConnType BY DEF ConnType, Conn
    <2>2. Len(d.rx) = 0 BY DEF Conn
    <2>3. Len(d.rx) <= RingSize BY <2>2, CapAssumption
    <2>4. conn' = [conn EXCEPT ![w] = d] BY <1>10 DEF WriteFails
    <2>5. /\ conn' \in [Watcher -> ConnType]
          /\ \A v \in Watcher : Len(conn'[v].rx) <= RingSize
        <3> HIDE DEF d
        <3> QED BY <2>1, <2>3, <2>4, ConnUpdate
    <2> QED BY <1>10, <2>5 DEF WriteFails, TypeOK
<1> QED BY <1>2, <1>3, <1>4, <1>5, <1>6, <1>7, <1>8, <1>9, <1>10 DEF Watch, Follow

LEMMA TypeStep ==
    ASSUME TypeOK, [Next]_vars
    PROVE  TypeOK'
<1>1. CASE UNCHANGED vars BY <1>1 DEF TypeOK, vars
<1>2. CASE End BY <1>2 DEF End, TypeOK
<1>3. CASE Cleanup BY <1>3 DEF Cleanup, TypeOK
<1> QED BY <1>1, <1>2, <1>3, RecordType, SendType, WatchType DEF Next, Recorder

(* TypeOK holds in every reachable state, for all values of the constants. *)
THEOREM TypeCorrect == Spec => []TypeOK
<1>1. Init => TypeOK
    BY CapAssumption DEF Init, TypeOK, ConnType, Conn, None
<1>2. TypeOK /\ [Next]_vars => TypeOK' BY TypeStep
<1> QED BY <1>1, <1>2, PTL DEF Spec

----------------------------------------------------------------------------
(* The history stays the numbers up to next_seq, whatever is evicted. *)
LEMMA RecordHistory ==
    ASSUME TypeOK, MissionInv, NEW n \in Length, NEW written \in BOOLEAN, Record(n, written)
    PROVE  /\ history'.next_seq = history.next_seq + 1
           /\ Len(history'.events) <= history'.next_seq
           /\ \A i \in 1..Len(history'.events) :
                 history'.events[i].seq = history'.next_seq - Len(history'.events) + i - 1
<1> DEFINE es == Pushed(n)
           L == Len(history.events)
           q == history.next_seq
<1>1. PICK k \in 0..Len(es) :
         history' = [events |-> SubSeq(es, k + 1, Len(es)), next_seq |-> q + 1]
    BY DEF Record, AppendLine
<1>2. q \in Nat /\ history.events \in Seq(EventType) /\ L \in Nat /\ L <= q
    BY DEF TypeOK, MissionInv
<1>3. /\ Len(es) = L + 1
      /\ \A i \in 1..L : es[i] = history.events[i]
      /\ es[L + 1] = [seq |-> q, len |-> n]
    BY <1>2 DEF Pushed
<1>4. ASSUME NEW i \in 1..(L + 1)
      PROVE  es[i].seq = q - L + i - 1
    <2> HIDE DEF es, L, q
    <2>1. CASE i = L + 1
        <3>1. es[i].seq = q BY <1>3, <2>1
        <3> QED BY <1>2, <2>1, <3>1
    <2>2. CASE i # L + 1
        <3>1. i \in 1..L BY <1>2, <2>2
        <3>2. es[i].seq = history.events[i].seq BY <1>3, <3>1
        <3> QED BY <3>1, <3>2 DEF MissionInv, L, q
    <2> QED BY <2>1, <2>2
<1> HIDE DEF es, L, q
<1>5. /\ k + 1 \in Int /\ L + 1 \in Int /\ k \in Nat /\ k <= L + 1
      /\ history' = [events |-> SubSeq(es, k + 1, L + 1), next_seq |-> q + 1]
    BY <1>1, <1>2, <1>3
<1>6. /\ Len(SubSeq(es, k + 1, L + 1)) = L + 1 - k
      /\ \A i \in 1..(L + 1 - k) : SubSeq(es, k + 1, L + 1)[i] = es[k + i]
    <2> DEFINE S == {es[i] : i \in (k + 1)..(L + 1)}
    <2>1. \A i \in (k + 1)..(L + 1) : es[i] \in S OBVIOUS
    <2> HIDE DEF S
    <2>2. /\ Len(SubSeq(es, k + 1, L + 1)) =
                 IF k + 1 <= L + 1 THEN (L + 1) - (k + 1) + 1 ELSE 0
          /\ \A i \in 1..((L + 1) - (k + 1) + 1) :
                 SubSeq(es, k + 1, L + 1)[i] = es[(k + 1) + i - 1]
        BY <1>5, <2>1, SubSeqProperties
    <2>3. (L + 1) - (k + 1) + 1 = L + 1 - k BY <1>2, <1>5
    <2>4. \A i \in 1..(L + 1 - k) : (k + 1) + i - 1 = k + i BY <1>5
    <2>5. (IF k + 1 <= L + 1 THEN (L + 1) - (k + 1) + 1 ELSE 0) = L + 1 - k BY <1>2, <1>5
    <2> QED BY <2>2, <2>3, <2>4, <2>5
<1>7. ASSUME NEW i \in 1..(L + 1 - k)
      PROVE  SubSeq(es, k + 1, L + 1)[i].seq = (q + 1) - (L + 1 - k) + i - 1
    <2>1. k + i \in 1..(L + 1) BY <1>2, <1>5
    <2>2. es[k + i].seq = q - L + (k + i) - 1 BY <1>4, <2>1
    <2> QED BY <1>2, <1>5, <1>6, <2>2
<1> QED BY <1>2, <1>5, <1>6, <1>7 DEF q

LEMMA MissionStep ==
    ASSUME TypeOK, MissionInv, [Next]_vars
    PROVE  MissionInv'
<1>1. ASSUME NEW n \in Length, NEW written \in BOOLEAN, Record(n, written)
      PROVE  MissionInv'
    <2>1. /\ history'.next_seq = history.next_seq + 1 /\ history.next_seq \in Nat
          /\ fresh' = history.next_seq
          /\ UNCHANGED <<running, listed>> /\ running
        BY <1>1, RecordHistory DEF Record, TypeOK
    <2>2. file'.lines <= history'.next_seq
        <3>1. file \in [lines : Nat, ok : BOOLEAN] /\ file.lines <= history.next_seq
            BY DEF TypeOK, MissionInv
        <3>2. CASE file' = [file EXCEPT !.lines = @ + 1] BY <2>1, <3>1, <3>2
        <3>3. CASE file' = [file EXCEPT !.ok = FALSE] BY <2>1, <3>1, <3>3
        <3> QED BY <1>1, <3>2, <3>3 DEF Record
    <2> QED BY <1>1, <2>1, <2>2, RecordHistory DEF MissionInv
<1>2. CASE Send BY <1>2 DEF Send, MissionInv, None
<1>3. CASE End BY <1>3 DEF End, MissionInv
<1>4. CASE Cleanup BY <1>4 DEF Cleanup, MissionInv
<1>5. ASSUME NEW w \in Watcher, Watch(w)
      PROVE  MissionInv'
    <2>1. UNCHANGED <<running, listed, history, fresh, file>>
        BY <1>5 DEF Watch, Follow, Subscribe, ReadFile, Snapshot, WriteLine, SkipEvent,
                    WriteEvent, Lagged, Closed, FileWritten, WriteFails
    <2> QED BY <2>1 DEF MissionInv
<1>6. CASE UNCHANGED vars BY <1>6 DEF vars, MissionInv
<1> QED BY <1>1, <1>2, <1>3, <1>4, <1>5, <1>6 DEF Next, Recorder

----------------------------------------------------------------------------
(* What is due to a watcher that watches. *)
LEMMA DueWatching ==
    ASSUME TypeOK, MissionInv, NEW w \in Watcher, ConnInv(w), conn[w].pc = "watching"
    PROVE  Due(w) = ((conn[w].cutoff - Len(conn[w].todo))..(conn[w].cutoff - 1))
                      \cup {e \in (Sent - Len(conn[w].rx))..(history.next_seq - 1) :
                               e >= conn[w].cutoff}
<1>1. /\ conn[w] \in ConnType /\ fresh \in Nat \cup {None} /\ history.next_seq \in Nat
      /\ Sent \in Nat
      /\ fresh = None => Sent = history.next_seq
      /\ fresh # None => Sent = history.next_seq - 1 /\ fresh = Sent
    BY DEF TypeOK, MissionInv, Sent
<1>2. /\ conn[w].cutoff <= history.next_seq
      /\ UpTo(conn[w].rx, Sent) /\ UpTo(conn[w].todo, conn[w].cutoff)
    BY DEF ConnInv
<1>3. Due(w) = Owed(conn[w], fresh) BY DEF Due
<1> HIDE DEF Sent
<1> QED BY <1>1, <1>2, <1>3, OwedWatching

(* ... and to one that does not. *)
LEMMA DueElsewhere ==
    ASSUME TypeOK, NEW w \in Watcher, ConnInv(w), conn[w].pc # "watching"
    PROVE  /\ conn[w].pc = "reading" => Due(w) = (conn[w].cutoff - Len(conn[w].todo))..(conn[w].cutoff - 1)
           /\ conn[w].pc # "reading" => Due(w) = {}
<1>1. conn[w].todo \in Seq(Nat) /\ conn[w].cutoff \in Nat BY DEF TypeOK, ConnType
<1>2. Due(w) = Elements(conn[w].todo) BY DEF Due, Owed
<1>3. CASE conn[w].pc = "reading"
    BY <1>1, <1>2, <1>3, UpToElements DEF ConnInv
<1>4. CASE conn[w].pc # "reading"
    <2>1. conn[w].todo = <<>> BY <1>4 DEF ConnInv
    <2>2. Len(<<>>) = 0 OBVIOUS
    <2> QED BY <1>2, <1>4, <2>1, <2>2 DEF Elements
<1> QED BY <1>3, <1>4

(* A watcher that a step leaves alone. *)
LEMMA Unmoved ==
    ASSUME NEW v \in Watcher, WatchInv(v),
           conn'[v] = conn[v], seen'[v] = seen[v], v \in told' <=> v \in told,
           history' = history, fresh' = fresh, file' = file, ~listed => ~listed'
    PROVE  WatchInv(v)'
<1>1. Due(v)' = Due(v) BY DEF Due
<1>2. Got(v)' = Got(v) BY <1>1 DEF Got
<1>3. ConnInv(v)' BY DEF WatchInv, ConnInv, Sent
<1>4. SeenInv(v)' BY <1>1 DEF WatchInv, SeenInv
<1>5. GapInv(v)' BY <1>2 DEF WatchInv, GapInv
<1> QED BY <1>3, <1>4, <1>5 DEF WatchInv

(* A watcher to whom no more is due than before. *)
LEMMA SeenKept ==
    ASSUME NEW w \in Watcher, SeenInv(w), seen'[w] = seen[w], history' = history,
           Due(w)' \subseteq Due(w)
    PROVE  SeenInv(w)'
BY DEF SeenInv

(* A watcher that gets the first event due to it. *)
LEMMA Delivered ==
    ASSUME TypeOK, NEW w \in Watcher, SeenInv(w), GapInv(w), NEW e \in Nat,
           e \in Due(w), \A d \in Due(w) : e <= d, e < history.next_seq,
           Due(w)' = Due(w) \ {e}, seen' = [seen EXCEPT ![w] = Append(@, e)],
           \A d \in Due(w) : d \in Nat,
           conn'[w].pc = conn[w].pc, conn'[w].cutoff = conn[w].cutoff,
           conn'[w].lag = conn[w].lag, told' = told, history' = history
    PROVE  SeenInv(w)' /\ GapInv(w)'
<1> DEFINE s == seen[w]
<1>1. s \in Seq(Nat) /\ seen'[w] = Append(s, e) BY DEF TypeOK
<1>2. /\ Len(s) \in Nat
      /\ Len(Append(s, e)) = Len(s) + 1
      /\ \A i \in 1..Len(s) : Append(s, e)[i] = s[i] /\ s[i] \in Nat
      /\ Append(s, e)[Len(s) + 1] = e
    BY <1>1
<1>3. \A i, j \in 1..Len(s) : i < j => s[i] < s[j] BY DEF SeenInv
<1>4. \A i \in 1..Len(s) : s[i] < e BY DEF SeenInv
<1>5. SeenInv(w)'
    <2>1. \A i, j \in 1..(Len(s) + 1) : i < j => Append(s, e)[i] < Append(s, e)[j]
        BY <1>2, <1>3, <1>4
    <2>2. ASSUME NEW i \in 1..(Len(s) + 1)
          PROVE  Append(s, e)[i] < history.next_seq /\ \A d \in Due(w)' : Append(s, e)[i] < d
        <3>1. CASE i = Len(s) + 1
            <4>1. ASSUME NEW d \in Due(w)'
                  PROVE  e < d
                <5>1. d \in Due(w) /\ d # e OBVIOUS
                <5>2. d \in Nat /\ e <= d BY <5>1
                <5> QED BY <5>1, <5>2
            <4>2. Append(s, e)[i] = e BY <1>2, <3>1
            <4> QED BY <4>1, <4>2
        <3>2. CASE i # Len(s) + 1
            <4>1. i \in 1..Len(s) BY <1>2, <3>2
            <4> QED BY <1>2, <4>1 DEF SeenInv
        <3> QED BY <3>1, <3>2
    <2> QED BY <1>1, <1>2, <2>1, <2>2 DEF SeenInv
<1>6. Got(w)' = Got(w)
    BY <1>1, AppendElements DEF Got
<1>7. GapInv(w)' BY <1>6 DEF GapInv
<1> QED BY <1>5, <1>7

(* The same after a step. *)
LEMMA DueNext ==
    ASSUME TypeOK', MissionInv', NEW w \in Watcher, ConnInv(w)'
    PROVE  /\ conn'[w].pc = "watching" =>
                 Due(w)' = ((conn'[w].cutoff - Len(conn'[w].todo))..(conn'[w].cutoff - 1))
                             \cup {e \in (Sent' - Len(conn'[w].rx))..(history'.next_seq - 1) :
                                      e >= conn'[w].cutoff}
           /\ conn'[w].pc = "reading" =>
                 Due(w)' = (conn'[w].cutoff - Len(conn'[w].todo))..(conn'[w].cutoff - 1)
           /\ conn'[w].pc \notin {"watching", "reading"} => Due(w)' = {}
<1>1. /\ conn'[w] \in ConnType /\ fresh' \in Nat \cup {None} /\ history'.next_seq \in Nat
      /\ Sent' \in Nat
      /\ fresh' = None => Sent' = history'.next_seq
      /\ fresh' # None => Sent' = history'.next_seq - 1 /\ fresh' = Sent'
    BY DEF TypeOK, MissionInv, Sent
<1>2. Due(w)' = Owed(conn'[w], fresh') BY DEF Due
<1>3. CASE conn'[w].pc = "watching"
    <2>1. /\ conn'[w].cutoff <= history'.next_seq
          /\ UpTo(conn'[w].rx, Sent') /\ UpTo(conn'[w].todo, conn'[w].cutoff)
        BY <1>3 DEF ConnInv, UpTo
    <2> HIDE DEF Sent
    <2> QED BY <1>1, <1>2, <1>3, <2>1, OwedWatching
<1>4. CASE conn'[w].pc = "reading"
    <2>1. conn'[w].todo \in Seq(Nat) /\ conn'[w].cutoff \in Nat BY <1>1 DEF ConnType
    <2>2. Due(w)' = Elements(conn'[w].todo) BY <1>2, <1>4 DEF Owed
    <2>3. UpTo(conn'[w].todo, conn'[w].cutoff) BY <1>4 DEF ConnInv, UpTo
    <2> QED BY <1>4, <2>1, <2>2, <2>3, UpToElements
<1>5. CASE conn'[w].pc \notin {"watching", "reading"}
    <2>1. conn'[w].todo = <<>> BY <1>5 DEF ConnInv
    <2>2. Len(<<>>) = 0 OBVIOUS
    <2> QED BY <1>2, <1>5, <2>1, <2>2 DEF Owed, Elements
<1> QED BY <1>3, <1>4, <1>5

----------------------------------------------------------------------------
(* The steps of a watcher, each with what it does to the events due to it. *)
Delivery(w, e) ==
    /\ e \in Due(w)
    /\ \A d \in Due(w) : e <= d
    /\ Due(w)' = Due(w) \ {e}

LEMMA DueBelow ==
    ASSUME TypeOK, MissionInv, NEW w \in Watcher, ConnInv(w), NEW d \in Due(w)
    PROVE  d \in Nat /\ d < history.next_seq
<1>1. /\ history.next_seq \in Nat /\ file.lines \in Nat /\ file.lines <= history.next_seq
      /\ conn[w].todo \in Seq(Nat) /\ conn[w].rx \in Seq(Nat) /\ conn[w].cutoff \in Nat
      /\ Sent \in Nat
    BY DEF TypeOK, MissionInv, ConnType, Sent
<1>2. CASE conn[w].pc = "watching"
    <2>1. conn[w].cutoff <= history.next_seq /\ Len(conn[w].todo) <= conn[w].cutoff
        BY <1>2 DEF ConnInv, UpTo
    <2>2. Len(conn[w].todo) \in Nat /\ Len(conn[w].rx) \in Nat BY <1>1
    <2> HIDE DEF Sent
    <2> QED BY <1>1, <1>2, <2>1, <2>2, DueWatching
<1>3. CASE conn[w].pc = "reading"
    <2>1. /\ Len(conn[w].todo) <= conn[w].cutoff /\ Len(conn[w].todo) \in Nat
          /\ conn[w].cutoff <= file.lines
        BY <1>1, <1>3 DEF ConnInv, UpTo
    <2>2. Due(w) = (conn[w].cutoff - Len(conn[w].todo))..(conn[w].cutoff - 1)
        BY <1>3, DueElsewhere
    <2> QED BY <1>1, <2>1, <2>2
<1> QED BY <1>2, <1>3, DueElsewhere

LEMMA WriteLineStep ==
    ASSUME TypeOK, MissionInv, TypeOK', MissionInv', NEW w \in Watcher, WatchInv(w),
           WriteLine(w)
    PROVE  WatchInv(w)' /\ Delivery(w, Head(conn[w].todo))
<1> DEFINE c == conn[w]
           e == Head(c.todo)
           end == c.cutoff
<1>1. /\ c \in ConnType /\ c.todo \in Seq(Nat) /\ c.todo # <<>> /\ c.rx \in Seq(Nat)
      /\ history.next_seq \in Nat /\ Sent \in Nat
    BY DEF TypeOK, ConnType, WriteLine, MissionInv, Sent
<1>2. c.pc \in {"watching", "reading"} BY <1>1 DEF WatchInv, ConnInv
<1>3. end \in Nat /\ UpTo(c.todo, end)
    BY <1>1, <1>2 DEF WatchInv, ConnInv, TypeOK, ConnType
<1>4. conn'[w] = [c EXCEPT !.todo = Tail(@)]
    BY DEF WriteLine, TypeOK
<1>5. /\ Len(Tail(c.todo)) = Len(c.todo) - 1
      /\ e = end - Len(c.todo)
      /\ e \in Nat
      /\ UpTo(Tail(c.todo), end)
      /\ Len(c.todo) \in Nat \ {0}
    <2> HIDE DEF end
    <2>1. Len(c.todo) \in Nat \ {0} BY <1>1
    <2> QED BY <1>1, <1>3, <2>1, UpToTail
<1>6. /\ UNCHANGED <<listed, history, fresh, file, told>>
      /\ seen' = [seen EXCEPT ![w] = Append(@, e)]
      /\ conn'[w].pc = c.pc /\ conn'[w].cutoff = c.cutoff /\ conn'[w].lag = c.lag
      /\ conn'[w].rx = c.rx /\ conn'[w].todo = Tail(c.todo)
      /\ Sent' = Sent
    BY <1>1, <1>4 DEF WriteLine, ConnType, Sent
<1>7. ConnInv(w)'
    BY <1>2, <1>5, <1>6 DEF WatchInv, ConnInv, UpTo
<1>8. Delivery(w, e)
    <2>1. CASE c.pc = "watching"
        <3>1. Due(w) = ((c.cutoff - Len(c.todo))..(c.cutoff - 1))
                         \cup {x \in (Sent - Len(c.rx))..(history.next_seq - 1) : x >= c.cutoff}
            BY <2>1, DueWatching DEF WatchInv
        <3>2. Due(w)' = ((c.cutoff - (Len(c.todo) - 1))..(c.cutoff - 1))
                         \cup {x \in (Sent - Len(c.rx))..(history.next_seq - 1) : x >= c.cutoff}
            BY <1>5, <1>6, <1>7, <2>1, DueNext
        <3>3. e = c.cutoff - Len(c.todo) /\ c.cutoff \in Nat
            BY <1>1, <1>5, <2>1 DEF ConnType
        <3> HIDE DEF c, e, end, Sent
        <3>4. Len(c.rx) \in Nat BY <1>1
        <3> QED BY <1>1, <1>5, <3>1, <3>2, <3>3, <3>4 DEF Delivery
    <2>2. CASE c.pc = "reading"
        <3>1. Due(w) = (c.cutoff - Len(c.todo))..(c.cutoff - 1)
            BY <2>2, DueElsewhere DEF WatchInv
        <3>2. Due(w)' = (c.cutoff - (Len(c.todo) - 1))..(c.cutoff - 1)
            BY <1>5, <1>6, <1>7, <2>2, DueNext
        <3>3. e = c.cutoff - Len(c.todo) /\ c.cutoff \in Nat
            BY <1>3, <1>5, <2>2
        <3> HIDE DEF c, e, end
        <3> QED BY <1>5, <3>1, <3>2, <3>3 DEF Delivery
    <2> QED BY <1>2, <2>1, <2>2
<1>9. SeenInv(w)' /\ GapInv(w)'
    <2>1. /\ SeenInv(w) /\ GapInv(w) /\ ConnInv(w) BY DEF WatchInv
    <2>2. \A d \in Due(w) : d \in Nat /\ d < history.next_seq BY <2>1, DueBelow
    <2> HIDE DEF e
    <2> QED BY <1>5, <1>6, <1>8, <2>1, <2>2, Delivered DEF Delivery
<1> QED BY <1>7, <1>8, <1>9 DEF WatchInv

LEMMA ReceiveStep ==
    ASSUME TypeOK, MissionInv, TypeOK', MissionInv', NEW w \in Watcher, WatchInv(w),
           SkipEvent(w) \/ WriteEvent(w)
    PROVE  /\ WatchInv(w)'
           /\ SkipEvent(w) => Due(w)' = Due(w)
           /\ WriteEvent(w) => Delivery(w, Head(conn[w].rx))
<1> DEFINE c == conn[w]
           e == Head(c.rx)
           n == history.next_seq
<1>1. /\ c \in ConnType /\ c.todo = <<>> /\ c.rx # <<>> /\ c.rx \in Seq(Nat)
      /\ c.pc = "watching" /\ ~c.lag
      /\ n \in Nat /\ Sent \in Nat /\ Sent <= n
      /\ c.cutoff \in Nat /\ c.cutoff <= n
    BY DEF TypeOK, ConnType, SkipEvent, WriteEvent, Receivable, Receiving, MissionInv,
           Sent, WatchInv, ConnInv
<1>2. UpTo(c.rx, Sent) BY <1>1 DEF WatchInv, ConnInv
<1>3. /\ Len(Tail(c.rx)) = Len(c.rx) - 1
      /\ e = Sent - Len(c.rx)
      /\ e \in Nat
      /\ UpTo(Tail(c.rx), Sent)
      /\ Len(c.rx) \in Nat \ {0}
    <2>1. Len(c.rx) \in Nat \ {0} BY <1>1
    <2> HIDE DEF Sent
    <2> QED BY <1>1, <1>2, <2>1, UpToTail
<1>4. conn'[w] = [c EXCEPT !.rx = Tail(@)]
    BY DEF SkipEvent, WriteEvent, TypeOK
<1>5. /\ UNCHANGED <<listed, history, fresh, file, told>>
      /\ conn'[w].pc = c.pc /\ conn'[w].cutoff = c.cutoff /\ conn'[w].lag = c.lag
      /\ conn'[w].todo = c.todo /\ conn'[w].rx = Tail(c.rx)
      /\ Sent' = Sent
    BY <1>1, <1>4 DEF SkipEvent, WriteEvent, ConnType, Sent
<1>6. ConnInv(w)'
    BY <1>1, <1>3, <1>5 DEF WatchInv, ConnInv, UpTo
<1>7. Due(w) = {x \in (Sent - Len(c.rx))..(n - 1) : x >= c.cutoff}
    <2>1. Len(c.todo) = 0 BY <1>1
    <2>2. Due(w) = ((c.cutoff - Len(c.todo))..(c.cutoff - 1))
                     \cup {x \in (Sent - Len(c.rx))..(n - 1) : x >= c.cutoff}
        BY <1>1, DueWatching DEF WatchInv
    <2> QED BY <1>1, <2>1, <2>2
<1>8. Due(w)' = {x \in (Sent - (Len(c.rx) - 1))..(n - 1) : x >= c.cutoff}
    <2>1. Len(conn'[w].todo) = 0 BY <1>1, <1>5
    <2>2. Due(w)' = ((c.cutoff - Len(conn'[w].todo))..(c.cutoff - 1))
                     \cup {x \in (Sent - (Len(c.rx) - 1))..(n - 1) : x >= c.cutoff}
        BY <1>1, <1>3, <1>5, <1>6, DueNext
    <2>3. (c.cutoff - Len(conn'[w].todo))..(c.cutoff - 1) = {}
        <3> HIDE DEF c
        <3> QED BY <1>1, <2>1
    <2> QED BY <2>2, <2>3
<1>9. CASE SkipEvent(w)
    <2>1. e < c.cutoff BY <1>9 DEF SkipEvent, InSnapshot
    <2>2. Due(w)' = Due(w)
        <3> HIDE DEF c, e, n, Sent
        <3> QED BY <1>1, <1>3, <1>7, <1>8, <2>1
    <2>3. seen' = seen BY <1>9 DEF SkipEvent
    <2>4. SeenInv(w)' BY <1>5, <2>2, <2>3, SeenKept DEF WatchInv
    <2>5. Got(w)' = Got(w) BY <2>2, <2>3 DEF Got
    <2>6. GapInv(w)' BY <1>5, <2>5 DEF WatchInv, GapInv
    <2>7. ~WriteEvent(w) BY <1>9 DEF SkipEvent, WriteEvent
    <2> QED BY <1>6, <2>2, <2>4, <2>6, <2>7 DEF WatchInv
<1>10. CASE WriteEvent(w)
    <2>1. e >= c.cutoff
        BY <1>1, <1>3, <1>10 DEF WriteEvent, InSnapshot
    <2>2. Delivery(w, e)
        <3> HIDE DEF c, e, n, Sent
        <3>1. e \in Due(w) BY <1>1, <1>3, <1>7, <2>1
        <3>2. \A d \in Due(w) : e <= d BY <1>1, <1>3, <1>7
        <3>3. (Sent - (Len(c.rx) - 1))..(n - 1) = ((Sent - Len(c.rx))..(n - 1)) \ {e}
            <4>1. e \in Int /\ n - 1 \in Int BY <1>1, <1>3
            <4>2. Sent - (Len(c.rx) - 1) = e + 1 BY <1>1, <1>3
            <4>3. Sent - Len(c.rx) = e BY <1>3
            <4> QED BY <4>1, <4>2, <4>3, IntervalTail
        <3>4. Due(w)' = Due(w) \ {e} BY <1>7, <1>8, <3>3
        <3> QED BY <3>1, <3>2, <3>4 DEF Delivery
    <2>3. /\ SeenInv(w) /\ GapInv(w) /\ ConnInv(w) BY DEF WatchInv
    <2>4. \A d \in Due(w) : d \in Nat /\ d < history.next_seq BY <2>3, DueBelow
    <2>5. seen' = [seen EXCEPT ![w] = Append(@, e)] BY <1>10 DEF WriteEvent
    <2>6. SeenInv(w)' /\ GapInv(w)'
        <3> HIDE DEF e
        <3> QED BY <1>3, <1>5, <2>2, <2>3, <2>4, <2>5, Delivered DEF Delivery
    <2>7. ~SkipEvent(w) BY <1>10 DEF SkipEvent, WriteEvent
    <2> QED BY <1>6, <2>2, <2>6, <2>7 DEF WatchInv
<1> QED BY <1>9, <1>10

(* Joining: the whole history, and nothing of the channel yet. *)
LEMMA SnapshotStep ==
    ASSUME TypeOK, MissionInv, TypeOK', MissionInv', NEW w \in Watcher, WatchInv(w),
           Snapshot(w)
    PROVE  /\ WatchInv(w)'
           /\ Due(w)' = (history.next_seq - Len(history.events))..(history.next_seq - 1)
           /\ Len(history.events) \in 0..history.next_seq
<1> DEFINE c == conn[w]
           n == history.next_seq
           L == Len(history.events)
           s == [i \in 1..L |-> history.events[i].seq]
<1>1. /\ n \in Nat /\ L \in Nat /\ L <= n /\ Sent \in Nat /\ Sent <= n
      /\ c \in ConnType /\ c.pc = "subscribed" /\ seen[w] = <<>>
      /\ c.rx \in Seq(Nat) /\ c.lag \in BOOLEAN /\ UpTo(c.rx, Sent)
    <2>1. n \in Nat /\ L \in Nat /\ c \in ConnType BY DEF TypeOK
    <2>2. L <= n /\ Sent \in Nat /\ Sent <= n BY <2>1 DEF TypeOK, MissionInv, Sent
    <2>3. c.pc = "subscribed" BY DEF Snapshot
    <2>4. seen[w] = <<>> /\ UpTo(c.rx, Sent) BY <2>3 DEF WatchInv, ConnInv
    <2> QED BY <2>1, <2>2, <2>3, <2>4 DEF ConnType
<1>2. UpTo(s, n) /\ Len(s) = L
    <2>1. s \in [1..L -> Nat]
        <3>1. ASSUME NEW i \in 1..L PROVE history.events[i].seq \in Nat
            <4>1. history.events[i] \in EventType BY ElementOfSeq DEF TypeOK
            <4> QED BY <4>1 DEF EventType
        <3> QED BY <3>1
    <2>2. Len(s) = L BY <1>1, <2>1, Tuple
    <2>3. \A i \in 1..L : s[i] = n - L + i - 1 BY DEF MissionInv
    <2> HIDE DEF s, L, n
    <2> QED BY <1>1, <2>2, <2>3 DEF UpTo
<1>3. /\ conn'[w].pc = "watching" /\ conn'[w].todo = s /\ conn'[w].cutoff = n
      /\ conn'[w].rx = c.rx
      /\ UNCHANGED <<listed, history, fresh, file, told, seen>> /\ Sent' = Sent
    <2> HIDE DEF s
    <2>1. conn' = [conn EXCEPT ![w].pc = "watching", ![w].todo = s, ![w].cutoff = n]
        BY DEF Snapshot, s
    <2>2. conn'[w] = [c EXCEPT !.pc = "watching", !.todo = s, !.cutoff = n]
        BY <2>1 DEF TypeOK
    <2>3. /\ conn'[w].pc = "watching" /\ conn'[w].todo = s /\ conn'[w].cutoff = n
          /\ conn'[w].rx = c.rx
        <3> HIDE DEF c, n
        <3> QED BY <1>1, <2>2 DEF ConnType
    <2>4. UNCHANGED <<listed, history, fresh, file, told, seen>> BY DEF Snapshot
    <2> QED BY <2>3, <2>4 DEF Sent
<1> HIDE DEF s
<1>4. ConnInv(w)'
    <2>1. UpTo(conn'[w].rx, Sent') /\ UpTo(conn'[w].todo, conn'[w].cutoff)
        BY <1>1, <1>2, <1>3
    <2>2. conn'[w].cutoff <= history'.next_seq BY <1>1, <1>3
    <2> QED BY <1>3, <2>1, <2>2 DEF ConnInv, UpTo
<1>5. Due(w)' = (n - L)..(n - 1)
    <2>1. Due(w)' = ((n - L)..(n - 1)) \cup {x \in (Sent - Len(c.rx))..(n - 1) : x >= n}
        BY <1>2, <1>3, <1>4, DueNext
    <2>2. Len(c.rx) \in Nat BY <1>1
    <2> HIDE DEF n, L, c, Sent
    <2> QED BY <1>1, <2>1, <2>2
<1>6. seen'[w] = <<>> /\ Len(<<>>) = 0 BY <1>1, <1>3
<1>7. SeenInv(w)' BY <1>6 DEF SeenInv
<1>8. Got(w)' = (n - L)..(n - 1)
    BY <1>5, <1>6 DEF Got, Elements
<1>9. GapInv(w)'
    <2>1. \A e \in ((n - L)..(n - 1)) \cup {n} : \A x \in e..(n - 1) : x \in (n - L)..(n - 1)
        <3> HIDE DEF n, L
        <3> QED BY <1>1
    <2> QED BY <1>3, <1>8, <2>1 DEF GapInv
<1> QED BY <1>1, <1>4, <1>5, <1>7, <1>9 DEF WatchInv

LEMMA JoinStep ==
    ASSUME TypeOK, MissionInv, TypeOK', MissionInv', NEW w \in Watcher, WatchInv(w),
           Subscribe(w) \/ ReadFile(w)
    PROVE  /\ WatchInv(w)'
           /\ Due(w) = {}
           /\ Subscribe(w) => Due(w)' = {}
           /\ ReadFile(w) => \E n \in 0..file.lines : Due(w)' = 0..(n - 1)
<1> DEFINE c == conn[w]
<1>1. /\ c \in ConnType /\ c.pc = "away" /\ c.rx = <<>> /\ c.todo = <<>> /\ seen[w] = <<>>
      /\ Sent \in Nat /\ file.lines \in Nat /\ Len(<<>>) = 0
    <2>1. c.pc = "away" /\ c \in ConnType BY DEF Subscribe, ReadFile, TypeOK
    <2>2. c.rx = <<>> /\ c.todo = <<>> /\ seen[w] = <<>> BY <2>1 DEF WatchInv, ConnInv
    <2> QED BY <2>1, <2>2 DEF TypeOK, MissionInv, Sent
<1>2. UNCHANGED <<listed, history, fresh, file, told, seen>> /\ Sent' = Sent
    BY DEF Subscribe, ReadFile, Sent
<1>3. Due(w) = {} BY <1>1, DueElsewhere DEF WatchInv
<1>4. SeenInv(w)' BY <1>1, <1>2 DEF SeenInv
<1>5. CASE Subscribe(w)
    <2>1. conn'[w] = [c EXCEPT !.pc = "subscribed"] BY <1>5 DEF Subscribe, TypeOK
    <2>2. conn'[w].pc = "subscribed" /\ conn'[w].rx = <<>> /\ conn'[w].todo = <<>>
        BY <1>1, <2>1 DEF ConnType
    <2>3. ConnInv(w)' BY <1>1, <1>2, <2>2 DEF ConnInv, UpTo
    <2>4. GapInv(w)' BY <2>2 DEF GapInv
    <2>5. Due(w)' = {} BY <2>2, <2>3, DueNext
    <2>6. ~ReadFile(w) BY <1>5 DEF Subscribe, ReadFile
    <2> QED BY <1>3, <1>4, <2>3, <2>4, <2>5, <2>6 DEF WatchInv
<1>6. CASE ReadFile(w)
    <2>1. PICK n \in 0..file.lines :
            conn' = [conn EXCEPT ![w].pc = "reading",
                                 ![w].todo = [i \in 1..n |-> i - 1],
                                 ![w].cutoff = n]
        BY <1>6 DEF ReadFile
    <2> DEFINE s == [i \in 1..n |-> i - 1]
    <2>2. n \in Nat /\ s \in [1..n -> Nat] /\ Len(s) = n
        <3>1. n \in Nat /\ s \in [1..n -> Nat] BY <1>1
        <3> QED BY <3>1, Tuple
    <2>3. UpTo(s, n) BY <2>2 DEF UpTo
    <2>4. conn'[w].pc = "reading" /\ conn'[w].todo = s /\ conn'[w].cutoff = n
        <3>1. conn' = [conn EXCEPT ![w].pc = "reading", ![w].todo = s, ![w].cutoff = n]
            BY <2>1
        <3> HIDE DEF s
        <3>2. conn'[w] = [c EXCEPT !.pc = "reading", !.todo = s, !.cutoff = n]
            BY <3>1 DEF TypeOK
        <3> QED BY <1>1, <3>2 DEF ConnType
    <2>5. ~listed /\ ~Subscribe(w) BY <1>6 DEF ReadFile, Subscribe
    <2> HIDE DEF s
    <2>6. ConnInv(w)' BY <1>1, <1>2, <2>3, <2>4, <2>5 DEF ConnInv, UpTo
    <2>7. GapInv(w)' BY <2>4 DEF GapInv
    <2>8. Due(w)' = (n - n)..(n - 1)
        BY <1>2, <2>2, <2>4, <2>6, DueNext
    <2>9. Due(w)' = 0..(n - 1) BY <2>2, <2>8
    <2> QED BY <1>3, <1>4, <2>5, <2>6, <2>7, <2>9 DEF WatchInv
<1> QED BY <1>5, <1>6

LEMMA LaggedStep ==
    ASSUME TypeOK, MissionInv, TypeOK', MissionInv', NEW w \in Watcher, WatchInv(w),
           Lagged(w)
    PROVE  WatchInv(w)' /\ Due(w)' = Due(w)
<1> DEFINE c == conn[w]
<1>1. c \in ConnType /\ conn'[w] = [c EXCEPT !.lag = FALSE] BY DEF Lagged, TypeOK
<1>2. /\ conn'[w].pc = c.pc /\ conn'[w].cutoff = c.cutoff
      /\ conn'[w].todo = c.todo /\ conn'[w].rx = c.rx
    BY <1>1 DEF ConnType
<1>3. UNCHANGED <<listed, history, fresh, file, seen>> /\ Sent' = Sent /\ w \in told'
    BY DEF Lagged, Sent
<1>4. Due(w)' = Due(w) BY <1>2, <1>3 DEF Due, Owed
<1>5. ConnInv(w)' BY <1>2, <1>3 DEF WatchInv, ConnInv, UpTo
<1>6. SeenInv(w)' BY <1>3, <1>4, SeenKept DEF WatchInv
<1>7. GapInv(w)' BY <1>3 DEF GapInv
<1> QED BY <1>4, <1>5, <1>6, <1>7 DEF WatchInv

(* The ends of a stream: nothing is owed any more. *)
LEMMA EndStep ==
    ASSUME TypeOK, MissionInv, TypeOK', MissionInv', NEW w \in Watcher, WatchInv(w),
           Closed(w) \/ FileWritten(w) \/ WriteFails(w)
    PROVE  /\ WatchInv(w)'
           /\ Due(w)' = {}
           /\ Closed(w) \/ FileWritten(w) => Due(w) = {}
<1> DEFINE c == conn[w]
<1>1. c \in ConnType /\ seen[w] \in Seq(Nat) /\ Len(<<>>) = 0 BY DEF TypeOK
<1>2. UNCHANGED <<listed, history, fresh, file, seen, told>> /\ Sent' = Sent
    BY DEF Closed, FileWritten, WriteFails, Sent
<1>3. CASE Closed(w)
    <2>1. /\ conn'[w] = [c EXCEPT !.pc = "closed"] /\ c.pc = "watching"
          /\ c.todo = <<>> /\ c.rx = <<>> /\ ~running /\ ~listed
        BY <1>3 DEF Closed, Receiving, NoSender, TypeOK
    <2>2. /\ conn'[w].pc = "closed" /\ conn'[w].todo = <<>>
          /\ conn'[w].cutoff = c.cutoff /\ conn'[w].lag = c.lag
        BY <1>1, <2>1 DEF ConnType
    <2>3. fresh = None BY <2>1 DEF MissionInv
    <2>4. Due(w) = {} BY <1>1, <2>1, <2>3 DEF Due, Owed, Elements
    <2>5. ConnInv(w)' BY <1>2, <2>1, <2>2 DEF ConnInv
    <2>6. Due(w)' = {} BY <2>2, <2>5, DueNext
    <2>7. SeenInv(w)' BY <1>2, <2>4, <2>6, SeenKept DEF WatchInv
    <2>8. Got(w)' = Got(w) BY <1>2, <2>4, <2>6 DEF Got
    <2>9. GapInv(w)' BY <1>2, <2>1, <2>2, <2>8 DEF WatchInv, GapInv
    <2> QED BY <2>4, <2>5, <2>6, <2>7, <2>9 DEF WatchInv
<1>4. CASE FileWritten(w)
    <2>1. conn'[w] = [c EXCEPT !.pc = "done"] /\ c.pc = "reading" /\ c.todo = <<>>
        BY <1>4 DEF FileWritten, TypeOK
    <2>2. conn'[w].pc = "done" /\ conn'[w].todo = <<>> BY <1>1, <2>1 DEF ConnType
    <2>3. ~listed BY <2>1 DEF WatchInv, ConnInv
    <2>4. Due(w) = {} BY <1>1, <2>1 DEF Due, Owed, Elements
    <2>5. ConnInv(w)' BY <1>2, <2>2, <2>3 DEF ConnInv
    <2>6. Due(w)' = {} BY <2>2, <2>5, DueNext
    <2>7. SeenInv(w)' BY <1>2, <2>4, <2>6, SeenKept DEF WatchInv
    <2>8. GapInv(w)' BY <2>2 DEF GapInv
    <2> QED BY <2>4, <2>5, <2>6, <2>7, <2>8 DEF WatchInv
<1>5. CASE WriteFails(w)
    <2>1. conn'[w] = Conn("left") BY <1>5 DEF WriteFails, TypeOK
    <2>2. conn'[w].pc = "left" /\ conn'[w].todo = <<>> BY <2>1 DEF Conn
    <2>3. ConnInv(w)' BY <1>2, <2>2 DEF ConnInv
    <2>4. Due(w)' = {} BY <2>2, <2>3, DueNext
    <2>5. SeenInv(w)' BY <1>2, <2>4, SeenKept DEF WatchInv
    <2>6. GapInv(w)' BY <2>2 DEF GapInv
    <2>7. Closed(w) \/ FileWritten(w) => Due(w) = {}
        <3>1. ~Closed(w)
            BY <1>1, <1>5 DEF Closed, WriteFails, Receiving, Receivable
        <3>2. ~FileWritten(w)
            BY <1>5 DEF FileWritten, WriteFails, Receiving, Receivable
        <3> QED BY <3>1, <3>2
    <2> QED BY <2>3, <2>4, <2>5, <2>6, <2>7 DEF WatchInv
<1> QED BY <1>3, <1>4, <1>5

----------------------------------------------------------------------------
(* The steps of the recorder, as every watcher sees them. *)
LEMMA RecordStep ==
    ASSUME TypeOK, MissionInv, TypeOK', MissionInv', NEW w \in Watcher, WatchInv(w),
           NEW n \in Length, NEW written \in BOOLEAN, Record(n, written)
    PROVE  /\ WatchInv(w)'
           /\ Due(w)' = IF conn[w].pc = "watching" THEN Due(w) \cup {history.next_seq}
                                                   ELSE Due(w)
<1> DEFINE c == conn[w]
           q == history.next_seq
<1>1. /\ running /\ fresh = None /\ fresh' = q /\ q \in Nat
      /\ history'.next_seq = q + 1
      /\ UNCHANGED <<running, listed, conn, seen, told>>
    BY RecordHistory DEF Record, TypeOK
<1>2. listed BY <1>1 DEF MissionInv
<1>3. Sent = q /\ Sent' = q BY <1>1 DEF Sent, None
<1>5. c.pc \notin {"reading", "closed", "done"} BY <1>2 DEF WatchInv, ConnInv
<1>4. ConnInv(w)'
    <2>1. c.pc \in {"subscribed", "watching"} => UpTo(conn'[w].rx, Sent')
        BY <1>1, <1>3 DEF WatchInv, ConnInv
    <2>2. c.cutoff \in Nat BY DEF TypeOK, ConnType
    <2>3. c.pc = "watching" => c.cutoff <= history'.next_seq
        <3>1. c.pc = "watching" => c.cutoff <= q BY DEF WatchInv, ConnInv
        <3> HIDE DEF c, q
        <3> QED BY <1>1, <2>2, <3>1
    <2> QED BY <1>1, <1>5, <2>1, <2>3 DEF WatchInv, ConnInv, UpTo
<1>6. CASE c.pc = "watching"
    <2>1. /\ c.cutoff \in Nat /\ c.cutoff <= q /\ Len(c.rx) \in Nat /\ Len(c.rx) <= q
        BY <1>3, <1>6 DEF WatchInv, ConnInv, UpTo, TypeOK, ConnType
    <2>2. Due(w) = ((c.cutoff - Len(c.todo))..(c.cutoff - 1))
                     \cup {x \in (q - Len(c.rx))..(q - 1) : x >= c.cutoff}
        BY <1>3, <1>6, DueWatching DEF WatchInv
    <2>3. Due(w)' = ((c.cutoff - Len(c.todo))..(c.cutoff - 1))
                      \cup {x \in (q - Len(c.rx))..((q + 1) - 1) : x >= c.cutoff}
        BY <1>1, <1>3, <1>4, <1>6, DueNext
    <2>4. (q - Len(c.rx))..((q + 1) - 1) = ((q - Len(c.rx))..(q - 1)) \cup {q}
        <3> HIDE DEF c, q
        <3> QED BY <1>1, <2>1
    <2>5. Due(w)' = Due(w) \cup {q}
        <3> HIDE DEF c, q
        <3> QED BY <1>1, <2>1, <2>2, <2>3, <2>4
    <2>6. ASSUME NEW d \in Due(w) PROVE d \in Nat /\ d < q
        BY DueBelow DEF WatchInv
    <2>7. SeenInv(w)'
        <3>1. /\ \A i, j \in 1..Len(seen[w]) : i < j => seen[w][i] < seen[w][j]
              /\ \A i \in 1..Len(seen[w]) :
                    /\ seen[w][i] < q
                    /\ \A d \in Due(w) : seen[w][i] < d
            BY DEF WatchInv, SeenInv
        <3>2. \A i \in 1..Len(seen[w]) : seen[w][i] \in Nat
            BY ElementOfSeq DEF TypeOK
        <3>3. \A i \in 1..Len(seen[w]) : seen[w][i] < q + 1
            <4> HIDE DEF q
            <4> QED BY <1>1, <3>1, <3>2
        <3>4. \A i \in 1..Len(seen[w]) : \A d \in Due(w)' : seen[w][i] < d
            BY <2>5, <3>1
        <3> QED BY <1>1, <3>1, <3>3, <3>4 DEF SeenInv
    <2>8. GapInv(w)'
        <3>1. SUFFICES ASSUME ~c.lag, w \notin told
                       PROVE  \A e \in Got(w)' \cup {c.cutoff} :
                                 \A x \in e..((q + 1) - 1) : x \in Got(w)'
            BY <1>1 DEF GapInv
        <3>2. Got(w)' = Got(w) \cup {q} BY <1>1, <2>5 DEF Got
        <3>3. \A e \in Got(w) \cup {c.cutoff} : \A x \in e..(q - 1) : x \in Got(w)
            BY <1>6, <3>1 DEF WatchInv, GapInv
        <3>4. \A e \in Got(w) : e \in Nat
            <4>1. \A i \in 1..Len(seen[w]) : seen[w][i] \in Nat
                BY ElementOfSeq DEF TypeOK
            <4> QED BY <2>6, <4>1 DEF Got, Elements
        <3>5. ASSUME NEW e \in Got(w) \cup {q} \cup {c.cutoff}, NEW x \in e..((q + 1) - 1)
              PROVE  x \in Got(w) \cup {q}
            <4> HIDE DEF c, q
            <4>1. e \in Nat BY <1>1, <2>1, <3>4
            <4>2. CASE x = q BY <4>2
            <4>3. CASE x # q
                <5>1. x \in e..(q - 1) BY <1>1, <4>1, <4>3
                <5>2. e # q BY <1>1, <4>1, <5>1
                <5> QED BY <3>3, <5>1, <5>2
            <4> QED BY <4>2, <4>3
        <3> QED BY <3>2, <3>5
    <2> QED BY <1>4, <1>6, <2>5, <2>7, <2>8 DEF WatchInv
<1>7. CASE c.pc # "watching"
    <2>1. Due(w) = {} BY <1>5, <1>7, DueElsewhere DEF WatchInv
    <2>2. Due(w)' = {} BY <1>1, <1>4, <1>5, <1>7, DueNext
    <2>3. SeenInv(w)'
        <3>1. \A i \in 1..Len(seen[w]) : seen[w][i] \in Nat
            BY ElementOfSeq DEF TypeOK
        <3>2. \A i \in 1..Len(seen[w]) : seen[w][i] < q
            BY DEF WatchInv, SeenInv
        <3>3. \A i \in 1..Len(seen[w]) : seen[w][i] < q + 1
            <4> HIDE DEF q
            <4> QED BY <1>1, <3>1, <3>2
        <3> QED BY <1>1, <2>2, <3>3 DEF WatchInv, SeenInv
    <2>4. GapInv(w)' BY <1>1, <1>5, <1>7 DEF GapInv
    <2> QED BY <1>4, <1>7, <2>1, <2>2, <2>3, <2>4 DEF WatchInv
<1> QED BY <1>6, <1>7

LEMMA QueuedUpTo ==
    ASSUME NEW q \in Seq(Nat), NEW end \in Nat, UpTo(q, end)
    PROVE  /\ UpTo(Queued(q, end), end + 1)
           /\ Len(Queued(q, end)) = IF Len(q) < RingSize THEN Len(q) + 1 ELSE Len(q)
<1>1. CASE Len(q) < RingSize BY <1>1, UpToAppend DEF Queued
<1>2. CASE ~(Len(q) < RingSize)
    <2>1. Len(q) \in Nat \ {0} BY <1>2, CapAssumption
    <2>2. q # <<>> BY <2>1
    <2>3. Tail(q) \in Seq(Nat) /\ Len(Tail(q)) = Len(q) - 1 /\ UpTo(Tail(q), end)
        BY <2>2, UpToTail
    <2>4. /\ UpTo(Append(Tail(q), end), end + 1)
          /\ Len(Append(Tail(q), end)) = (Len(q) - 1) + 1
        BY <2>3, UpToAppend
    <2>5. (Len(q) - 1) + 1 = Len(q) BY <2>1
    <2> QED BY <1>2, <2>4, <2>5 DEF Queued
<1> QED BY <1>1, <1>2

LEMMA SendStep ==
    ASSUME TypeOK, MissionInv, TypeOK', MissionInv', NEW w \in Watcher, WatchInv(w), Send
    PROVE  /\ WatchInv(w)'
           /\ conn'[w].pc = conn[w].pc
           /\ Due(w)' \subseteq Due(w)
           /\ \A d \in Due(w) \ Due(w)' : d + RingSize < history.next_seq
<1> DEFINE c == conn[w]
           n == history.next_seq
           d == conn'[w]
<1>1. /\ fresh' = None /\ UNCHANGED <<running, listed, history, file, seen, told>>
      /\ n \in Nat /\ fresh # None /\ fresh = n - 1 /\ fresh \in Nat
      /\ Sent = fresh /\ Sent' = fresh + 1 /\ listed
      /\ c \in ConnType /\ Len(c.rx) \in Nat /\ Len(c.rx) <= RingSize
    <2>1. /\ fresh' = None /\ UNCHANGED <<running, listed, history, file, seen, told>>
          /\ fresh # None
        BY DEF Send
    <2>2. n \in Nat /\ fresh \in Nat /\ c \in ConnType /\ Len(c.rx) <= RingSize
        BY <2>1 DEF TypeOK
    <2>3. fresh = n - 1 /\ listed BY <2>1 DEF MissionInv
    <2>4. Sent = fresh BY <2>1, <2>3 DEF Sent
    <2>5. Sent' = fresh + 1
        <3>1. Sent' = n BY <2>1 DEF Sent
        <3> HIDE DEF n
        <3> QED BY <2>2, <2>3, <3>1
    <2>6. Len(c.rx) \in Nat BY <2>2 DEF ConnType
    <2> QED BY <2>1, <2>2, <2>3, <2>4, <2>5, <2>6
<1>2. CASE ~Subscribed(w)
    <2>1. conn'[w] = conn[w] BY <1>2 DEF Send
    <2>2. c.pc \notin {"subscribed", "watching"} BY <1>2 DEF Subscribed
    <2>3. ConnInv(w)' BY <1>1, <2>1, <2>2 DEF WatchInv, ConnInv, UpTo
    <2>4. Due(w)' = Due(w) BY <2>1, <2>2 DEF Due, Owed
    <2>5. SeenInv(w)' BY <1>1, <2>4 DEF WatchInv, SeenInv
    <2>6. Got(w)' = Got(w) BY <1>1, <2>4 DEF Got
    <2>7. GapInv(w)' BY <1>1, <2>1, <2>6 DEF WatchInv, GapInv
    <2> QED BY <2>1, <2>3, <2>4, <2>5, <2>7 DEF WatchInv
<1>3. CASE Subscribed(w)
    <2>1. d = [c EXCEPT !.rx = Queued(@, fresh), !.lag = @ \/ Len(c.rx) = RingSize]
        BY <1>3 DEF Send
    <2>2. /\ d.pc = c.pc /\ d.todo = c.todo /\ d.cutoff = c.cutoff
          /\ d.rx = Queued(c.rx, fresh)
          /\ d.lag = (c.lag \/ Len(c.rx) = RingSize)
        <3> HIDE DEF d
        <3> QED BY <1>1, <2>1 DEF ConnType
    <2>3. UpTo(c.rx, fresh) /\ c.rx \in Seq(Nat)
        BY <1>1, <1>3 DEF WatchInv, ConnInv, Subscribed, ConnType
    <2>4. /\ UpTo(d.rx, fresh + 1)
          /\ Len(d.rx) = IF Len(c.rx) < RingSize THEN Len(c.rx) + 1 ELSE Len(c.rx)
        BY <1>1, <2>2, <2>3, QueuedUpTo
    <2>5. ConnInv(w)'
        <3>1. UpTo(d.rx, Sent') BY <1>1, <2>4
        <3> QED BY <1>1, <1>3, <2>2, <3>1 DEF WatchInv, ConnInv, UpTo, Subscribed
    <2>6. CASE c.pc = "subscribed"
        <3>1. Due(w) = {} BY <2>6, DueElsewhere DEF WatchInv
        <3>2. Due(w)' = {} BY <2>2, <2>5, <2>6, DueNext
        <3>3. SeenInv(w)' BY <1>1, <3>1, <3>2, SeenKept DEF WatchInv
        <3>4. GapInv(w)' BY <2>2, <2>6 DEF GapInv
        <3> QED BY <2>2, <2>5, <3>1, <3>2, <3>3, <3>4 DEF WatchInv
    <2>7. CASE c.pc = "watching"
        <3>1. Due(w) = ((c.cutoff - Len(c.todo))..(c.cutoff - 1))
                         \cup {x \in (fresh - Len(c.rx))..(n - 1) : x >= c.cutoff}
            BY <1>1, <2>7, DueWatching DEF WatchInv
        <3>2. Due(w)' = ((c.cutoff - Len(c.todo))..(c.cutoff - 1))
                          \cup {x \in ((fresh + 1) - Len(d.rx))..(n - 1) : x >= c.cutoff}
            <4>1. Due(w)' = ((d.cutoff - Len(d.todo))..(d.cutoff - 1))
                              \cup {x \in (Sent' - Len(d.rx))..(history'.next_seq - 1) :
                                       x >= d.cutoff}
                BY <2>2, <2>5, <2>7, DueNext
            <4>2. Sent' = fresh + 1 /\ history'.next_seq = n BY <1>1
            <4> QED BY <2>2, <4>1, <4>2
        <3>3. CASE Len(c.rx) < RingSize
            <4>1. (fresh + 1) - Len(d.rx) = fresh - Len(c.rx)
                <5>1. fresh \in Nat /\ Len(c.rx) \in Nat /\ Len(d.rx) = Len(c.rx) + 1
                    BY <1>1, <2>4, <3>3
                <5> HIDE DEF c, d
                <5> QED BY <5>1
            <4>2. Due(w)' = Due(w) BY <3>1, <3>2, <4>1
            <4>3. SeenInv(w)' BY <1>1, <4>2, SeenKept DEF WatchInv
            <4>4. Got(w)' = Got(w) BY <1>1, <4>2 DEF Got
            <4>5. Len(c.rx) # RingSize BY <1>1, <3>3, CapAssumption
            <4>6. GapInv(w)' BY <1>1, <2>2, <4>4, <4>5 DEF WatchInv, GapInv
            <4> QED BY <2>2, <2>5, <4>2, <4>3, <4>6 DEF WatchInv
        <3>4. CASE Len(c.rx) = RingSize
            <4>1. Len(d.rx) = RingSize /\ RingSize \in Nat BY <2>4, <3>4, CapAssumption
            <4>2. (((fresh + 1) - RingSize)..(n - 1)) = ((fresh - RingSize)..(n - 1)) \ {fresh - RingSize}
                <5>0. fresh \in Nat /\ n \in Nat /\ RingSize \in Nat BY <1>1, <4>1
                <5>1. fresh - RingSize \in Int /\ n - 1 \in Int BY <5>0
                <5>2. (fresh + 1) - RingSize = (fresh - RingSize) + 1 BY <5>0
                <5> QED BY <5>1, <5>2, IntervalTail
            <4>3. Due(w)' \subseteq Due(w) BY <3>1, <3>2, <3>4, <4>1, <4>2
            <4>4. \A e \in Due(w) \ Due(w)' : e = fresh - RingSize
                BY <3>1, <3>2, <3>4, <4>1, <4>2
            <4>5. \A e \in Due(w) \ Due(w)' : e + RingSize < n
                <5>1. (fresh - RingSize) + RingSize < n BY <1>1, <4>1
                <5> QED BY <4>4, <5>1
            <4>6. SeenInv(w)' BY <1>1, <4>3, SeenKept DEF WatchInv
            <4>7. GapInv(w)' BY <2>2, <3>4 DEF GapInv
            <4> QED BY <2>2, <2>5, <4>3, <4>5, <4>6, <4>7 DEF WatchInv
        <3> QED BY <1>1, <3>3, <3>4, CapAssumption
    <2> QED BY <1>3, <2>6, <2>7 DEF Subscribed
<1> QED BY <1>2, <1>3

----------------------------------------------------------------------------
(* The invariant is inductive. *)
LEMMA WatchStep ==
    ASSUME TypeOK, MissionInv, TypeOK', MissionInv', NEW w \in Watcher, Watch(w),
           \A v \in Watcher : WatchInv(v)
    PROVE  \A v \in Watcher : WatchInv(v)'
<1>1. WatchInv(w) OBVIOUS
<1>2. WatchInv(w)'
    BY <1>1, WriteLineStep, ReceiveStep, SnapshotStep, JoinStep, LaggedStep, EndStep
       DEF Watch, Follow
<1>3. ASSUME NEW v \in Watcher, v # w
      PROVE  WatchInv(v)'
    <2>1. conn'[v] = conn[v] /\ UNCHANGED <<listed, history, fresh, file>>
        BY <1>3 DEF Watch, Follow, Subscribe, ReadFile, Snapshot, WriteLine, SkipEvent,
                    WriteEvent, Lagged, Closed, FileWritten, WriteFails, TypeOK
    <2>2. seen'[v] = seen[v] /\ (v \in told' <=> v \in told)
        BY <1>3 DEF Watch, Follow, Subscribe, ReadFile, Snapshot, WriteLine, SkipEvent,
                    WriteEvent, Lagged, Closed, FileWritten, WriteFails, TypeOK
    <2> QED BY <2>1, <2>2, Unmoved
<1> QED BY <1>2, <1>3

LEMMA Inductive ==
    ASSUME IInv, [Next]_vars
    PROVE  IInv'
<1>1. /\ TypeOK /\ MissionInv /\ \A v \in Watcher : WatchInv(v)
      /\ TypeOK' /\ MissionInv'
    BY TypeStep, MissionStep DEF IInv
<1>2. CASE \E n \in Length, written \in BOOLEAN : Record(n, written)
    BY <1>1, <1>2, RecordStep DEF IInv
<1>3. CASE Send
    BY <1>1, <1>3, SendStep DEF IInv
<1>4. CASE End \/ Cleanup \/ UNCHANGED vars
    <2>1. /\ UNCHANGED <<conn, seen, told, history, fresh, file>>
          /\ ~listed => ~listed'
        BY <1>4 DEF End, Cleanup, vars
    <2> QED BY <1>1, <2>1, Unmoved DEF IInv
<1>5. CASE \E w \in Watcher : Watch(w)
    BY <1>1, <1>5, WatchStep DEF IInv
<1> QED BY <1>2, <1>3, <1>4, <1>5 DEF Next, Recorder

LEMMA Initial == Init => IInv
<1> SUFFICES ASSUME Init PROVE IInv OBVIOUS
<1>1. TypeOK BY CapAssumption DEF Init, TypeOK, ConnType, Conn, None
<1>2. history.events = <<>> /\ Len(<<>>) = 0 /\ history.next_seq = 0 /\ fresh = None
    BY DEF Init
<1>3. MissionInv BY <1>2 DEF Init, MissionInv, None
<1>4. ASSUME NEW w \in Watcher PROVE WatchInv(w)
    <2>1. /\ conn[w].pc = "away" /\ conn[w].rx = <<>> /\ conn[w].todo = <<>>
          /\ seen[w] = <<>>
        BY DEF Init, Conn
    <2>2. ConnInv(w) BY <2>1 DEF ConnInv
    <2>3. SeenInv(w) BY <1>2, <2>1 DEF SeenInv
    <2>4. GapInv(w) BY <2>1 DEF GapInv
    <2> QED BY <2>2, <2>3, <2>4 DEF WatchInv
<1> QED BY <1>1, <1>3, <1>4 DEF IInv

THEOREM Invariant == Spec => []IInv
<1>1. IInv /\ [Next]_vars => IInv' BY Inductive
<1> QED BY <1>1, Initial, PTL DEF Spec

(* No watcher gets an event twice or late, for every number of watchers and
   every capacity of history and channel. *)
THEOREM OrderedOnce == Spec => []InOrder
<1>1. IInv => InOrder BY DEF IInv, WatchInv, SeenInv, InOrder
<1> QED BY <1>1, Invariant, PTL

(* A watcher that misses an event has lagged, and the daemon logs it. *)
THEOREM NoSilentGap == Spec => []MissedMeansLagged
<1>1. IInv => MissedMeansLagged
    BY DEF IInv, WatchInv, GapInv, Got, MissedMeansLagged
<1> QED BY <1>1, Invariant, PTL

----------------------------------------------------------------------------
(* The stream implements MissionFeed. *)
Dues == [w \in Watcher |-> Due(w)]
Phases == [w \in Watcher |-> Phase(w)]

LEMMA FeedInit == Init => Feed!Init
<1> SUFFICES ASSUME Init PROVE Feed!Init OBVIOUS
<1>1. history.next_seq = 0 /\ running = TRUE /\ seen = [w \in Watcher |-> <<>>]
    BY DEF Init
<1>2. ASSUME NEW w \in Watcher PROVE Due(w) = {} /\ Phase(w) = "away"
    <2>1. conn[w].pc = "away" /\ conn[w].todo = <<>> /\ Len(<<>>) = 0 BY DEF Init, Conn
    <2> QED BY <2>1 DEF Due, Owed, Elements, Phase
<1> QED BY <1>1, <1>2 DEF Feed!Init

LEMMA FeedRecord ==
    ASSUME IInv, IInv', NEW n \in Length, NEW written \in BOOLEAN, Record(n, written)
    PROVE  Feed!Record
<1>1. running /\ history'.next_seq = history.next_seq + 1
    BY RecordHistory DEF IInv, Record
<1>2. UNCHANGED <<running, conn, seen>> BY DEF Record
<1>3. ASSUME NEW w \in Watcher
      PROVE  /\ Phase(w)' = Phase(w)
             /\ Due(w)' = IF Phase(w) = "live" THEN Due(w) \cup {history.next_seq} ELSE Due(w)
    <2>1. Phase(w)' = Phase(w) BY <1>2 DEF Phase
    <2>2. Phase(w) = "live" <=> conn[w].pc = "watching"
        BY DEF Phase, IInv, TypeOK, ConnType
    <2> QED BY <2>1, <2>2, RecordStep DEF IInv
<1> QED BY <1>1, <1>2, <1>3 DEF Feed!Record

LEMMA FeedOverrun ==
    ASSUME IInv, IInv', Send
    PROVE  Feed!Overrun
<1> DEFINE lost == [w \in Watcher |-> Due(w) \ Due(w)']
           old == 0..(history.next_seq - RingSize - 1)
<1>1. UNCHANGED <<running, history, seen>> BY DEF Send
<1>2. ASSUME NEW w \in Watcher
      PROVE  /\ Phase(w)' = Phase(w)
             /\ Due(w)' = Due(w) \ lost[w]
             /\ lost[w] \subseteq old
    <2>1. /\ conn'[w].pc = conn[w].pc
          /\ Due(w)' \subseteq Due(w)
          /\ \A d \in Due(w) \ Due(w)' : d + RingSize < history.next_seq
        BY SendStep DEF IInv
    <2>2. \A d \in Due(w) : d \in Nat BY DueBelow DEF IInv, WatchInv
    <2>3. history.next_seq \in Nat /\ RingSize \in Nat BY CapAssumption DEF IInv, TypeOK
    <2>4. Phase(w)' = Phase(w) BY <2>1 DEF Phase
    <2>5. ASSUME NEW d \in Due(w) \ Due(w)' PROVE d \in old
        <3>1. d \in Nat /\ d + RingSize < history.next_seq BY <2>1, <2>2
        <3> QED BY <2>3, <3>1
    <2> QED BY <2>1, <2>4, <2>5
<1>3. lost \in [Watcher -> SUBSET old] BY <1>2
<1>4. Dues' = [w \in Watcher |-> Dues[w] \ lost[w]]
    <2> HIDE DEF lost
    <2> QED BY <1>2 DEF Dues
<1>5. Phases' = Phases BY <1>2 DEF Phases
<1> HIDE DEF lost
<1> QED BY <1>1, <1>3, <1>4, <1>5 DEF Feed!Overrun, Dues, Phases

(* A step of watcher w concerns only it. *)
LEMMA OnlyOne ==
    ASSUME IInv, NEW w \in Watcher, Watch(w)
    PROVE  /\ UNCHANGED <<running, listed, history>>
           /\ Dues' = [Dues EXCEPT ![w] = Due(w)']
           /\ Phases' = [Phases EXCEPT ![w] = Phase(w)']
<1>1. UNCHANGED <<running, listed, history, fresh>>
    BY DEF Watch, Follow, Subscribe, ReadFile, Snapshot, WriteLine, SkipEvent, WriteEvent,
           Lagged, Closed, FileWritten, WriteFails
<1>2. ASSUME NEW v \in Watcher, v # w PROVE conn'[v] = conn[v]
    BY <1>2 DEF Watch, Follow, Subscribe, ReadFile, Snapshot, WriteLine, SkipEvent,
           WriteEvent, Lagged, Closed, FileWritten, WriteFails, IInv, TypeOK
<1>3. ASSUME NEW v \in Watcher, v # w
      PROVE  Due(v)' = Due(v) /\ Phase(v)' = Phase(v)
    BY <1>1, <1>2, <1>3 DEF Due, Phase
<1> QED BY <1>1, <1>3 DEF Dues, Phases

LEMMA FeedWatch ==
    ASSUME IInv, IInv', NEW w \in Watcher, Watch(w)
    PROVE  [Feed!Next]_(Feed!vars)
<1> DEFINE c == conn[w]
<1>1. /\ UNCHANGED <<running, listed, history>>
      /\ Dues' = [Dues EXCEPT ![w] = Due(w)']
      /\ Phases' = [Phases EXCEPT ![w] = Phase(w)']
      /\ Dues[w] = Due(w) /\ Phases[w] = Phase(w)
    BY OnlyOne DEF Dues, Phases
<1>2. /\ TypeOK /\ MissionInv /\ TypeOK' /\ MissionInv' /\ WatchInv(w)
      /\ c \in ConnType /\ history.next_seq \in Nat
    BY DEF IInv, TypeOK
<1>3. ASSUME Due(w)' = Due(w), Phase(w)' = Phase(w), seen' = seen
      PROVE  UNCHANGED Feed!vars
    <2>1. Dues' = Dues /\ Phases' = Phases BY <1>1, <1>3 DEF Dues, Phases
    <2> QED BY <1>1, <1>3, <2>1 DEF Feed!vars, Dues, Phases
<1>4. CASE Subscribe(w)
    <2>1. Due(w)' = Due(w) BY <1>2, <1>4, JoinStep
    <2>2. conn'[w].pc = "subscribed" /\ c.pc = "away" /\ seen' = seen
        BY <1>2, <1>4 DEF Subscribe, TypeOK, ConnType
    <2>3. Phase(w)' = Phase(w) BY <2>2 DEF Phase
    <2> QED BY <1>3, <2>1, <2>2, <2>3
<1>5. CASE SkipEvent(w) \/ Lagged(w)
    <2>1. Due(w)' = Due(w) BY <1>2, <1>5, ReceiveStep, LaggedStep
    <2>2. conn'[w].pc = c.pc /\ seen' = seen
        BY <1>2, <1>5 DEF SkipEvent, Lagged, TypeOK, ConnType
    <2>3. Phase(w)' = Phase(w) BY <2>2 DEF Phase
    <2> QED BY <1>3, <2>1, <2>2, <2>3
<1>6. CASE ReadFile(w)
    <2>1. PICK n \in 0..file.lines : Due(w)' = 0..(n - 1) BY <1>2, <1>6, JoinStep
    <2>2. n \in 0..history.next_seq BY <1>2 DEF TypeOK, MissionInv
    <2>3. ~running BY <1>2, <1>6 DEF ReadFile, MissionInv
    <2>4. conn'[w].pc = "reading" /\ c.pc = "away" /\ seen' = seen
        <3>1. PICK k \in 0..file.lines :
                conn' = [conn EXCEPT ![w].pc = "reading",
                                     ![w].todo = [i \in 1..k |-> i - 1],
                                     ![w].cutoff = k]
            BY <1>6 DEF ReadFile
        <3>2. conn'[w] = [c EXCEPT !.pc = "reading",
                                   !.todo = [i \in 1..k |-> i - 1], !.cutoff = k]
            BY <1>2, <3>1 DEF TypeOK
        <3> QED BY <1>2, <1>6, <3>2 DEF ReadFile, ConnType
    <2>5. Phase(w)' = "replay" /\ Phase(w) = "away" BY <2>4 DEF Phase
    <2>6. Feed!Replay(w)
        BY <1>1, <2>1, <2>2, <2>3, <2>4, <2>5 DEF Feed!Replay, Dues, Phases
    <2> QED BY <2>6 DEF Feed!Next
<1>7. CASE Snapshot(w)
    <2> DEFINE first == history.next_seq - Len(history.events)
    <2>1. /\ Due(w)' = first..(history.next_seq - 1)
          /\ Len(history.events) \in 0..history.next_seq
        BY <1>2, <1>7, SnapshotStep
    <2>2. first \in 0..history.next_seq BY <1>2, <2>1
    <2>3. conn'[w].pc = "watching" /\ c.pc = "subscribed" /\ seen' = seen
        <3> DEFINE s == [i \in 1..Len(history.events) |-> history.events[i].seq]
        <3>1. conn' = [conn EXCEPT ![w].pc = "watching", ![w].todo = s,
                                   ![w].cutoff = history.next_seq]
            BY <1>7 DEF Snapshot
        <3>2. c.pc = "subscribed" /\ seen' = seen BY <1>7 DEF Snapshot
        <3> HIDE DEF s
        <3>3. conn'[w] = [c EXCEPT !.pc = "watching", !.todo = s, !.cutoff = history.next_seq]
            BY <1>2, <3>1 DEF TypeOK
        <3> QED BY <1>2, <3>2, <3>3 DEF ConnType
    <2>4. Phase(w)' = "live" /\ Phase(w) = "away" BY <2>3 DEF Phase
    <2>5. Feed!Join(w)
        <3> HIDE DEF first
        <3> QED BY <1>1, <2>1, <2>2, <2>3, <2>4 DEF Feed!Join, Dues, Phases
    <2> QED BY <2>5 DEF Feed!Next
<1>8. CASE WriteLine(w) \/ WriteEvent(w)
    <2>1. PICK e : Delivery(w, e) /\ seen' = [seen EXCEPT ![w] = Append(@, e)]
        BY <1>2, <1>8, WriteLineStep, ReceiveStep DEF WriteLine, WriteEvent
    <2>2. conn'[w].pc = c.pc /\ c.pc \in {"watching", "reading"}
        <3>1. conn'[w].pc = c.pc
            BY <1>2, <1>8 DEF WriteLine, WriteEvent, TypeOK, ConnType
        <3>2. CASE WriteLine(w) BY <1>2, <3>2 DEF WriteLine, WatchInv, ConnInv
        <3>3. CASE WriteEvent(w) BY <3>3 DEF WriteEvent, Receivable, Receiving
        <3> QED BY <1>8, <3>1, <3>2, <3>3
    <2>3. Phase(w)' = Phase(w) /\ Phase(w) \in {"live", "replay"} BY <2>2 DEF Phase
    <2>4. Phases' = Phases BY <1>1, <2>3 DEF Phases
    <2>5. Dues' = [Dues EXCEPT ![w] = Dues[w] \ {e}]
        BY <1>1, <2>1 DEF Delivery
    <2>6. Feed!Deliver(w)
        BY <1>1, <2>1, <2>3, <2>4, <2>5 DEF Feed!Deliver, Delivery, Dues, Phases
    <2> QED BY <2>6 DEF Feed!Next
<1>9. CASE Closed(w) \/ FileWritten(w)
    <2>1. Due(w) = {} /\ Due(w)' = {} BY <1>2, <1>9, EndStep
    <2>2. /\ conn'[w].pc \in {"closed", "done"} /\ c.pc \in {"watching", "reading"}
          /\ seen' = seen
        BY <1>2, <1>9 DEF Closed, FileWritten, Receiving, TypeOK, ConnType
    <2>3. Phase(w)' = "done" /\ Phase(w) \in {"live", "replay"} BY <2>2 DEF Phase
    <2>4. ~running
        BY <1>2, <1>9 DEF Closed, FileWritten, NoSender, WatchInv, ConnInv, MissionInv
    <2>5. Dues' = Dues BY <1>1, <2>1 DEF Dues
    <2>6. Feed!Finish(w)
        BY <1>1, <2>1, <2>2, <2>3, <2>4, <2>5 DEF Feed!Finish, Dues, Phases
    <2> QED BY <2>6 DEF Feed!Next
<1>10. CASE WriteFails(w)
    <2>1. Due(w)' = {} BY <1>2, <1>10, EndStep
    <2>2. conn'[w].pc = "left" /\ seen' = seen BY <1>10 DEF WriteFails, IInv, TypeOK, Conn
    <2>3. c.pc \in {"watching", "reading"}
        BY <1>2, <1>10 DEF WriteFails, Receivable, Receiving, WatchInv, ConnInv
    <2>4. Phase(w)' = "left" /\ Phase(w) \in {"live", "replay"} BY <2>2, <2>3 DEF Phase
    <2>5. Feed!Leave(w)
        BY <1>1, <2>1, <2>2, <2>4 DEF Feed!Leave, Dues, Phases
    <2> QED BY <2>5 DEF Feed!Next
<1> QED BY <1>4, <1>5, <1>6, <1>7, <1>8, <1>9, <1>10 DEF Watch, Follow

LEMMA FeedStep ==
    ASSUME IInv, IInv', [Next]_vars
    PROVE  [Feed!Next]_(Feed!vars)
<1>1. CASE \E n \in Length, written \in BOOLEAN : Record(n, written)
    BY <1>1, FeedRecord DEF Feed!Next
<1>2. CASE Send BY <1>2, FeedOverrun DEF Feed!Next
<1>3. CASE End \/ Cleanup \/ UNCHANGED vars
    <2>1. UNCHANGED <<conn, seen, history, fresh>> BY <1>3 DEF End, Cleanup, vars
    <2>2. ASSUME NEW w \in Watcher PROVE Due(w)' = Due(w) /\ Phase(w)' = Phase(w)
        BY <2>1 DEF Due, Phase
    <2>3. CASE End
        BY <2>1, <2>2, <2>3 DEF End, Feed!Next, Feed!End
    <2>4. CASE Cleanup \/ UNCHANGED vars
        BY <2>1, <2>2, <2>4 DEF Cleanup, vars, Feed!vars
    <2> QED BY <1>3, <2>3, <2>4
<1>4. CASE \E w \in Watcher : Watch(w) BY <1>4, FeedWatch
<1> QED BY <1>1, <1>2, <1>3, <1>4 DEF Next, Recorder

(* What the clients of cmd_watch get is what MissionFeed promises. *)
THEOREM Refinement == Spec => ImplementsFeed
<1>1. IInv /\ IInv' /\ [Next]_vars => [Feed!Next]_(Feed!vars) BY FeedStep
<1> QED BY <1>1, FeedInit, Invariant, PTL DEF Spec, ImplementsFeed, Feed!Spec

-----------------------------------------------------------------------------
(* The bytes of lines.  What the fold of Sum comes to is the size of the area
   that has a column as high as the line is long over each index. *)
Column(f, i) == {i} \X (1..f[i])
Area(f, S) == UNION {Column(f, i) : i \in S}
Total(f, a, b) == Cardinality(Area(f, a..b))

LEMMA ColumnSize ==
    ASSUME NEW f, NEW i, f[i] \in Nat
    PROVE  IsFiniteSet(Column(f, i)) /\ Cardinality(Column(f, i)) = f[i]
<1> DEFINE n == f[i]
<1>1. IsFiniteSet({i}) /\ Cardinality({i}) = 1
    BY FS_Singleton
<1>2. n \in Nat /\ Column(f, i) = {i} \X (1..n)
    BY DEF Column
<1> HIDE DEF n
<1>3. IsFiniteSet(1..n) /\ Cardinality(1..n) = n
    BY <1>2, FS_Interval
<1>4. IsFiniteSet({i} \X (1..n)) /\ Cardinality({i} \X (1..n)) = Cardinality({i}) * Cardinality(1..n)
    BY <1>1, <1>3, FS_Product
<1>5. Cardinality({i} \X (1..n)) = 1 * n
    BY <1>1, <1>3, <1>4
<1>6. IsFiniteSet(Column(f, i)) /\ Cardinality(Column(f, i)) = n
    BY <1>2, <1>4, <1>5
<1> QED
    BY <1>6 DEF n

LEMMA AreaFinite ==
    ASSUME NEW f, NEW S, IsFiniteSet(S), \A i \in S : f[i] \in Nat
    PROVE  IsFiniteSet(Area(f, S)) /\ Cardinality(Area(f, S)) \in Nat
<1> DEFINE C == {Column(f, i) : i \in S}
           g == [i \in S |-> Column(f, i)]
<1>1. g \in Surjection(S, C)
    BY DEF Surjection
<1>2. IsFiniteSet(C)
    BY <1>1, FS_Surjection
<1>3. \A c \in C : IsFiniteSet(c)
    BY ColumnSize
<1>4. IsFiniteSet(UNION C)
    BY <1>2, <1>3, FS_UNION
<1> QED
    BY <1>4, FS_CardinalityType DEF Area

(* Areas over disjoint sets of indices add up. *)
LEMMA AreaUnion ==
    ASSUME NEW f, NEW S, NEW T, IsFiniteSet(S), IsFiniteSet(T), S \cap T = {},
           \A i \in S \cup T : f[i] \in Nat
    PROVE  Cardinality(Area(f, S \cup T)) = Cardinality(Area(f, S)) + Cardinality(Area(f, T))
<1>1. /\ IsFiniteSet(Area(f, S)) /\ Cardinality(Area(f, S)) \in Nat
      /\ IsFiniteSet(Area(f, T)) /\ Cardinality(Area(f, T)) \in Nat
    BY AreaFinite
<1>2. Area(f, S \cup T) = Area(f, S) \cup Area(f, T)
    BY DEF Area
<1>3. Area(f, S) \cap Area(f, T) = {}
    BY DEF Area, Column
<1>4. Cardinality(Area(f, S) \cap Area(f, T)) = 0
    BY <1>3, FS_EmptySet
<1>5. Cardinality(Area(f, S) \cup Area(f, T))
         = Cardinality(Area(f, S)) + Cardinality(Area(f, T)) - Cardinality(Area(f, S) \cap Area(f, T))
    BY <1>1, FS_Union
<1> DEFINE a == Cardinality(Area(f, S))
           b == Cardinality(Area(f, T))
<1>6. a \in Nat /\ b \in Nat /\ Cardinality(Area(f, S) \cup Area(f, T)) = a + b - 0
    BY <1>1, <1>4, <1>5
<1> HIDE DEF a, b
<1>7. Cardinality(Area(f, S) \cup Area(f, T)) = a + b
    BY <1>6
<1> QED
    BY <1>2, <1>7 DEF a, b

LEMMA AreaOne ==
    ASSUME NEW f, NEW i, f[i] \in Nat
    PROVE  Cardinality(Area(f, {i})) = f[i]
<1>1. Area(f, {i}) = Column(f, i)
    BY DEF Area
<1> QED
    BY <1>1, ColumnSize

LEMMA EmptyArea == \A f : Cardinality(Area(f, {})) = 0
    BY FS_EmptySet DEF Area

(* The function that the fold defines. *)
IsSum(it, f, S) ==
    it = [t \in SUBSET S |->
            IF t = {} THEN 0
            ELSE f[CHOOSE x \in t : TRUE] + it[t \ {CHOOSE x \in t : TRUE}]]

LEMMA SumIs ==
    ASSUME NEW f
    PROVE  Sum(f) = (CHOOSE it : IsSum(it, f, DOMAIN f))[DOMAIN f]
    BY DEF Sum, IsSum, FoldFunction, FoldFunctionOnSet, MapThenFoldSet

LEMMA AreaStep ==
    ASSUME NEW f, NEW t, IsFiniteSet(t), \A i \in t : f[i] \in Nat, t # {}
    PROVE  /\ (CHOOSE x \in t : TRUE) \in t
           /\ Cardinality(Area(f, t))
                 = f[CHOOSE x \in t : TRUE] + Cardinality(Area(f, t \ {CHOOSE x \in t : TRUE}))
<1> DEFINE x == CHOOSE x \in t : TRUE
<1>1. x \in t
    OBVIOUS
<1> HIDE DEF x
<1>2. IsFiniteSet(t \ {x}) /\ IsFiniteSet({x})
    BY FS_RemoveElement, FS_Singleton
<1>3. (t \ {x}) \cup {x} = t /\ (t \ {x}) \cap {x} = {}
    BY <1>1
<1>4. Cardinality(Area(f, (t \ {x}) \cup {x})) = Cardinality(Area(f, t \ {x})) + Cardinality(Area(f, {x}))
    BY <1>1, <1>2, <1>3, AreaUnion
<1>5. Cardinality(Area(f, t \ {x})) \in Nat /\ f[x] \in Nat /\ Cardinality(Area(f, {x})) = f[x]
    BY <1>1, <1>2, AreaFinite, AreaOne
<1>6. Cardinality(Area(f, t)) = f[x] + Cardinality(Area(f, t \ {x}))
    BY <1>3, <1>4, <1>5
<1> QED
    BY <1>1, <1>6 DEF x

LEMMA SumExists ==
    ASSUME NEW f, NEW S, IsFiniteSet(S), \A i \in S : f[i] \in Nat
    PROVE  IsSum([t \in SUBSET S |-> Cardinality(Area(f, t))], f, S)
<1> DEFINE it == [t \in SUBSET S |-> Cardinality(Area(f, t))]
<1>1. ASSUME NEW t \in SUBSET S
      PROVE  it[t] = IF t = {} THEN 0
                     ELSE f[CHOOSE x \in t : TRUE] + it[t \ {CHOOSE x \in t : TRUE}]
    <2>1. IsFiniteSet(t)
        BY FS_Subset
    <2>2. CASE t = {}
        BY <2>2, EmptyArea
    <2>3. CASE t # {}
        <3>1. \A i \in t : f[i] \in Nat
            OBVIOUS
        <3>2. it[t \ {CHOOSE x \in t : TRUE}] = Cardinality(Area(f, t \ {CHOOSE x \in t : TRUE}))
            OBVIOUS
        <3>3. it[t] = Cardinality(Area(f, t))
            OBVIOUS
        <3>4. Cardinality(Area(f, t))
                = f[CHOOSE x \in t : TRUE] + Cardinality(Area(f, t \ {CHOOSE x \in t : TRUE}))
            BY <2>1, <2>3, <3>1, AreaStep
        <3> HIDE DEF it
        <3> QED
            BY <2>3, <3>2, <3>3, <3>4
    <2> QED
        BY <2>2, <2>3
<1> QED
    BY <1>1 DEF IsSum

(* No other function satisfies the equation: the least set on which one differs
   would not be empty, and then differ on less. *)
LEMMA SumUnique ==
    ASSUME NEW f, NEW S, IsFiniteSet(S), \A i \in S : f[i] \in Nat,
           NEW it, IsSum(it, f, S)
    PROVE  it[S] = Cardinality(Area(f, S))
<1> DEFINE Bad == {t \in SUBSET S : it[t] # Cardinality(Area(f, t))}
<1>1. SUFFICES ASSUME Bad # {} PROVE FALSE
    OBVIOUS
<1>2. IsWellFoundedOn(StrictSubsetOrdering(S), SUBSET S)
    BY FS_StrictSubsetOrderingWellFounded, FS_FiniteSubsetsOfFinite
<1>3. PICK t \in Bad : \A u \in Bad : <<u, t>> \notin StrictSubsetOrdering(S)
    BY <1>1, <1>2, WFMin
<1>4. IsFiniteSet(t) /\ t \subseteq S
    BY FS_Subset
<1>5. it[t] = IF t = {} THEN 0
              ELSE f[CHOOSE x \in t : TRUE] + it[t \ {CHOOSE x \in t : TRUE}]
    BY <1>4 DEF IsSum
<1>6. t # {}
    BY <1>5, EmptyArea
<1>7. PICK x \in t : it[t] = f[x] + it[t \ {x}]
                     /\ Cardinality(Area(f, t)) = f[x] + Cardinality(Area(f, t \ {x}))
    BY <1>4, <1>5, <1>6, AreaStep
<1>8. <<t \ {x}, t>> \in StrictSubsetOrdering(S)
    BY <1>4, <1>7 DEF StrictSubsetOrdering
<1>9. it[t \ {x}] = Cardinality(Area(f, t \ {x}))
    BY <1>3, <1>4, <1>8
<1> QED
    BY <1>7, <1>9

LEMMA SumIsArea ==
    ASSUME NEW f, IsFiniteSet(DOMAIN f), \A i \in DOMAIN f : f[i] \in Nat
    PROVE  Sum(f) = Cardinality(Area(f, DOMAIN f))
<1>1. IsSum(CHOOSE it : IsSum(it, f, DOMAIN f), f, DOMAIN f)
    BY SumExists
<1> QED
    BY <1>1, SumIs, SumUnique

(* A part of a sequence sums up to the total of its indices. *)
LEMMA SumOfPart ==
    ASSUME NEW f, NEW d \in Nat, NEW m \in Nat, \A i \in (d + 1)..(d + m) : f[i] \in Nat,
           NEW g, DOMAIN g = 1..m, \A i \in 1..m : g[i] = f[d + i]
    PROVE  Sum(g) = Total(f, d + 1, d + m)
<1> DEFINE G == Area(g, 1..m)
           F == Area(f, (d + 1)..(d + m))
           b == [p \in G |-> <<p[1] + d, p[2]>>]
<1>1. \A i \in 1..m : d + i \in (d + 1)..(d + m) /\ g[i] \in Nat
    OBVIOUS
<1>2. IsFiniteSet(1..m)
    BY FS_Interval
<1>3. IsFiniteSet(G)
    BY <1>1, <1>2, AreaFinite
<1>4. \A p : p \in G <=> \E i \in 1..m : \E x \in 1..g[i] : p = <<i, x>>
    BY DEF Area, Column
<1>5. \A p : p \in F <=> \E i \in (d + 1)..(d + m) : \E x \in 1..f[i] : p = <<i, x>>
    BY DEF Area, Column
<1> HIDE DEF G, F
<1>6. ASSUME NEW p \in G
      PROVE  <<p[1] + d, p[2]>> \in F
    <2>1. PICK i \in 1..m : \E x \in 1..g[i] : p = <<i, x>>
        BY <1>4
    <2>2. PICK x \in 1..g[i] : p = <<i, x>>
        BY <2>1
    <2>3. i + d \in (d + 1)..(d + m) /\ g[i] = f[i + d] /\ p[1] = i /\ p[2] = x
        BY <2>2
    <2> QED
        BY <1>5, <2>2, <2>3
<1>7. ASSUME NEW q \in F
      PROVE  \E p \in G : b[p] = q
    <2>1. PICK i \in (d + 1)..(d + m) : \E x \in 1..f[i] : q = <<i, x>>
        BY <1>5
    <2>2. PICK x \in 1..f[i] : q = <<i, x>>
        BY <2>1
    <2>3. i - d \in 1..m /\ g[i - d] = f[i] /\ (i - d) + d = i
        <3>1. i - d \in 1..m /\ d + (i - d) = i /\ (i - d) + d = i
            OBVIOUS
        <3> QED
            BY <3>1
    <2>4. <<i - d, x>> \in G
        BY <1>4, <2>2, <2>3
    <2>5. b[<<i - d, x>>] = q
        BY <2>2, <2>3, <2>4
    <2> QED
        BY <2>4, <2>5
<1>8. ASSUME NEW p \in G, NEW q \in G, b[p] = b[q]
      PROVE  p = q
    <2>1. PICK i \in 1..m : \E x : p = <<i, x>>
        BY <1>4
    <2>2. PICK j \in 1..m : \E y : q = <<j, y>>
        BY <1>4
    <2>3. PICK x : p = <<i, x>>
        BY <2>1
    <2>4. PICK y : q = <<j, y>>
        BY <2>2
    <2>5. <<i + d, x>> = <<j + d, y>>
        BY <1>8, <2>3, <2>4
    <2> QED
        BY <2>3, <2>4, <2>5
<1>12. b \in [G -> F]
    BY <1>6
<1> HIDE DEF b
<1>9. b \in Bijection(G, F)
    <2>1. b \in Injection(G, F)
        BY <1>8, <1>12 DEF Injection, IsInjective
    <2>2. b \in Surjection(G, F)
        BY <1>7, <1>12 DEF Surjection
    <2> QED
        BY <2>1, <2>2 DEF Bijection
<1>10. Cardinality(F) = Cardinality(G)
    BY <1>3, <1>9, FS_Bijection DEF ExistsBijection
<1>11. Sum(g) = Cardinality(G)
    BY <1>1, <1>2, SumIsArea DEF G
<1> QED
    BY <1>10, <1>11 DEF F, Total

----------------------------------------------------------------------------
(* The history is the end of all lengths that the limits leave, in terms of
   totals: k lines of N. *)
EndTotal(f, n, k) == Total(f, n - k + 1, n)
IsEnd(es, f, n, k) ==
    /\ k <= n
    /\ \A i \in 1..k : es[i].len = f[n - k + i] /\ es[i].seq = n - k + i - 1
IsRecent(es, b, f, n, k) ==
    /\ IsEnd(es, f, n, k)
    /\ b = EndTotal(f, n, k)
    /\ k <= MaxHistory /\ b <= MaxBytes
    /\ \A j \in (k + 1)..n : j > MaxHistory \/ EndTotal(f, n, j) > MaxBytes

RecentInv ==
    /\ lengths \in Seq(Nat)
    /\ Len(lengths) = history.next_seq
    /\ IsRecent(history.events, bytes, lengths, Len(lengths), Len(history.events))

LEMMA TotalType ==
    ASSUME NEW f, NEW a \in Int, NEW b \in Int, \A i \in a..b : f[i] \in Nat
    PROVE  Total(f, a, b) \in Nat
<1>1. IsFiniteSet(a..b)
    BY FS_Interval
<1> QED
    BY <1>1, AreaFinite DEF Total

LEMMA TotalSplit ==
    ASSUME NEW f, NEW a \in Int, NEW b \in Int, NEW c \in Int, a - 1 <= b, b <= c,
           \A i \in a..c : f[i] \in Nat
    PROVE  Total(f, a, c) = Total(f, a, b) + Total(f, b + 1, c)
<1>1. IsFiniteSet(a..b) /\ IsFiniteSet((b + 1)..c)
    BY FS_Interval
<1>2. a..c = (a..b) \cup ((b + 1)..c) /\ (a..b) \cap ((b + 1)..c) = {}
    OBVIOUS
<1>3. Cardinality(Area(f, (a..b) \cup ((b + 1)..c)))
         = Cardinality(Area(f, a..b)) + Cardinality(Area(f, (b + 1)..c))
    BY <1>1, <1>2, AreaUnion
<1> QED
    BY <1>2, <1>3 DEF Total

LEMMA TotalSame ==
    ASSUME NEW f, NEW g, NEW a \in Int, NEW b \in Int, \A i \in a..b : f[i] = g[i]
    PROVE  Total(f, a, b) = Total(g, a, b)
<1>1. Area(f, a..b) = Area(g, a..b)
    BY DEF Area, Column
<1> QED
    BY <1>1 DEF Total

(* One more line: an end of the longer sequence is that of the shorter one with
   the line. *)
LEMMA LastGrows ==
    ASSUME NEW f \in Seq(Nat), NEW n \in Nat, n = Len(f), NEW x \in Nat, NEW k \in 0..n
    PROVE  /\ EndTotal(Append(f, x), n + 1, k + 1) = EndTotal(f, n, k) + x
           /\ EndTotal(f, n, k) \in Nat
<1> DEFINE g == Append(f, x)
           a == n - k + 1
<1>1. /\ \A i \in 1..n : g[i] = f[i] /\ f[i] \in Nat
      /\ g[n + 1] = x
    BY AppendProperties, ElementOfSeq
<1>2. a \in Int /\ a \in 1..(n + 1) /\ a - 1 <= n
    OBVIOUS
<1>3. (n + 1) - (k + 1) + 1 = a
    OBVIOUS
<1> HIDE DEF a, g
<1>4. \A i \in a..(n + 1) : g[i] \in Nat
    <2> SUFFICES ASSUME NEW i \in a..(n + 1) PROVE g[i] \in Nat
        OBVIOUS
    <2>1. i \in 1..n \/ i = n + 1
        BY <1>2
    <2> QED
        BY <1>1, <2>1
<1>5. Total(g, a, n + 1) = Total(g, a, n) + Total(g, n + 1, n + 1)
    BY <1>2, <1>4, TotalSplit
<1>6. \A i \in a..n : g[i] = f[i] /\ f[i] \in Nat
    BY <1>1, <1>2
<1>7. Total(g, a, n) = Total(f, a, n) /\ Total(f, a, n) \in Nat
    BY <1>2, <1>6, TotalSame, TotalType
<1>8. Total(g, n + 1, n + 1) = x
    <2>1. (n + 1)..(n + 1) = {n + 1}
        OBVIOUS
    <2>2. Cardinality(Area(g, {n + 1})) = x
        BY <1>1, AreaOne
    <2> QED
        BY <2>1, <2>2 DEF Total
<1> QED
    BY <1>3, <1>5, <1>7, <1>8 DEF EndTotal, a, g

LEMMA LastNone ==
    ASSUME NEW f, NEW n \in Nat
    PROVE  EndTotal(f, n, 0) = 0
<1>1. (n - 0 + 1)..n = {}
    OBVIOUS
<1> QED
    BY <1>1, EmptyArea DEF EndTotal, Total

(* What is left of an end once its first lines are taken away. *)
LEMMA LastLess ==
    ASSUME NEW f \in Seq(Nat), NEW n \in Nat, n = Len(f), NEW k \in 0..n, NEW d \in 0..k,
           NEW g, DOMAIN g = 1..d, \A i \in 1..d : g[i] = f[n - k + i]
    PROVE  /\ EndTotal(f, n, k) - Sum(g) = EndTotal(f, n, k - d)
           /\ Sum(g) \in Nat
<1> DEFINE a == n - k
<1>1. a \in Nat /\ n - k + 1 = a + 1 /\ n - (k - d) + 1 = (a + d) + 1
    OBVIOUS
<1>2. \A i \in 1..n : f[i] \in Nat
    BY ElementOfSeq
<1>3. d \in Nat /\ a + d <= n /\ (a + 1) - 1 <= a + d
    OBVIOUS
<1>4. \A i \in 1..d : g[i] = f[a + i]
    OBVIOUS
<1> HIDE DEF a
<1>5. \A i \in (a + 1)..n : f[i] \in Nat
    BY <1>1, <1>2
<1>6. \A i \in (a + 1)..(a + d) : f[i] \in Nat
    BY <1>1, <1>3, <1>5
<1>7. Sum(g) = Total(f, a + 1, a + d)
    <2>1. a \in Nat /\ d \in Nat /\ DOMAIN g = 1..d
        BY <1>1, <1>3
    <2> QED
        BY <2>1, <1>4, <1>6, SumOfPart
<1>8. Total(f, a + 1, n) = Total(f, a + 1, a + d) + Total(f, (a + d) + 1, n)
    BY <1>1, <1>3, <1>5, TotalSplit
<1>9. Total(f, a + 1, a + d) \in Nat /\ Total(f, (a + d) + 1, n) \in Nat
    <2>1. \A i \in ((a + d) + 1)..n : f[i] \in Nat
        BY <1>1, <1>3, <1>5
    <2> DEFINE c == (a + d) + 1
    <2>2. a + 1 \in Int /\ a + d \in Int /\ c \in Int /\ n \in Int
        BY <1>1, <1>3
    <2>3. Total(f, a + 1, a + d) \in Nat
        BY <1>6, <2>2, TotalType
    <2>4. \A i \in c..n : f[i] \in Nat
        BY <2>1
    <2> HIDE DEF c
    <2>5. Total(f, c, n) \in Nat
        BY <2>2, <2>4, TotalType
    <2> QED
        BY <2>3, <2>5 DEF c
<1>10. EndTotal(f, n, k) = Total(f, a + 1, n) /\ EndTotal(f, n, k - d) = Total(f, (a + d) + 1, n)
    BY <1>1 DEF EndTotal
<1> QED
    BY <1>7, <1>8, <1>9, <1>10

(* Appending a line keeps the longest end that is within the limits. *)
LEMMA RecentRecord ==
    ASSUME TypeOK, MissionInv, RecentInv, NEW n \in Length, NEW written \in BOOLEAN,
           Record(n, written)
    PROVE  RecentInv'
<1> DEFINE es == Pushed(n)
           L == Len(history.events)
           q == history.next_seq
           f == lengths
           g == Append(lengths, n)
<1>1. /\ lengths' = g /\ q \in Nat /\ L \in Nat /\ n \in Nat
      /\ f \in Seq(Nat) /\ Len(f) = q /\ IsRecent(history.events, bytes, f, q, L)
      /\ history.events \in Seq(EventType)
    BY CapAssumption DEF Record, TypeOK, RecentInv
<1>2. /\ g \in Seq(Nat) /\ Len(g) = q + 1 /\ g[q + 1] = n
      /\ \A i \in 1..q : g[i] = f[i]
    BY <1>1, AppendProperties
<1>3. /\ Len(es) = L + 1
      /\ \A i \in 1..L : es[i] = history.events[i]
      /\ es[L + 1] = [seq |-> q, len |-> n]
    BY <1>1 DEF Pushed
<1>4. PICK d \in 0..Len(es) :
         /\ Fits(es, d, n) \/ d = Len(es)
         /\ \A j \in 0..(d - 1) : ~Fits(es, j, n)
         /\ history' = [events |-> SubSeq(es, d + 1, Len(es)), next_seq |-> q + 1]
         /\ bytes' = BytesLeft(es, d, n)
    BY DEF Record, AppendLine
<1> HIDE DEF es, L, q, g, f
<1>5. /\ L <= q /\ bytes = EndTotal(f, q, L)
      /\ \A i \in 1..L : es[i].len = f[q - L + i] /\ es[i].seq = q - L + i - 1
    BY <1>1, <1>3 DEF IsRecent, IsEnd
<1>6. /\ d \in Nat /\ d <= L + 1
      /\ Fits(es, d, n) \/ d = L + 1
      /\ \A j \in 0..(d - 1) : ~Fits(es, j, n)
      /\ history' = [events |-> SubSeq(es, d + 1, L + 1), next_seq |-> q + 1]
      /\ bytes' = BytesLeft(es, d, n)
    BY <1>1, <1>3, <1>4
<1>7. ASSUME NEW i \in 1..(L + 1)
      PROVE  es[i].len = g[q - L + i] /\ es[i].seq = q - L + i - 1
    <2>1. CASE i = L + 1
        <3>1. es[i].seq = q /\ es[i].len = n
            BY <1>3, <2>1
        <3>2. q - L + i = q + 1
            BY <1>1, <2>1
        <3> QED
            BY <1>1, <1>2, <3>1, <3>2
    <2>2. CASE i # L + 1
        <3>1. i \in 1..L /\ q - L + i \in 1..q
            BY <1>1, <1>5, <2>2
        <3> QED
            BY <1>2, <1>5, <3>1
    <2> QED
        BY <2>1, <2>2
(* What an end of the longer sequence amounts to. *)
<1>8. /\ EndTotal(g, q + 1, L + 1) = bytes + n
      /\ \A k \in 0..q : EndTotal(g, q + 1, k + 1) = EndTotal(f, q, k) + n /\ EndTotal(f, q, k) \in Nat
    <2>1. \A k \in 0..q : EndTotal(g, q + 1, k + 1) = EndTotal(f, q, k) + n /\ EndTotal(f, q, k) \in Nat
        BY <1>1, LastGrows DEF g, f
    <2>2. L \in 0..q
        BY <1>1, <1>5
    <2> QED
        BY <1>5, <2>1, <2>2
<1>9. ASSUME NEW j \in 0..(L + 1)
      PROVE  BytesLeft(es, j, n) = EndTotal(g, q + 1, (L + 1) - j)
    <2> DEFINE h == [i \in 1..j |-> es[i].len]
    <2>1. DOMAIN h = 1..j /\ \A i \in 1..j : h[i] = es[i].len
        OBVIOUS
    <2>2. \A i \in 1..j : h[i] = g[(q + 1) - (L + 1) + i]
        <3> SUFFICES ASSUME NEW i \in 1..j PROVE h[i] = g[(q + 1) - (L + 1) + i]
            OBVIOUS
        <3>1. i \in 1..(L + 1) /\ (q + 1) - (L + 1) + i = q - L + i
            BY <1>1
        <3> QED
            BY <1>7, <2>1, <3>1
    <2>3. BytesLeft(es, j, n) = bytes + n - Sum(h)
        BY DEF BytesLeft
    <2> HIDE DEF h
    <2>4. q + 1 \in Nat /\ L + 1 \in 0..(q + 1) /\ q + 1 = Len(g)
        BY <1>1, <1>2, <1>5
    <2>5. EndTotal(g, q + 1, L + 1) - Sum(h) = EndTotal(g, q + 1, (L + 1) - j)
        BY <1>2, <2>1, <2>2, <2>4, LastLess
    <2>6. EndTotal(g, q + 1, L + 1) = bytes + n
        BY <1>8
    <2>7. Sum(h) \in Nat /\ bytes \in Nat
        <3>1. L \in 0..q
            BY <1>1, <1>5
        <3>2. EndTotal(f, q, L) \in Nat
            BY <1>8, <3>1
        <3>3. Sum(h) \in Nat
            BY <1>2, <2>1, <2>2, <2>4, LastLess
        <3> QED
            BY <1>5, <3>2, <3>3
    <2>8. bytes + n - Sum(h) = (bytes + n) - Sum(h)
        BY <1>1, <2>7
    <2> QED
        BY <2>3, <2>5, <2>6, <2>8, Zenon
<1> DEFINE k == (L + 1) - d
<1>10. /\ k \in 0..(L + 1) /\ bytes' = EndTotal(g, q + 1, k)
       /\ d \in 0..(L + 1)
    BY <1>1, <1>6, <1>9
<1>11. ASSUME NEW j \in 0..(L + 1)
       PROVE  Fits(es, j, n) <=> (L + 1) - j <= MaxHistory /\ EndTotal(g, q + 1, (L + 1) - j) <= MaxBytes
    <2>1. BytesLeft(es, j, n) = EndTotal(g, q + 1, (L + 1) - j)
        BY <1>9
    <2>2. Fits(es, j, n) <=> Len(es) - j <= MaxHistory /\ BytesLeft(es, j, n) <= MaxBytes
        BY DEF Fits
    <2>3. Len(es) = L + 1
        BY <1>3
    <2> QED
        BY <2>1, <2>2, <2>3, Zenon
<1>12. k <= MaxHistory /\ EndTotal(g, q + 1, k) <= MaxBytes
    <2>1. CASE Fits(es, d, n)
        BY <1>10, <1>11, <2>1
    <2>2. CASE d = L + 1
        <3>1. k = 0 /\ q + 1 \in Nat
            BY <1>1, <2>2
        <3>2. EndTotal(g, q + 1, 0) = 0
            BY <3>1, LastNone
        <3> HIDE DEF k
        <3> QED
            BY <3>1, <3>2, CapAssumption
    <2> QED
        BY <1>6, <2>1, <2>2
<1>13. ASSUME NEW j \in (k + 1)..(q + 1)
       PROVE  j > MaxHistory \/ EndTotal(g, q + 1, j) > MaxBytes
    <2>1. CASE j <= L + 1
        <3>1. (L + 1) - j \in 0..(d - 1) /\ (L + 1) - j \in 0..(L + 1) /\ (L + 1) - ((L + 1) - j) = j
            BY <1>1, <1>6, <2>1
        <3>2. ~(j <= MaxHistory /\ EndTotal(g, q + 1, j) <= MaxBytes)
            BY <1>6, <1>11, <3>1
        <3>3. EndTotal(g, q + 1, j) \in Int
            <4>1. j - 1 \in 0..q /\ (j - 1) + 1 = j
                BY <1>1, <1>5, <1>10, <2>1
            <4>2. EndTotal(g, q + 1, j) = EndTotal(f, q, j - 1) + n /\ EndTotal(f, q, j - 1) \in Nat
                BY <1>8, <4>1
            <4> QED
                BY <1>1, <4>2
        <3>4. j \in Int
            OBVIOUS
        <3> QED
            BY <3>2, <3>3, <3>4, CapAssumption
    <2>2. CASE j > L + 1
        <3>1. j - 1 \in (L + 1)..q /\ j - 1 \in 0..q /\ (j - 1) + 1 = j
            BY <1>1, <1>10, <2>2
        <3>2. j - 1 > MaxHistory \/ EndTotal(f, q, j - 1) > MaxBytes
            BY <1>1, <3>1 DEF IsRecent
        <3>3. EndTotal(g, q + 1, j) = EndTotal(f, q, j - 1) + n /\ EndTotal(f, q, j - 1) \in Nat
            BY <1>8, <3>1
        <3> QED
            BY <1>1, <3>1, <3>2, <3>3, CapAssumption
    <2> QED
        BY <1>1, <1>10, <2>1, <2>2
<1>14. /\ Len(history'.events) = k
       /\ \A i \in 1..k : history'.events[i] = es[d + i]
       /\ history'.next_seq = q + 1
    <2> DEFINE S == {es[i] : i \in (d + 1)..(L + 1)}
    <2>1. \A i \in (d + 1)..(L + 1) : es[i] \in S
        OBVIOUS
    <2>2. d + 1 \in Int /\ L + 1 \in Int
        BY <1>1, <1>6
    <2> HIDE DEF S
    <2>3. /\ Len(SubSeq(es, d + 1, L + 1)) =
                 IF d + 1 <= L + 1 THEN (L + 1) - (d + 1) + 1 ELSE 0
          /\ \A i \in 1..((L + 1) - (d + 1) + 1) :
                 SubSeq(es, d + 1, L + 1)[i] = es[(d + 1) + i - 1]
        BY <2>1, <2>2, SubSeqProperties
    <2>4. (L + 1) - (d + 1) + 1 = k
        BY <1>1, <1>6
    <2>5. \A i \in 1..k : (d + 1) + i - 1 = d + i
        BY <1>6
    <2>6. (IF d + 1 <= L + 1 THEN (L + 1) - (d + 1) + 1 ELSE 0) = k
        BY <1>1, <1>6
    <2> HIDE DEF k
    <2> QED
        BY <1>6, <2>3, <2>4, <2>5, <2>6
<1>15. IsEnd(history'.events, g, q + 1, k)
    <2>1. k <= q + 1
        BY <1>1, <1>5, <1>10
    <2>2. ASSUME NEW i \in 1..k
          PROVE  /\ history'.events[i].len = g[(q + 1) - k + i]
                 /\ history'.events[i].seq = (q + 1) - k + i - 1
        <3>1. d + i \in 1..(L + 1) /\ q - L + (d + i) = (q + 1) - k + i
            BY <1>1, <1>6
        <3>2. es[d + i].len = g[q - L + (d + i)] /\ es[d + i].seq = q - L + (d + i) - 1
            BY <1>7, <3>1
        <3>3. history'.events[i] = es[d + i]
            BY <1>14
        <3>4. q - L + (d + i) = (q + 1) - k + i /\ q - L + (d + i) - 1 = (q + 1) - k + i - 1
            BY <1>1, <1>6, <3>1
        <3> HIDE DEF k
        <3> QED
            BY <3>2, <3>3, <3>4, Zenon
    <2> QED
        BY <2>1, <2>2 DEF IsEnd
<1>16. IsRecent(history'.events, bytes', g, q + 1, k)
    BY <1>10, <1>12, <1>13, <1>15 DEF IsRecent
<1> HIDE DEF k
<1> QED
    BY <1>1, <1>2, <1>14, <1>16 DEF RecentInv

LEMMA RecentStep ==
    ASSUME TypeOK, MissionInv, RecentInv, [Next]_vars
    PROVE  RecentInv'
<1>1. CASE \E n \in Length, written \in BOOLEAN : Record(n, written)
    BY <1>1, RecentRecord
<1>2. ASSUME UNCHANGED <<history, bytes, lengths>>
      PROVE  RecentInv'
    BY <1>2 DEF RecentInv
<1>3. CASE Send \/ End \/ Cleanup \/ UNCHANGED vars
    BY <1>2, <1>3 DEF Send, End, Cleanup, vars
<1>4. CASE \E w \in Watcher : Watch(w)
    BY <1>2, <1>4 DEF Watch, Follow, Subscribe, ReadFile, Snapshot, WriteLine, SkipEvent,
                      WriteEvent, Lagged, Closed, FileWritten, WriteFails
<1> QED
    BY <1>1, <1>3, <1>4 DEF Next, Recorder

LEMMA RecentInit == Init => RecentInv
<1> SUFFICES ASSUME Init PROVE RecentInv
    OBVIOUS
<1>1. history.events = <<>> /\ history.next_seq = 0 /\ bytes = 0 /\ lengths = <<>>
    BY DEF Init
<1>2. lengths \in Seq(Nat) /\ Len(lengths) = 0 /\ Len(history.events) = 0
    BY <1>1
<1>3. EndTotal(lengths, 0, 0) = 0
    BY LastNone
<1>4. IsRecent(history.events, 0, lengths, 0, 0)
    BY <1>3, CapAssumption DEF IsRecent, IsEnd
<1> QED
    BY <1>1, <1>2, <1>4 DEF RecentInv

(* The lines held in the history, as the property lists them. *)
LEMMA EndIsPart ==
    ASSUME NEW f \in Seq(Nat), NEW n \in Nat, n = Len(f), NEW k \in 0..n
    PROVE  LET p == SubSeq(f, n - k + 1, n)
           IN  /\ p \in Seq(Nat) /\ Len(p) = k
               /\ \A i \in 1..k : p[i] = f[n - k + i]
               /\ Sum(p) = EndTotal(f, n, k)
<1> DEFINE p == SubSeq(f, n - k + 1, n)
           a == n - k
<1>1. a \in Nat /\ k \in Nat /\ a + k = n
    OBVIOUS
<1>2. \A i \in 1..n : f[i] \in Nat
    BY ElementOfSeq
<1>3. p \in Seq(Nat) /\ Len(p) = k /\ \A i \in 1..k : p[i] = f[a + i]
    <2>1. \A i \in (a + 1)..n : f[i] \in Nat
        BY <1>1, <1>2
    <2>2. a + 1 \in Int /\ n \in Int
        BY <1>1
    <2> HIDE DEF a
    <2>3. /\ SubSeq(f, a + 1, n) \in Seq(Nat)
          /\ Len(SubSeq(f, a + 1, n)) = IF a + 1 <= n THEN n - (a + 1) + 1 ELSE 0
          /\ \A i \in 1..(n - (a + 1) + 1) : SubSeq(f, a + 1, n)[i] = f[(a + 1) + i - 1]
        BY <2>1, <2>2, SubSeqProperties
    <2>4. n - (a + 1) + 1 = k /\ (IF a + 1 <= n THEN n - (a + 1) + 1 ELSE 0) = k
        BY <1>1
    <2>5. \A i \in 1..k : (a + 1) + i - 1 = a + i
        BY <1>1
    <2> QED
        BY <2>3, <2>4, <2>5 DEF a
<1>4. Sum(p) = Total(f, a + 1, a + k)
    <2>1. DOMAIN p = 1..k
        BY <1>3
    <2>2. \A i \in (a + 1)..(a + k) : f[i] \in Nat
        BY <1>1, <1>2
    <2> HIDE DEF p, a
    <2> QED
        BY <1>1, <1>3, <2>1, <2>2, SumOfPart
<1>5. EndTotal(f, n, k) = Total(f, a + 1, n)
    BY DEF EndTotal
<1> HIDE DEF p, a
<1>6. Sum(p) = EndTotal(f, n, k)
    BY <1>1, <1>4, <1>5, Zenon
<1> QED
    BY <1>3, <1>6 DEF p, a

(* MissionHistory::append: the history is always the longest end of all that
   was recorded that is within both limits, and its byte count never drifts. *)
THEOREM RecentKept == Spec => []HistoryIsRecent
<1>1. TypeOK /\ RecentInv => HistoryIsRecent
    <2> SUFFICES ASSUME TypeOK, RecentInv PROVE HistoryIsRecent
        OBVIOUS
    <2> DEFINE k == Len(history.events)
               n == Len(lengths)
               es == history.events
    <2>1. lengths \in Seq(Nat) /\ n \in Nat /\ k \in Nat /\ IsRecent(es, bytes, lengths, n, k)
        BY DEF RecentInv, TypeOK
    <2> HIDE DEF k, n, es
    <2>2. ASSUME NEW j \in 0..n
          PROVE  /\ Retained(j) \in Seq(Nat) /\ Len(Retained(j)) = j
                 /\ \A i \in 1..j : Retained(j)[i] = lengths[n - j + i]
                 /\ Sum(Retained(j)) = EndTotal(lengths, n, j)
        BY <2>1, EndIsPart DEF Retained, n
    <2>3. k \in 0..n /\ \A i \in 1..k : es[i].len = lengths[n - k + i] /\ es[i].seq = n - k + i - 1
        BY <2>1 DEF IsRecent, IsEnd
    <2>4. [i \in 1..k |-> es[i].len] = Retained(k)
        <3>1. Retained(k) \in Seq(Nat) /\ Len(Retained(k)) = k
            BY <2>2, <2>3
        <3>2. \A i \in 1..k : Retained(k)[i] = es[i].len
            BY <2>2, <2>3
        <3>3. Retained(k) = [i \in 1..k |-> Retained(k)[i]]
            BY <3>1
        <3> QED
            BY <3>2, <3>3
    <2>5. [i \in 1..k |-> es[i].seq] = [i \in 1..k |-> n - k + i - 1]
        BY <2>3
    <2>6. bytes = Sum(Retained(k)) /\ k <= MaxHistory /\ bytes <= MaxBytes
        BY <2>1, <2>2, <2>3 DEF IsRecent
    <2>7. \A j \in (k + 1)..n : j > MaxHistory \/ Sum(Retained(j)) > MaxBytes
        <3> SUFFICES ASSUME NEW j \in (k + 1)..n
                     PROVE  j > MaxHistory \/ Sum(Retained(j)) > MaxBytes
            OBVIOUS
        <3>1. j \in 0..n
            BY <2>1
        <3>2. Sum(Retained(j)) = EndTotal(lengths, n, j)
            BY <2>2, <3>1
        <3> QED
            BY <2>1, <3>2 DEF IsRecent
    <2> QED
        BY <2>4, <2>5, <2>6, <2>7 DEF HistoryIsRecent, k, n, es
<1>2. RecentInv /\ IInv /\ [Next]_vars => RecentInv'
    BY RecentStep DEF IInv
<1>3. IInv => TypeOK
    BY DEF IInv
<1> QED
    BY <1>1, <1>2, <1>3, RecentInit, Invariant, PTL DEF Spec
=============================================================================
