--------------------------- MODULE Registry_proofs ---------------------------
(***************************************************************************)
(* Proofs about Registry for every set of names and clients and every      *)
(* limit: names, the board and the end of the daemon.                      *)
(***************************************************************************)
EXTENDS Registry, TLAPS

(* Names and numbers of missions belong together, and numbers are given in turn. *)
EntryInv ==
    /\ \A n \in Name : entry[n] # NoMission =>
          named[entry[n]] = n /\ stage[entry[n]] # "none"
    /\ \A i \in Mission : i > launched => stage[i] = "none"

(* A launch under way is that of a mission whose task is not spawned, and of no
   other client. *)
Launches(c) == client[c].at = "launch"
ClientInv ==
    /\ \A c \in Client : Launches(c) => stage[client[c].of] = "new"
    /\ \A c, d \in Client :
          Launches(c) /\ Launches(d) /\ client[c].of = client[d].of => c = d

(* A mission ends once. *)
OnceEnded == \A k, l \in DOMAIN cleanup : cleanup[k] = cleanup[l] => k = l

RegistryInv == TypeOK /\ EntryInv /\ ClientInv /\ OnceEnded /\ NamesAreOwn

(* The task that collected last, unless somebody is about to collect, sees the
   missions as they are; and when it has sent what it saw, the board does. *)
Latest(t) == publisher[t].at = "read" /\ publisher[t].last
Settled == \A t \in Task : publisher[t].at # "collect"
Correct(t) ==
    /\ publisher[t].left \subseteq Registered
    /\ publisher[t].seen = {<<i, state[i]>> : i \in Registered \ publisher[t].left}
BoardInv ==
    /\ \A t, u \in Task : Latest(t) /\ Latest(u) => t = u
    /\ fresh => \A t \in Task : ~Latest(t)
    /\ Settled => \A t \in Task : Latest(t) => Correct(t)
    /\ Settled /\ fresh => board = Now

-----------------------------------------------------------------------------
Publisher ==
    [at : {"off", "collect"}]
    \cup [at : {"read"}, left : SUBSET Mission, seen : SUBSET Summary, last : BOOLEAN]
Connections ==
    {Idle} \cup [at : {"launch"}, of : Mission]
           \cup [at : {"send"}, to : Mission, cmd : {"hold", "abort"}]
Commands == {"hold", "abort"}

(* What a task that publishes can become is a publisher. *)
LEMMA PublisherType ==
    ASSUME publisher \in [Task -> Publisher]
    PROVE  /\ \A t : Due(t) => publisher' \in [Task -> Publisher]
           /\ \A t \in Task : Collected(t) \in [Task -> Publisher]
           /\ \A t \in Task, i \in Mission, s \in State :
                 publisher[t].at = "read" =>
                    [publisher EXCEPT ![t].left = @ \ {i}, ![t].seen = @ \cup {<<i, s>>}]
                        \in [Task -> Publisher]
           /\ \A t : [publisher EXCEPT ![t] = Off] \in [Task -> Publisher]
<1>0. [at |-> "collect"] \in Publisher
  BY DEF Publisher
<1>1. \A t : Due(t) => publisher' \in [Task -> Publisher]
  BY <1>0 DEF Due
<1>2. ASSUME NEW t \in Task PROVE Collected(t) \in [Task -> Publisher]
  <2>1. Registered \in SUBSET Mission
    BY DEF Registered
  <2>2. [at |-> "read", left |-> Registered, seen |-> {}, last |-> TRUE] \in Publisher
    BY <2>1 DEF Publisher
  <2>3. ASSUME NEW u \in Task, publisher[u].at = "read"
        PROVE  [publisher[u] EXCEPT !.last = FALSE] \in Publisher
    <3>1. publisher[u] \in [at : {"read"}, left : SUBSET Mission, seen : SUBSET Summary,
                            last : BOOLEAN]
      BY <2>3 DEF Publisher
    <3> QED
      BY <3>1 DEF Publisher
  <2> QED
    BY <2>2, <2>3 DEF Collected
<1>3. ASSUME NEW t \in Task, NEW i \in Mission, NEW s \in State, publisher[t].at = "read"
      PROVE  [publisher EXCEPT ![t].left = @ \ {i}, ![t].seen = @ \cup {<<i, s>>}]
                 \in [Task -> Publisher]
  <2>1. publisher[t] \in [at : {"read"}, left : SUBSET Mission, seen : SUBSET Summary,
                          last : BOOLEAN]
    BY <1>3 DEF Publisher
  <2>2. publisher[t].left \ {i} \in SUBSET Mission
        /\ publisher[t].seen \cup {<<i, s>>} \in SUBSET Summary
    BY <2>1 DEF Summary
  <2>3. [publisher[t] EXCEPT !.left = @ \ {i}, !.seen = @ \cup {<<i, s>>}] \in Publisher
    BY <2>1, <2>2 DEF Publisher
  <2> QED
    BY <2>3
<1>4. \A t : [publisher EXCEPT ![t] = Off] \in [Task -> Publisher]
  BY DEF Off, Publisher
<1> QED
  BY <1>1, <1>2, <1>3, <1>4

(* What becomes of a channel is a channel, and within its capacity. *)
ChannelType == ctrl \in [Mission -> Seq(Commands)] /\ \A i \in Mission : Len(ctrl[i]) <= Capacity

LEMMA QueuedType ==
    ASSUME ChannelType, NEW i \in Mission, NEW cmd \in Commands, Queued(i, cmd)
    PROVE  ChannelType'
<1>1. CASE stage[i] = "gone"
  BY <1>1 DEF Queued, ChannelType
<1>2. CASE stage[i] # "gone"
  <2>1. Len(ctrl[i]) < Capacity /\ ctrl' = [ctrl EXCEPT ![i] = Append(ctrl[i], cmd)]
    BY <1>2 DEF Queued
  <2>2. Append(ctrl[i], cmd) \in Seq(Commands) /\ Len(Append(ctrl[i], cmd)) = Len(ctrl[i]) + 1
    BY DEF ChannelType
  <2>3. Capacity \in Nat /\ Len(ctrl[i]) \in Nat
    BY RegistryAssumption DEF ChannelType
  <2> QED
    BY <2>1, <2>2, <2>3 DEF ChannelType
<1> QED
  BY <1>1, <1>2

LEMMA ReceivedType ==
    ASSUME ChannelType, NEW i \in Mission, ctrl[i] # <<>>,
           ctrl' = [ctrl EXCEPT ![i] = Tail(@)]
    PROVE  ChannelType'
<1>1. Tail(ctrl[i]) \in Seq(Commands) /\ Len(Tail(ctrl[i])) = Len(ctrl[i]) - 1
  BY DEF ChannelType
<1>2. Capacity \in Nat /\ Len(ctrl[i]) \in Nat
  BY RegistryAssumption DEF ChannelType
<1> QED
  BY <1>1, <1>2 DEF ChannelType

(* The parts of the type that steps change in turn. *)
RegistryType ==
    /\ entry \in [Name -> Mission \cup {NoMission}]
    /\ named \in [Mission -> Name]
    /\ stage \in [Mission -> {"none", "new", "live", "ended", "gone"}]
    /\ state \in [Mission -> State]
    /\ files \in [Name -> SUBSET Mission]
    /\ launched \in 0..MaxLaunches
RestType ==
    /\ client \in [Client -> Connections]
    /\ cleanup \in Seq(Name)
    /\ board \subseteq Summary
    /\ daemon \in {"up", "collect", "abort", "leave", "down"}
    /\ targets \subseteq Mission /\ late \subseteq Mission
    /\ commands \in 0..MaxCommands
    /\ fresh \in BOOLEAN /\ gaveUp \in BOOLEAN

LEMMA TypeParts ==
    TypeOK <=> RegistryType /\ RestType /\ ChannelType /\ publisher \in [Task -> Publisher]
  BY DEF TypeOK, RegistryType, RestType, ChannelType, Publisher, Connections, Commands

(* Every step keeps every variable in its type. *)
LEMMA TypeStep == RegistryInv /\ [Next]_vars => TypeOK'
<1> SUFFICES ASSUME RegistryInv, [Next]_vars
             PROVE  RegistryType' /\ RestType' /\ ChannelType' /\ publisher' \in [Task -> Publisher]
  BY DEF TypeOK, RegistryType, RestType, ChannelType, Publisher, Connections, Commands
<1> USE DEF registryVars, boardVars, shutdownVars
<1>t. RegistryType /\ RestType /\ ChannelType /\ publisher \in [Task -> Publisher]
  BY TypeParts DEF RegistryInv
<1>z. 0 \in Nat /\ MaxLaunches \in Nat /\ MaxCommands \in Nat
  BY RegistryAssumption
<1>u. CASE UNCHANGED vars
  BY <1>t, <1>u DEF vars, RegistryType, RestType, ChannelType
<1>1. ASSUME NEW t \in Task, Collect(t)
      PROVE  RegistryType' /\ RestType' /\ ChannelType' /\ publisher' \in [Task -> Publisher]
  BY <1>t, <1>1, PublisherType DEF Collect, RegistryType, RestType, ChannelType
<1>2. ASSUME NEW t \in Task, NEW i \in Mission, Read(t, i)
      PROVE  RegistryType' /\ RestType' /\ ChannelType' /\ publisher' \in [Task -> Publisher]
  BY <1>t, <1>2, PublisherType DEF Read, RegistryType, RestType, ChannelType
<1>3. ASSUME NEW t \in Task, SendReplace(t)
      PROVE  RegistryType' /\ RestType' /\ ChannelType' /\ publisher' \in [Task -> Publisher]
  <2>1. publisher[t].seen \subseteq Summary /\ publisher[t].last \in BOOLEAN
    BY <1>t, <1>3 DEF SendReplace, Publisher
  <2> QED
    BY <1>t, <1>3, <2>1, PublisherType DEF SendReplace, RegistryType, RestType, ChannelType
<1>4. ASSUME NEW c \in Client, NEW n \in Name, Launch(c, n)
      PROVE  RegistryType' /\ RestType' /\ ChannelType' /\ publisher' \in [Task -> Publisher]
  <2>1. launched + 1 \in Mission /\ launched + 1 \in 0..MaxLaunches
    BY <1>t, <1>4, <1>z DEF Launch, RegistryType, Mission
  <2>2. [at |-> "launch", of |-> launched + 1] \in Connections
    BY <2>1 DEF Connections
  <2>3. RegistryType'
    BY <1>t, <1>4, <2>1 DEF Launch, RegistryType, Prepared
  <2>4. RestType'
    BY <1>t, <1>4, <2>1, <2>2 DEF Launch, RestType
  <2> QED
    BY <1>t, <1>4, <2>3, <2>4, PublisherType DEF Launch, ChannelType
<1>5. ASSUME NEW c \in Client, NEW n \in Name, PrepareFails(c, n)
      PROVE  RegistryType' /\ RestType' /\ ChannelType' /\ publisher' \in [Task -> Publisher]
  BY <1>t, <1>5 DEF PrepareFails, Prepared, RegistryType, RestType, ChannelType
<1>6. ASSUME NEW c \in Client, Spawn(c)
      PROVE  RegistryType' /\ RestType' /\ ChannelType' /\ publisher' \in [Task -> Publisher]
  <2>1. client[c].of \in Mission
    BY <1>t, <1>6 DEF Spawn, RestType, Connections, Idle
  <2>2. RegistryType'
    BY <1>t, <1>6, <2>1 DEF Spawn, RegistryType
  <2> QED
    BY <1>t, <1>6, <2>2 DEF Spawn, RestType, Connections, ChannelType
<1>7. ASSUME NEW c \in Client, NEW n \in Name, NEW cmd \in Commands, Lookup(c, n, cmd)
      PROVE  RegistryType' /\ RestType' /\ ChannelType' /\ publisher' \in [Task -> Publisher]
  <2>1. [at |-> "send", to |-> entry[n], cmd |-> cmd] \in Connections
    BY <1>t, <1>7 DEF Lookup, RegistryType, Connections, Commands
  <2> QED
    BY <1>t, <1>7, <1>z, <2>1 DEF Lookup, RegistryType, RestType, ChannelType
<1>8. ASSUME NEW c \in Client, Deliver(c)
      PROVE  RegistryType' /\ RestType' /\ ChannelType' /\ publisher' \in [Task -> Publisher]
  <2>1. client[c].to \in Mission /\ client[c].cmd \in Commands
    BY <1>t, <1>8 DEF Deliver, RestType, Connections, Idle, Commands
  <2>2. ChannelType'
    BY <1>t, <1>8, <2>1, QueuedType DEF Deliver
  <2> QED
    BY <1>t, <1>8, <2>2 DEF Deliver, RegistryType, RestType, Connections
<1>9. ASSUME NEW i \in Mission, NEW s \in State, Proceed(i, s)
      PROVE  RegistryType' /\ RestType' /\ ChannelType' /\ publisher' \in [Task -> Publisher]
  <2>1. RegistryType'
    BY <1>t, <1>9 DEF Proceed, Update, Writes, RegistryType
  <2>2. RestType' /\ ChannelType'
    BY <1>t, <1>9, <1>z DEF Proceed, Update, RestType, ChannelType
  <2> QED
    BY <1>t, <1>9, <2>1, <2>2, PublisherType DEF Proceed, Update
<1>10. ASSUME NEW i \in Mission, NEW s \in State, Obey(i, s)
       PROVE  RegistryType' /\ RestType' /\ ChannelType' /\ publisher' \in [Task -> Publisher]
  BY <1>t, <1>10, PublisherType, ReceivedType DEF Obey, Update, Writes, RegistryType, RestType
<1>11. ASSUME NEW i \in Mission, End(i)
       PROVE  RegistryType' /\ RestType' /\ ChannelType' /\ publisher' \in [Task -> Publisher]
  <2>1. Append(cleanup, named[i]) \in Seq(Name)
    BY <1>t DEF RegistryType, RestType
  <2>2. RegistryType'
    BY <1>t, <1>11 DEF End, Writes, RegistryType
  <2>3. RestType'
    BY <1>t, <1>11, <2>1 DEF End, RestType
  <2>4. ChannelType'
    BY <1>t, <1>11, ReceivedType DEF End
  <2> QED
    BY <1>t, <1>11, <2>2, <2>3, <2>4 DEF End
<1>12. ASSUME NEW i \in Mission, DropReceiver(i)
       PROVE  RegistryType' /\ RestType' /\ ChannelType' /\ publisher' \in [Task -> Publisher]
  <2>1. <<>> \in Seq(Commands) /\ Len(<<>>) = 0 /\ 0 <= Capacity
    BY RegistryAssumption
  <2> QED
    BY <1>t, <1>12, <2>1 DEF DropReceiver, RegistryType, RestType, ChannelType
<1>13. CASE RemoveMission
  <2>1. Tail(cleanup) \in Seq(Name)
    BY <1>t, <1>13 DEF RemoveMission, RestType
  <2>2. RegistryType' /\ RestType' /\ ChannelType'
    BY <1>t, <1>13, <2>1 DEF RemoveMission, RegistryType, RestType, ChannelType
  <2> QED
    BY <1>t, <1>13, <2>2, PublisherType DEF RemoveMission, Told
<1>14. CASE Break
  BY <1>t, <1>14 DEF Break, RegistryType, RestType, ChannelType
<1>15. CASE CollectTargets
  BY <1>t, <1>15 DEF CollectTargets, Left, Registered, RegistryType, RestType, ChannelType
<1>16. ASSUME NEW i \in Mission, AbortMission(i)
       PROVE  RegistryType' /\ RestType' /\ ChannelType' /\ publisher' \in [Task -> Publisher]
  BY <1>t, <1>16, QueuedType DEF AbortMission, Commands, RegistryType, RestType
<1>17. CASE Wait
  BY <1>t, <1>17 DEF Wait, RegistryType, RestType, ChannelType
<1>18. CASE Leave
  <2>1. <<>> \in Seq(Commands) /\ Len(<<>>) = 0 /\ 0 <= Capacity /\ <<>> \in Seq(Name)
    BY RegistryAssumption
  <2>2. Off \in Publisher
    BY DEF Off, Publisher
  <2> QED
    BY <1>t, <1>18, <2>1, <2>2, RegistryAssumption
       DEF Leave, RegistryType, RestType, ChannelType, Connections
<1> QED
  BY <1>u, <1>1, <1>2, <1>3, <1>4, <1>5, <1>6, <1>7, <1>8, <1>9, <1>10, <1>11, <1>12, <1>13,
     <1>14, <1>15, <1>16, <1>17, <1>18
     DEF Next, Publish, Connection, Loop, Shutdown, Commands

-----------------------------------------------------------------------------
NameInv == EntryInv /\ ClientInv /\ OnceEnded /\ NamesAreOwn

(* A mission that changes its state writes in its own directory only, ... *)
LEMMA WritesOwn ==
    ASSUME RegistryInv, NEW i \in Mission, i \in Live, Writes(i),
           UNCHANGED <<entry, named, stage, launched, client, cleanup>>
    PROVE  NameInv'
<1>1. EntryInv' /\ ClientInv' /\ OnceEnded'
  BY DEF RegistryInv, EntryInv, ClientInv, Launches, OnceEnded
<1>2. entry[named[i]] = i
  BY DEF RegistryInv, NamesAreOwn
<1>3. \A j \in Mission : j \in Registered' => files'[named[j]] \subseteq {j}
  BY <1>2 DEF RegistryInv, TypeOK, NamesAreOwn, Registered, Writes
<1>4. Live' = Live /\ \A j \in Registered' : j \in Mission
  BY DEF Live, Registered
<1>5. NamesAreOwn'
  BY <1>3, <1>4 DEF RegistryInv, NamesAreOwn
<1> QED
  BY <1>1, <1>5 DEF NameInv

(* ... and a step that goes no further than the stage of a mission that runs or
   has ended disturbs no name. *)
LEMMA StageOnly ==
    ASSUME RegistryInv, UNCHANGED <<entry, named, launched, cleanup, files>>,
           NEW i \in Mission, NEW s \in {"live", "ended", "gone"},
           stage' = [stage EXCEPT ![i] = s],
           \/ stage[i] = "new" /\ s = "live"
           \/ stage[i] = "ended" /\ s = "gone"
    PROVE  EntryInv' /\ OnceEnded' /\ NamesAreOwn'
<1>t. TypeOK /\ EntryInv /\ OnceEnded /\ NamesAreOwn
  BY DEF RegistryInv
<1>1. EntryInv' /\ OnceEnded'
  BY <1>t DEF TypeOK, EntryInv, OnceEnded
<1>2. Live' = Live /\ Registered' = Registered
  BY <1>t DEF TypeOK, Live, Registered
<1>3. \A k \in DOMAIN cleanup :
         entry[cleanup[k]] # NoMission /\ stage'[entry[cleanup[k]]] \in {"ended", "gone"}
  <2> SUFFICES ASSUME NEW k \in DOMAIN cleanup
               PROVE  entry[cleanup[k]] # NoMission
                      /\ stage'[entry[cleanup[k]]] \in {"ended", "gone"}
    OBVIOUS
  <2>1. entry[cleanup[k]] # NoMission /\ stage[entry[cleanup[k]]] \in {"ended", "gone"}
    BY <1>t DEF NamesAreOwn
  <2>2. entry[cleanup[k]] \in Mission
    BY <1>t, <2>1 DEF TypeOK
  <2> QED
    BY <1>t, <2>1, <2>2 DEF TypeOK
<1>4. NamesAreOwn'
  BY <1>t, <1>2, <1>3 DEF NamesAreOwn
<1> QED
  BY <1>1, <1>4

(* Every step keeps names and missions together. *)
LEMMA NamesStep == RegistryInv /\ [Next]_vars => NameInv'
<1> SUFFICES ASSUME RegistryInv, [Next]_vars PROVE NameInv'
  OBVIOUS
<1> USE DEF registryVars, boardVars, shutdownVars
<1>t. TypeOK /\ EntryInv /\ ClientInv /\ OnceEnded /\ NamesAreOwn
  BY DEF RegistryInv
<1>0. ASSUME UNCHANGED <<entry, named, stage, files, launched, client, cleanup>> PROVE NameInv'
  BY <1>t, <1>0
     DEF NameInv, EntryInv, ClientInv, Launches, OnceEnded, NamesAreOwn, Live, Registered
<1>u. CASE UNCHANGED vars
  BY <1>0, <1>u DEF vars
<1>1. CASE Publish
  BY <1>0, <1>1 DEF Publish, Collect, Read, SendReplace
<1>4. ASSUME NEW c \in Client, NEW n \in Name, Launch(c, n) PROVE NameInv'
  <2> DEFINE i == launched + 1
  <2>1. i \in Mission /\ stage[i] = "none" /\ launched \in Nat
    BY <1>t, <1>4, RegistryAssumption DEF Launch, TypeOK, Mission, EntryInv
  <2>2. /\ entry[n] = NoMission /\ launched' = i /\ cleanup' = cleanup
        /\ named' = [named EXCEPT ![i] = n] /\ entry' = [entry EXCEPT ![n] = i]
        /\ stage' = [stage EXCEPT ![i] = "new"] /\ files' = [files EXCEPT ![n] = {}]
        /\ client[c] = Idle /\ client' = [client EXCEPT ![c] = [at |-> "launch", of |-> i]]
    BY <1>4 DEF Launch, Free, Prepared
  <2> HIDE DEF i
  <2>3. \A m \in Name : entry[m] # i
    BY <1>t, <2>1 DEF EntryInv, NoMission, Mission, TypeOK
  <2>4. EntryInv'
    <3>1. \A m \in Name : entry'[m] # NoMission =>
             named'[entry'[m]] = m /\ stage'[entry'[m]] # "none"
      BY <1>t, <2>1, <2>2, <2>3 DEF TypeOK, EntryInv
    <3>2. \A j \in Mission : j > launched' => stage'[j] = "none"
      BY <1>t, <2>1, <2>2 DEF TypeOK, EntryInv, Mission, i
    <3> QED
      BY <3>1, <3>2 DEF EntryInv
  <2>5. ClientInv'
    <3>1. \A d \in Client : Launches(d) => client[d].of \in Mission /\ client[d].of # i
      BY <1>t, <2>1 DEF TypeOK, ClientInv, Launches, Idle
    <3>2. \A d \in Client : Launches(d)' <=> d = c \/ Launches(d)
      BY <1>t, <2>2 DEF TypeOK, Launches
    <3>3. client'[c].of = i /\ \A d \in Client : d # c => client'[d] = client[d]
      BY <1>t, <2>2 DEF TypeOK
    <3>4. ~Launches(c)
      BY <2>2 DEF Launches, Idle
    <3> QED
      BY <1>t, <2>1, <2>2, <3>1, <3>2, <3>3, <3>4 DEF TypeOK, ClientInv
  <2>6. OnceEnded'
    BY <1>t, <2>2 DEF OnceEnded
  <2>7. NamesAreOwn'
    <3>1. \A j \in Live' : entry'[named'[j]] = j
      BY <1>t, <2>1, <2>2, <2>3 DEF TypeOK, NamesAreOwn, Live, NoMission, Mission
    <3>2. \A k \in DOMAIN cleanup :
             entry'[cleanup[k]] # NoMission /\ stage'[entry'[cleanup[k]]] \in {"ended", "gone"}
      <4> SUFFICES ASSUME NEW k \in DOMAIN cleanup
                   PROVE  entry'[cleanup[k]] # NoMission
                          /\ stage'[entry'[cleanup[k]]] \in {"ended", "gone"}
        OBVIOUS
      <4>1. entry[cleanup[k]] # NoMission /\ stage[entry[cleanup[k]]] \in {"ended", "gone"}
        BY <1>t DEF NamesAreOwn
      <4>2. cleanup[k] \in Name
        BY <1>t DEF TypeOK
      <4> QED
        BY <1>t, <2>1, <2>2, <2>3, <4>1, <4>2 DEF TypeOK
    <3>3. \A j \in Registered' : files'[named'[j]] \subseteq {j}
      BY <1>t, <2>1, <2>2, <2>3 DEF TypeOK, NamesAreOwn, Registered
    <3> QED
      BY <2>2, <3>1, <3>2, <3>3 DEF NamesAreOwn
  <2> QED
    BY <2>4, <2>5, <2>6, <2>7 DEF NameInv
<1>5. ASSUME NEW c \in Client, NEW n \in Name, PrepareFails(c, n) PROVE NameInv'
  <2>1. /\ files' = [files EXCEPT ![n] = {}] /\ entry[n] = NoMission
        /\ UNCHANGED <<entry, named, stage, launched, client, cleanup>>
    BY <1>5 DEF PrepareFails, Prepared, Free
  <2>2. NamesAreOwn'
    BY <1>t, <2>1 DEF TypeOK, NamesAreOwn, Live, Registered
  <2> QED
    BY <1>t, <2>1, <2>2 DEF NameInv, EntryInv, ClientInv, Launches, OnceEnded
<1>6. ASSUME NEW c \in Client, Spawn(c) PROVE NameInv'
  <2> DEFINE i == client[c].of
  <2>1. i \in Mission /\ stage[i] = "new" /\ i \in Live
    <3>1. Launches(c) /\ client[c] \in Connections
      BY <1>t, <1>6, TypeParts DEF Spawn, RestType, Launches
    <3>2. i \in Mission
      BY <3>1 DEF Connections, Launches, Idle
    <3> QED
      BY <1>t, <3>1, <3>2 DEF ClientInv, Live
  <2>2. /\ stage' = [stage EXCEPT ![i] = "live"]
        /\ files' = [files EXCEPT ![named[i]] = @ \cup {i}]
        /\ client' = [client EXCEPT ![c] = Idle]
        /\ UNCHANGED <<entry, named, launched, cleanup>>
    BY <1>6 DEF Spawn
  <2>3. ClientInv'
    BY <1>t, <1>6, <2>1, <2>2 DEF Spawn, TypeOK, ClientInv, Launches, Idle
  <2> HIDE DEF i
  <2>4. EntryInv' /\ OnceEnded'
    BY <1>t, <2>1, <2>2 DEF TypeOK, EntryInv, OnceEnded
  <2>5. Live' = Live /\ Registered' = Registered
    BY <1>t, <2>1, <2>2 DEF TypeOK, Live, Registered
  <2>6. entry[named[i]] = i
    BY <1>t, <2>1 DEF NamesAreOwn
  <2>7. \A j \in Registered : files'[named[j]] \subseteq {j}
    BY <1>t, <2>1, <2>2, <2>6 DEF TypeOK, NamesAreOwn, Registered
  <2>8. \A k \in DOMAIN cleanup :
           entry[cleanup[k]] # NoMission /\ stage'[entry[cleanup[k]]] \in {"ended", "gone"}
    <3> SUFFICES ASSUME NEW k \in DOMAIN cleanup
                 PROVE  entry[cleanup[k]] # NoMission
                        /\ stage'[entry[cleanup[k]]] \in {"ended", "gone"}
      OBVIOUS
    <3>1. entry[cleanup[k]] # NoMission /\ stage[entry[cleanup[k]]] \in {"ended", "gone"}
      BY <1>t DEF NamesAreOwn
    <3> QED
      BY <1>t, <2>1, <2>2, <3>1 DEF TypeOK
  <2>9. NamesAreOwn'
    BY <1>t, <2>2, <2>5, <2>7, <2>8 DEF NamesAreOwn
  <2> QED
    BY <2>3, <2>4, <2>9 DEF NameInv
<1>7. ASSUME NEW c \in Client, ~Launches(c)', UNCHANGED <<entry, named, stage, files, launched, cleanup>>,
             \A d \in Client \ {c} : client'[d] = client[d]
      PROVE  NameInv'
  BY <1>t, <1>7 DEF NameInv, EntryInv, ClientInv, Launches, OnceEnded, NamesAreOwn, Live, Registered
<1>8. ASSUME NEW c \in Client, Deliver(c) \/ \E n \in Name, cmd \in Commands : Lookup(c, n, cmd)
      PROVE  NameInv'
  <2>1. /\ client'[c].at # "launch"
        /\ \A d \in Client \ {c} : client'[d] = client[d]
    BY <1>t, <1>8 DEF TypeOK, Deliver, Lookup, Idle
  <2>2. UNCHANGED <<entry, named, stage, files, launched, cleanup>>
    BY <1>8 DEF Deliver, Lookup
  <2> QED
    BY <1>7, <2>1, <2>2 DEF Launches
<1>9. ASSUME NEW i \in Mission, NEW s \in State, Proceed(i, s) \/ Obey(i, s) PROVE NameInv'
  BY <1>9, WritesOwn DEF Proceed, Obey, Update, Live
<1>11. ASSUME NEW i \in Mission, End(i) PROVE NameInv'
  <2>1. /\ stage[i] = "live" /\ i \in Live /\ entry[named[i]] = i /\ named[i] \in Name
    BY <1>t, <1>11 DEF End, Live, NamesAreOwn, TypeOK
  <2>2. /\ stage' = [stage EXCEPT ![i] = "ended"] /\ cleanup' = Append(cleanup, named[i])
        /\ files' = [files EXCEPT ![named[i]] = @ \cup {i}]
        /\ UNCHANGED <<entry, named, launched, client>>
    BY <1>11 DEF End, Writes
  <2>3. /\ DOMAIN cleanup' = 1..(Len(cleanup) + 1)
        /\ \A k \in DOMAIN cleanup : cleanup'[k] = cleanup[k] /\ cleanup[k] \in Name
        /\ cleanup'[Len(cleanup) + 1] = named[i]
        /\ DOMAIN cleanup = 1..Len(cleanup) /\ Len(cleanup) \in Nat
    BY <1>t, <2>1, <2>2 DEF TypeOK
  <2>4. \A k \in DOMAIN cleanup : cleanup[k] # named[i]
    BY <1>t, <2>1 DEF NamesAreOwn
  <2>5. EntryInv' /\ ClientInv'
    BY <1>t, <2>1, <2>2 DEF TypeOK, EntryInv, ClientInv, Launches, Idle
  <2>6. OnceEnded'
    BY <1>t, <2>3, <2>4 DEF OnceEnded
  <2>7. NamesAreOwn'
    <3>1. \A j \in Live' : entry'[named'[j]] = j
      BY <1>t, <2>1, <2>2 DEF TypeOK, NamesAreOwn, Live
    <3>2. \A k \in DOMAIN cleanup' :
             entry[cleanup'[k]] # NoMission /\ stage'[entry[cleanup'[k]]] \in {"ended", "gone"}
      <4> SUFFICES ASSUME NEW k \in DOMAIN cleanup'
                   PROVE  entry[cleanup'[k]] # NoMission
                          /\ stage'[entry[cleanup'[k]]] \in {"ended", "gone"}
        OBVIOUS
      <4>1. CASE k \in DOMAIN cleanup
        <5>1. entry[cleanup[k]] # NoMission /\ stage[entry[cleanup[k]]] \in {"ended", "gone"}
          BY <1>t, <4>1 DEF NamesAreOwn
        <5> QED
          BY <1>t, <2>1, <2>2, <2>3, <4>1, <5>1 DEF TypeOK
      <4>2. CASE k \notin DOMAIN cleanup
        <5>1. cleanup'[k] = named[i]
          BY <2>3, <4>2
        <5> QED
          BY <1>t, <2>1, <2>2, <5>1 DEF TypeOK, NoMission, Mission
      <4> QED
        BY <4>1, <4>2
    <3>3. \A j \in Registered' : files'[named'[j]] \subseteq {j}
      BY <1>t, <2>1, <2>2 DEF TypeOK, NamesAreOwn, Registered
    <3> QED
      BY <2>2, <3>1, <3>2, <3>3 DEF NamesAreOwn
  <2> QED
    BY <2>5, <2>6, <2>7 DEF NameInv
<1>12. ASSUME NEW i \in Mission, DropReceiver(i) PROVE NameInv'
  <2>1. stage[i] = "ended" /\ stage' = [stage EXCEPT ![i] = "gone"]
        /\ UNCHANGED <<entry, named, launched, cleanup, files, client>>
    BY <1>12 DEF DropReceiver
  <2>2. ClientInv'
    BY <1>t, <2>1 DEF TypeOK, ClientInv, Launches, Idle
  <2> QED
    BY <2>1, <2>2, StageOnly DEF NameInv
<1>13. CASE RemoveMission
  <2> DEFINE n == Head(cleanup)
  <2>1. /\ cleanup # <<>> /\ cleanup' = Tail(cleanup) /\ n \in Name
        /\ entry' = [entry EXCEPT ![n] = NoMission]
        /\ UNCHANGED <<named, stage, files, launched, client>>
    BY <1>t, <1>13 DEF RemoveMission, TypeOK
  <2>2. /\ 1 \in DOMAIN cleanup /\ n = cleanup[1]
        /\ \A k \in DOMAIN cleanup' :
              /\ k + 1 \in DOMAIN cleanup /\ k + 1 # 1
              /\ cleanup'[k] = cleanup[k + 1] /\ cleanup[k + 1] \in Name
    BY <1>t, <2>1 DEF TypeOK
  <2> HIDE DEF n
  <2>3. entry[n] # NoMission /\ stage[entry[n]] \in {"ended", "gone"}
    BY <1>t, <2>2 DEF NamesAreOwn
  <2>4. EntryInv' /\ ClientInv'
    BY <1>t, <2>1 DEF TypeOK, EntryInv, ClientInv, Launches
  <2>5. OnceEnded'
    <3>1. \A k, l \in DOMAIN cleanup' : cleanup'[k] = cleanup'[l] => k + 1 = l + 1
      BY <1>t, <2>2 DEF OnceEnded
    <3>2. DOMAIN cleanup' \subseteq Int
      BY <1>t, <2>1 DEF TypeOK
    <3> QED
      BY <3>1, <3>2 DEF OnceEnded
  <2>6. NamesAreOwn'
    <3>1. \A j \in Live' : entry'[named'[j]] = j
      BY <1>t, <2>1, <2>3 DEF TypeOK, NamesAreOwn, Live
    <3>2. \A k \in DOMAIN cleanup' :
             entry'[cleanup'[k]] # NoMission /\ stage'[entry'[cleanup'[k]]] \in {"ended", "gone"}
      <4> SUFFICES ASSUME NEW k \in DOMAIN cleanup'
                   PROVE  entry'[cleanup'[k]] # NoMission
                          /\ stage'[entry'[cleanup'[k]]] \in {"ended", "gone"}
        OBVIOUS
      <4>1. cleanup'[k] = cleanup[k + 1] /\ cleanup[k + 1] # n /\ cleanup[k + 1] \in Name
            /\ k + 1 \in DOMAIN cleanup
        BY <1>t, <2>2 DEF OnceEnded
      <4> QED
        BY <1>t, <2>1, <4>1 DEF TypeOK, NamesAreOwn
    <3>3. \A j \in Registered' : files'[named'[j]] \subseteq {j}
      BY <1>t, <2>1 DEF TypeOK, NamesAreOwn, Registered, NoMission, Mission
    <3> QED
      BY <2>1, <3>1, <3>2, <3>3 DEF NamesAreOwn
  <2> QED
    BY <2>4, <2>5, <2>6 DEF NameInv
<1>14. CASE Break \/ CollectTargets \/ Wait \/ \E i \in Mission : AbortMission(i)
  BY <1>0, <1>14 DEF Break, CollectTargets, Left, Wait, AbortMission
<1>15. CASE Leave
  BY <1>t, <1>15 DEF Leave, TypeOK, NameInv, EntryInv, ClientInv, Launches, Idle, OnceEnded,
     NamesAreOwn, Live, Registered
<1> QED
  BY <1>u, <1>1, <1>4, <1>5, <1>6, <1>8, <1>9, <1>11, <1>12, <1>13, <1>14, <1>15
     DEF Next, Connection, Loop, Shutdown, Commands

(* Before the first launch there is no name to mistake. *)
LEMMA RegistryInit == Init => RegistryInv /\ BoardInv
<1> SUFFICES ASSUME Init PROVE RegistryInv /\ BoardInv
  OBVIOUS
<1>1. TypeOK
  <2>1. (CHOOSE n \in Name : TRUE) \in Name
    BY RegistryAssumption
  <2>2. /\ "launching" \in State /\ 0 \in 0..MaxLaunches /\ 0 \in 0..MaxCommands
        /\ 0 <= Capacity
    BY RegistryAssumption
  <2>3. <<>> \in Seq(Commands) /\ Len(<<>>) = 0 /\ <<>> \in Seq(Name)
    OBVIOUS
  <2>4. Off \in Publisher
    BY DEF Off, Publisher
  <2>5. RegistryType /\ ChannelType
    BY <2>1, <2>2, <2>3 DEF Init, RegistryType, ChannelType, NoMission
  <2>6. RestType /\ publisher \in [Task -> Publisher]
    BY <2>2, <2>3, <2>4 DEF Init, RestType, Connections
  <2> QED
    BY <2>5, <2>6, TypeParts
<1>2. EntryInv /\ ClientInv /\ OnceEnded /\ NamesAreOwn
  BY DEF Init, EntryInv, ClientInv, Launches, Idle, OnceEnded, NamesAreOwn, Live, Registered
<1>3. Registered = {} /\ \A t \in Task : ~Latest(t)
  BY DEF Init, Registered, Latest, Off
<1>4. BoardInv
  BY <1>3 DEF Init, BoardInv, Now
<1> QED
  BY <1>1, <1>2, <1>4 DEF RegistryInv

LEMMA RegistryHolds == Spec => []RegistryInv
<1>1. RegistryInv /\ [Next]_vars => RegistryInv'
  BY TypeStep, NamesStep DEF RegistryInv, NameInv
<1> QED
  BY <1>1, RegistryInit, PTL DEF Spec

(* Every variable stays in its type: a control channel holds no more than its
   capacity, and a task that publishes is at one of its three steps. *)
THEOREM TypeCorrect == Spec => []TypeOK
<1>1. RegistryInv => TypeOK
  BY DEF RegistryInv
<1> QED
  BY <1>1, RegistryHolds, PTL

(* cmd_launch, MissionCleanup and remove_mission: however often a name is given,
   freed and given again, what goes by the name reaches the mission that bears it,
   a removal under way is that of a mission that has ended, and a mission's
   directory holds nothing of its predecessors'. *)
THEOREM NamesStayOwn == Spec => []NamesAreOwn
<1>1. RegistryInv => NamesAreOwn
  BY DEF RegistryInv
<1> QED
  BY <1>1, RegistryHolds, PTL

-----------------------------------------------------------------------------
(* A step that neither publishes nor changes what is published, ... *)
LEMMA BoardQuiet ==
    ASSUME BoardInv, UNCHANGED <<publisher, board, fresh, state>>, Registered' = Registered
    PROVE  BoardInv'
  BY DEF BoardInv, Latest, Settled, Correct, Now

(* ... and one after which somebody is about to publish. *)
LEMMA BoardDue ==
    ASSUME RegistryInv, BoardInv, NEW t \in Task, Due(t), UNCHANGED <<board, fresh>>
    PROVE  BoardInv'
<1>1. publisher \in [Task -> Publisher]
  BY TypeParts DEF RegistryInv
<1>2. ~Settled'
  BY <1>1 DEF Due, Settled
<1>3. \A u \in Task : Latest(u)' => Latest(u)
  BY <1>1 DEF Due, Latest
<1> QED
  BY <1>2, <1>3 DEF BoardInv

(* Every step keeps the board's invariant. *)
LEMMA BoardStep == RegistryInv /\ BoardInv /\ [Next]_vars => BoardInv'
<1> SUFFICES ASSUME RegistryInv, BoardInv, [Next]_vars PROVE BoardInv'
  OBVIOUS
<1> USE DEF registryVars, boardVars, shutdownVars
<1>t. TypeOK /\ publisher \in [Task -> Publisher]
  BY TypeParts DEF RegistryInv
<1>k. /\ \A c \in Client : <<"client", c>> \in Task
      /\ \A i \in Mission : <<"mission", i>> \in Task
      /\ <<"cleanup", 0>> \in Task
  BY DEF Task
<1>u. CASE UNCHANGED vars
  BY <1>u, BoardQuiet DEF vars, Registered
<1>1. ASSUME NEW t \in Task, Collect(t) PROVE BoardInv'
  <2>1. /\ publisher' = Collected(t) /\ fresh' = FALSE /\ UNCHANGED state
        /\ Registered' = Registered
    BY <1>1 DEF Collect, Registered
  <2>2. publisher'[t] = [at |-> "read", left |-> Registered, seen |-> {}, last |-> TRUE]
    BY <2>1 DEF Collected
  <2>3. ASSUME NEW u \in Task, u # t PROVE ~Latest(u)'
    <3>1. CASE publisher[u].at = "read"
      <4>1. publisher[u] \in [at : {"read"}, left : SUBSET Mission, seen : SUBSET Summary,
                              last : BOOLEAN]
        BY <1>t, <3>1 DEF Publisher
      <4> QED
        BY <2>1, <2>3, <3>1, <4>1 DEF Collected, Latest
    <3>2. CASE publisher[u].at # "read"
      BY <2>1, <2>3, <3>2 DEF Collected, Latest
    <3> QED
      BY <3>1, <3>2
  <2>4. publisher'[t].left = Registered /\ publisher'[t].seen = {}
    BY <2>2
  <2>5. Correct(t)'
    BY <2>1, <2>4 DEF Correct
  <2> QED
    BY <2>1, <2>3, <2>5 DEF BoardInv
<1>2. ASSUME NEW t \in Task, NEW i \in Mission, Read(t, i) PROVE BoardInv'
  <2>1. publisher[t] \in [at : {"read"}, left : SUBSET Mission, seen : SUBSET Summary,
                          last : BOOLEAN]
    BY <1>t, <1>2 DEF Read, Publisher
  <2>2. /\ i \in publisher[t].left
        /\ publisher'[t] = [publisher[t] EXCEPT !.left = @ \ {i}, !.seen = @ \cup {<<i, state[i]>>}]
        /\ \A u \in Task \ {t} : publisher'[u] = publisher[u]
        /\ UNCHANGED <<board, fresh, state>> /\ Registered' = Registered
    BY <1>t, <1>2 DEF Read, Registered
  <2>3. /\ publisher'[t].at = "read" /\ publisher'[t].last = publisher[t].last
        /\ publisher'[t].left = publisher[t].left \ {i}
        /\ publisher'[t].seen = publisher[t].seen \cup {<<i, state[i]>>}
    BY <2>1, <2>2
  <2>4. \A u \in Task : Latest(u)' = Latest(u)
    BY <2>1, <2>2, <2>3 DEF Latest
  <2>5. Settled' => Settled
    BY <2>1, <2>2, <2>3 DEF Settled
  <2>6. ASSUME Settled, Latest(t)
        PROVE  Correct(t)'
    <3>1. Correct(t)
      BY <2>6 DEF BoardInv
    <3>2. i \in Registered
      BY <2>2, <3>1 DEF Correct
    <3>3. publisher'[t].left \subseteq Registered'
      BY <2>2, <2>3, <3>1 DEF Correct
    <3>4. {<<j, state[j]>> : j \in Registered \ publisher'[t].left}
          = {<<j, state[j]>> : j \in Registered \ publisher[t].left} \cup {<<i, state[i]>>}
      BY <2>2, <2>3, <3>2
    <3>5. publisher'[t].seen = {<<j, state[j]>> : j \in Registered \ publisher'[t].left}
      BY <2>3, <3>1, <3>4 DEF Correct
    <3> QED
      BY <2>2, <3>3, <3>5 DEF Correct
  <2>7. ASSUME Settled, NEW u \in Task, u # t, Latest(u)
        PROVE  Correct(u)'
    BY <2>2, <2>7 DEF BoardInv, Correct
  <2>8. Now' = Now
    BY <2>2 DEF Now
  <2> QED
    BY <2>2, <2>4, <2>5, <2>6, <2>7, <2>8 DEF BoardInv
<1>3. ASSUME NEW t \in Task, SendReplace(t) PROVE BoardInv'
  <2>1. /\ publisher[t].at = "read" /\ publisher[t].left = {}
        /\ publisher' = [publisher EXCEPT ![t] = Off]
        /\ board' = publisher[t].seen /\ fresh' = publisher[t].last
        /\ UNCHANGED state /\ Registered' = Registered
    BY <1>3 DEF SendReplace, Registered
  <2>2. ~Latest(t)' /\ \A u \in Task \ {t} : publisher'[u] = publisher[u]
    BY <1>t, <2>1 DEF Latest, Off
  <2>3. Settled' => Settled
    BY <1>t, <2>1, <2>2 DEF Settled
  <2>4. \A u \in Task : Latest(u)' => Latest(u) /\ u # t /\ publisher'[u] = publisher[u]
    BY <2>2 DEF Latest
  <2>5. fresh' => Latest(t)
    BY <2>1 DEF Latest
  <2>6. fresh' => \A u \in Task : ~Latest(u)'
    BY <2>4, <2>5 DEF BoardInv
  <2>7. ASSUME Settled', fresh' PROVE board' = Now'
    <3>1. Correct(t)
      BY <2>3, <2>5, <2>7 DEF BoardInv
    <3> QED
      BY <2>1, <3>1 DEF Correct, Now
  <2>8. \A u \in Task : Settled' /\ Latest(u)' => Correct(u)'
    BY <2>1, <2>3, <2>4 DEF BoardInv, Correct
  <2> QED
    BY <2>4, <2>6, <2>7, <2>8 DEF BoardInv
<1>4. ASSUME NEW c \in Client, NEW n \in Name, Launch(c, n) PROVE BoardInv'
  BY <1>4, <1>k, BoardDue DEF Launch
<1>5. ASSUME NEW c \in Client, Connection(c), ~\E n \in Name : Launch(c, n) PROVE BoardInv'
  <2>1. CASE Spawn(c)
    <3>1. client[c].of \in Mission /\ stage[client[c].of] = "new"
      <4>1. Launches(c) /\ client[c] \in Connections
        BY <2>1, TypeParts DEF RegistryInv, Spawn, RestType, Launches
      <4> QED
        BY <4>1 DEF Connections, Launches, Idle, RegistryInv, ClientInv
    <3>2. Registered' = Registered
      BY <1>t, <2>1, <3>1 DEF Spawn, TypeOK, Registered
    <3> QED
      BY <2>1, <3>2, BoardQuiet DEF Spawn
  <2>2. CASE ~Spawn(c)
    BY <1>5, <2>2, BoardQuiet DEF Connection, Deliver, PrepareFails, Lookup, Registered
  <2> QED
    BY <2>1, <2>2
<1>6. ASSUME NEW i \in Mission, NEW s \in State, Proceed(i, s) \/ Obey(i, s) PROVE BoardInv'
  BY <1>6, <1>k, BoardDue DEF Proceed, Obey, Update
<1>7. ASSUME NEW i \in Mission, End(i) \/ DropReceiver(i) PROVE BoardInv'
  <2>1. Registered' = Registered
    BY <1>t, <1>7 DEF End, DropReceiver, TypeOK, Registered
  <2> QED
    BY <1>7, <2>1, BoardQuiet DEF End, DropReceiver
<1>8. CASE RemoveMission
  BY <1>8, <1>k, BoardDue DEF RemoveMission, Told
<1>9. CASE Break \/ CollectTargets \/ Wait \/ \E i \in Mission : AbortMission(i)
  BY <1>9, BoardQuiet DEF Break, CollectTargets, Left, Wait, AbortMission, Registered
<1>10. CASE Leave
  <2>1. Registered' = {} /\ board' = {} /\ \A t \in Task : ~Latest(t)'
    BY <1>10 DEF Leave, Registered, Latest, Off
  <2> QED
    BY <2>1 DEF BoardInv, Now
<1> QED
  BY <1>u, <1>1, <1>2, <1>3, <1>4, <1>5, <1>6, <1>7, <1>8, <1>9, <1>10
     DEF Next, Publish, Loop, Shutdown

(* publish_status_snapshot: any number of tasks collect, read and send in any
   order with changes of state, launches and removals; when all have sent and the
   last to collect was not overtaken, the board is what the missions are. *)
THEOREM BoardSettles == Spec => []BoardIsCurrent
<1>1. BoardInv => BoardIsCurrent
  BY DEF BoardInv, BoardIsCurrent, Settled, Off
<1>2. RegistryInv /\ BoardInv /\ RegistryInv' /\ [Next]_vars => BoardInv'
  BY BoardStep
<1> QED
  BY <1>1, <1>2, RegistryInit, RegistryHolds, PTL DEF Spec

-----------------------------------------------------------------------------
(* shutdown_missions: if the daemon did not give up its wait, no mission is left
   but one that was launched when the shutdown had begun -- for any number of
   missions and clients whose launches, commands and ends go on meanwhile. *)
THEOREM ShutdownLeavesNone == Spec => []ShutdownReachesAll
<1>1. Init => ShutdownReachesAll
  BY DEF Init, ShutdownReachesAll
<1>2. RegistryInv /\ ShutdownReachesAll /\ [Next]_vars => ShutdownReachesAll'
  <2> SUFFICES ASSUME RegistryInv, ShutdownReachesAll, [Next]_vars, daemon' = "leave", ~gaveUp'
               PROVE  Live' \subseteq late'
    BY DEF ShutdownReachesAll
  <2> USE DEF registryVars, boardVars, shutdownVars
  <2>t. TypeOK /\ NamesAreOwn
    BY DEF RegistryInv
  <2>1. CASE Wait
    <3>1. Registered = {} /\ UNCHANGED stage
      BY <2>1 DEF Wait, TimeIsUp
    <3>2. Live \subseteq Registered
      BY <2>t DEF NamesAreOwn, Live, Registered
    <3> QED
      BY <3>1, <3>2 DEF Live
  <2>2. CASE ~Wait
    <3>1. daemon = "leave" /\ ~gaveUp
      <4>1. Publish \/ RemoveMission => UNCHANGED <<daemon, gaveUp>>
        BY DEF Publish, Collect, Read, SendReplace, RemoveMission
      <4>2. \A c \in Client : Connection(c) => UNCHANGED <<daemon, gaveUp>>
        BY DEF Connection, Launch, PrepareFails, Spawn, Lookup, Deliver
      <4>3. \A i \in Mission : Loop(i) => UNCHANGED <<daemon, gaveUp>>
        BY DEF Loop, Proceed, Obey, Update, End, DropReceiver
      <4>4. Break \/ Shutdown => UNCHANGED <<daemon, gaveUp>>
        BY <2>2 DEF Break, Shutdown, CollectTargets, AbortMission, Leave
      <4>5. UNCHANGED vars => UNCHANGED <<daemon, gaveUp>>
        BY DEF vars
      <4> QED
        BY <4>1, <4>2, <4>3, <4>4, <4>5 DEF Next
    <3>2. Live \subseteq late
      BY <3>1 DEF ShutdownReachesAll
    <3>3. ASSUME NEW c \in Client, NEW n \in Name, Launch(c, n) PROVE Live' \subseteq late'
      BY <2>t, <3>1, <3>2, <3>3 DEF Launch, TypeOK, Live
    <3>4. ASSUME NEW c \in Client, Spawn(c) PROVE Live' \subseteq late'
      <4>1. client[c].of \in Live
        <5>1. Launches(c) /\ client[c] \in Connections
          BY <3>4, TypeParts DEF RegistryInv, Spawn, RestType, Launches
        <5> QED
          BY <5>1 DEF Connections, Launches, Idle, RegistryInv, ClientInv, Live
      <4> QED
        BY <2>t, <3>2, <3>4, <4>1 DEF Spawn, TypeOK, Live
    <3>5. ASSUME NEW i \in Mission, End(i) \/ DropReceiver(i) PROVE Live' \subseteq late'
      BY <2>t, <3>2, <3>5 DEF End, DropReceiver, TypeOK, Live
    <3>6. CASE UNCHANGED <<stage, late>>
      BY <3>2, <3>6 DEF Live
    <3> QED
      BY <2>2, <3>1, <3>3, <3>4, <3>5, <3>6
         DEF Next, vars, Publish, Collect, Read, SendReplace, Connection,
         PrepareFails, Lookup, Deliver, Loop, Proceed, Obey, Update,
         RemoveMission, Break, Shutdown, CollectTargets, AbortMission, Leave
  <2> QED
    BY <2>1, <2>2
<1> QED
  BY <1>1, <1>2, RegistryHolds, PTL DEF Spec
=============================================================================
