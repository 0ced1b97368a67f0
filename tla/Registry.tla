------------------------------ MODULE Registry ------------------------------
(***************************************************************************)
(* The daemon around its missions (src/daemon/mod.rs): the registry of     *)
(* names, clients that launch missions and send them commands, the task    *)
(* that removes missions that have ended, the status board every client    *)
(* watches, and the end of the daemon.  Of a mission's loop only what the  *)
(* others see of it is here; MissionLoop has the rest.                     *)
(*                                                                         *)
(* Launches are numbered, so that two missions that bear the same name one *)
(* after the other are told apart; the daemon knows only their names.      *)
(***************************************************************************)
EXTENDS Integers, FiniteSets, Sequences

CONSTANTS
    Name,
    Client,
    State,         \* scheduler states a mission can be in
    Capacity,      \* of a control channel (32 in cmd_launch)
    MaxMissions,   \* MAX_MISSIONS
    MaxLaunches,   \* bound: missions launched
    MaxCommands    \* bound: commands of clients and changes of state

ASSUME RegistryAssumption ==
    /\ Name # {} /\ "launching" \in State
    /\ {Capacity, MaxMissions} \subseteq Nat \ {0}
    /\ {MaxLaunches, MaxCommands} \subseteq Nat

Mission == 1..MaxLaunches
NoMission == 0
Idle == [at |-> "idle"]
Off == [at |-> "off"]

(* The tasks that publish the board. *)
Task == ({"client"} \X Client) \cup ({"mission"} \X Mission) \cup {<<"cleanup", 0>>}

VARIABLES
    entry,      \* of each name: the mission registered under it
    named,      \* of each mission: its name
    stage,      \* of each mission: how far its task is
    state,      \* of each mission: its published scheduler state
    ctrl,       \* of each mission: its control channel
    client,     \* of each client: what its connection does
    cleanup,    \* cleanup_rx: names of missions that have ended
    publisher,  \* of each task: how far its publish_status_snapshot is
    board,      \* what the status channel holds
    files,      \* of each name: the missions that wrote its directory
    daemon,     \* where run_in is
    targets,    \* missions shutdown_missions has still to abort
    launched,   \* missions launched so far
    commands,   \* commands and changes of state so far
    fresh,      \* history: is the board what was collected last?
    late,       \* history: missions launched when the shutdown had begun
    gaveUp      \* history: the shutdown did not wait for its missions

registryVars == <<entry, named, stage, state, ctrl, files, launched>>
boardVars == <<publisher, board, fresh>>
shutdownVars == <<daemon, targets, late, gaveUp>>
vars == <<registryVars, boardVars, shutdownVars, client, cleanup, commands>>

Registered == {i \in Mission : stage[i] # "none" /\ entry[named[i]] = i}
Live == {i \in Mission : stage[i] \in {"new", "live"}}
Running == daemon # "down"

Init ==
    /\ entry = [n \in Name |-> NoMission]
    /\ named = [i \in Mission |-> CHOOSE n \in Name : TRUE]
    /\ stage = [i \in Mission |-> "none"]
    /\ state = [i \in Mission |-> "launching"]
    /\ ctrl = [i \in Mission |-> <<>>]
    /\ client = [c \in Client |-> Idle]
    /\ cleanup = <<>>
    /\ publisher = [t \in Task |-> Off]
    /\ board = {} /\ fresh = TRUE
    /\ files = [n \in Name |-> {}]
    /\ daemon = "up" /\ targets = {}
    /\ launched = 0 /\ commands = 0
    /\ late = {} /\ gaveUp = FALSE

----------------------------------------------------------------------------
(* publish_status_snapshot: the handles under the registry's lock, then each
   mission's state under its own, then the board, in any order with others. *)
Due(t) == publisher' = [publisher EXCEPT ![t] = [at |-> "collect"]]

Collected(t) ==
    [u \in Task |->
        IF u = t THEN [at |-> "read", left |-> Registered, seen |-> {}, last |-> TRUE]
        ELSE IF publisher[u].at = "read" THEN [publisher[u] EXCEPT !.last = FALSE]
        ELSE publisher[u]]

Collect(t) ==
    /\ Running
    /\ publisher[t].at = "collect"
    /\ publisher' = Collected(t)
    /\ fresh' = FALSE
    /\ UNCHANGED <<board, registryVars, shutdownVars, client, cleanup, commands>>

Read(t, i) ==
    /\ Running
    /\ publisher[t].at = "read" /\ i \in publisher[t].left
    /\ publisher' = [publisher EXCEPT ![t].left = @ \ {i}, ![t].seen = @ \cup {<<i, state[i]>>}]
    /\ UNCHANGED <<board, fresh, registryVars, shutdownVars, client, cleanup, commands>>

SendReplace(t) ==
    /\ Running
    /\ publisher[t].at = "read" /\ publisher[t].left = {}
    /\ publisher' = [publisher EXCEPT ![t] = Off]
    /\ board' = publisher[t].seen
    /\ fresh' = publisher[t].last
    /\ UNCHANGED <<registryVars, shutdownVars, client, cleanup, commands>>

----------------------------------------------------------------------------
(* Mutant: the name of a mission that has ended is free at once. *)
FreeOnceEnded(n) == entry[n] \notin Live

(* taken_names, which always are the names of missions. *)
Free(n) == entry[n] = NoMission

(* prepare_mission_storage *)
Prepared(n) == {}

(* cmd_launch up to its first wait; the board is published before the mission's
   task is spawned.  A launch that is refused before its directory is prepared
   changes nothing. *)
Launch(c, n) ==
    /\ Running
    /\ client[c] = Idle /\ launched < MaxLaunches
    /\ Cardinality(Registered) < MaxMissions
    /\ Free(n)
    /\ LET i == launched + 1
       IN  /\ launched' = i
           /\ named' = [named EXCEPT ![i] = n]
           /\ entry' = [entry EXCEPT ![n] = i]
           /\ stage' = [stage EXCEPT ![i] = "new"]
           /\ files' = [files EXCEPT ![n] = Prepared(n)]
           /\ client' = [client EXCEPT ![c] = [at |-> "launch", of |-> i]]
           /\ late' = IF daemon = "up" THEN late ELSE late \cup {i}
    /\ Due(<<"client", c>>)
    /\ UNCHANGED <<state, ctrl, board, fresh, daemon, targets, gaveUp, cleanup,
                   commands>>

PrepareFails(c, n) ==
    /\ Running
    /\ client[c] = Idle /\ launched < MaxLaunches
    /\ Cardinality(Registered) < MaxMissions
    /\ Free(n)
    /\ files' = [files EXCEPT ![n] = Prepared(n)]
    /\ UNCHANGED <<entry, named, stage, state, ctrl, launched, boardVars, shutdownVars,
                   client, cleanup, commands>>

(* The mission's task is spawned and opens its recorder. *)
Spawn(c) ==
    /\ Running
    /\ client[c].at = "launch" /\ publisher[<<"client", c>>] = Off
    /\ LET i == client[c].of
       IN  /\ stage' = [stage EXCEPT ![i] = "live"]
           /\ files' = [files EXCEPT ![named[i]] = @ \cup {i}]
    /\ client' = [client EXCEPT ![c] = Idle]
    /\ UNCHANGED <<entry, named, state, ctrl, launched, boardVars, shutdownVars, cleanup,
                   commands>>

(* send_ctrl finds the channel under the lock and sends without it: the sender
   waits while it is full and is told if its receiver is gone. *)
Lookup(c, n, cmd) ==
    /\ Running
    /\ client[c] = Idle /\ commands < MaxCommands
    /\ entry[n] # NoMission
    /\ client' = [client EXCEPT ![c] = [at |-> "send", to |-> entry[n], cmd |-> cmd]]
    /\ commands' = commands + 1
    /\ UNCHANGED <<registryVars, boardVars, shutdownVars, cleanup>>

(* Mutant: a channel takes any number of commands. *)
QueuedAnyway(i, cmd) == ctrl' = [ctrl EXCEPT ![i] = Append(@, cmd)]

Queued(i, cmd) ==
    IF stage[i] = "gone" THEN UNCHANGED ctrl
    ELSE Len(ctrl[i]) < Capacity /\ ctrl' = [ctrl EXCEPT ![i] = Append(@, cmd)]

Deliver(c) ==
    /\ Running
    /\ client[c].at = "send"
    /\ Queued(client[c].to, client[c].cmd)
    /\ client' = [client EXCEPT ![c] = Idle]
    /\ UNCHANGED <<entry, named, stage, state, files, launched, boardVars, shutdownVars,
                   cleanup, commands>>

----------------------------------------------------------------------------
(* A mission's loop: it changes its state, on its own account or on a command
   other than an abort, and publishes it, or it ends. *)
Writes(i) == files' = [files EXCEPT ![named[i]] = @ \cup {i}]

Update(i, s) ==
    /\ Running
    /\ stage[i] = "live" /\ publisher[<<"mission", i>>] = Off
    /\ state' = [state EXCEPT ![i] = s]
    /\ Writes(i)
    /\ Due(<<"mission", i>>)
    /\ UNCHANGED <<entry, named, stage, launched, board, fresh, shutdownVars, client,
                   cleanup>>

Proceed(i, s) ==
    /\ commands < MaxCommands /\ commands' = commands + 1
    /\ Update(i, s)
    /\ UNCHANGED ctrl

Obey(i, s) ==
    /\ ctrl[i] # <<>> /\ Head(ctrl[i]) # "abort"
    /\ ctrl' = [ctrl EXCEPT ![i] = Tail(@)]
    /\ Update(i, s)
    /\ UNCHANGED commands

(* The loop returns on an abort; MissionCleanup is dropped ... *)
End(i) ==
    /\ Running
    /\ stage[i] = "live" /\ publisher[<<"mission", i>>] = Off
    /\ ctrl[i] # <<>> /\ Head(ctrl[i]) = "abort"
    /\ ctrl' = [ctrl EXCEPT ![i] = Tail(@)]
    /\ Writes(i)
    /\ stage' = [stage EXCEPT ![i] = "ended"]
    /\ cleanup' = Append(cleanup, named[i])
    /\ UNCHANGED <<entry, named, state, launched, boardVars, shutdownVars, client, commands>>

(* ... and after it the receiver, with the commands nobody has received. *)
DropReceiver(i) ==
    /\ Running
    /\ stage[i] = "ended"
    /\ stage' = [stage EXCEPT ![i] = "gone"]
    /\ ctrl' = [ctrl EXCEPT ![i] = <<>>]
    /\ UNCHANGED <<entry, named, state, files, launched, boardVars, shutdownVars, client,
                   cleanup, commands>>

(* Mutant: a mission is removed without a word. *)
Untold == UNCHANGED publisher

(* remove_mission, by the task that receives the names of missions that ended. *)
Told == Due(<<"cleanup", 0>>)
RemoveMission ==
    /\ Running
    /\ cleanup # <<>> /\ publisher[<<"cleanup", 0>>] = Off
    /\ cleanup' = Tail(cleanup)
    /\ entry' = [entry EXCEPT ![Head(cleanup)] = NoMission]
    /\ Told
    /\ UNCHANGED <<named, stage, state, ctrl, files, launched, board, fresh,
                   shutdownVars, client, commands>>

----------------------------------------------------------------------------
(* run_in leaves its loop; connections stay and are served. *)
Break ==
    /\ daemon = "up"
    /\ daemon' = "collect"
    /\ UNCHANGED <<targets, late, gaveUp, registryVars, boardVars, client, cleanup, commands>>

(* Mutant: the registry is drained as its channels are taken. *)
Drained == [n \in Name |-> NoMission]

(* shutdown_missions: the channels of all missions ... *)
Left == entry
CollectTargets ==
    /\ daemon = "collect"
    /\ daemon' = "abort"
    /\ targets' = Registered
    /\ entry' = Left
    /\ UNCHANGED <<named, stage, state, ctrl, files, launched, late, gaveUp, boardVars,
                   client, cleanup, commands>>

(* ... an abort to each, which waits like any sender ... *)
AbortMission(i) ==
    /\ daemon = "abort" /\ i \in targets
    /\ Queued(i, "abort")
    /\ targets' = targets \ {i}
    /\ UNCHANGED <<entry, named, stage, state, files, launched, boardVars, daemon, late,
                   gaveUp, client, cleanup, commands>>

(* Mutant: there is no limit to the wait. *)
Forever == FALSE

(* ... and five seconds for all of them to be removed, of whatever length. *)
TimeIsUp == TRUE
Wait ==
    /\ daemon = "abort" /\ targets = {}
    /\ \/ Registered = {} /\ UNCHANGED gaveUp
       \/ TimeIsUp /\ Registered # {} /\ gaveUp' = TRUE
    /\ daemon' = "leave"
    /\ UNCHANGED <<targets, late, registryVars, boardVars, client, cleanup, commands>>

(* The process ends, and with it every task and all it knows. *)
Leave ==
    /\ daemon = "leave"
    /\ daemon' = "down"
    /\ entry' = [n \in Name |-> NoMission]
    /\ stage' = [i \in Mission |-> "none"]
    /\ ctrl' = [i \in Mission |-> <<>>]
    /\ client' = [c \in Client |-> Idle]
    /\ cleanup' = <<>>
    /\ publisher' = [t \in Task |-> Off]
    /\ board' = {}
    /\ state' = [i \in Mission |-> "launching"]
    /\ UNCHANGED <<named, files, launched, commands, fresh, targets, late, gaveUp>>

Publish == \E t \in Task : Collect(t) \/ SendReplace(t) \/ \E i \in Mission : Read(t, i)

Connection(c) ==
    \/ Spawn(c) \/ Deliver(c)
    \/ \E n \in Name :
          Launch(c, n) \/ PrepareFails(c, n) \/ \E cmd \in {"hold", "abort"} : Lookup(c, n, cmd)

Loop(i) == DropReceiver(i) \/ End(i) \/ \E s \in State : Proceed(i, s) \/ Obey(i, s)

Shutdown ==
    \/ CollectTargets \/ Wait \/ Leave
    \/ \E i \in Mission : AbortMission(i)

Next ==
    \/ Publish
    \/ \E c \in Client : Connection(c)
    \/ \E i \in Mission : Loop(i)
    \/ RemoveMission
    \/ Break \/ Shutdown

(* The runtime is never idle while a task can go on: a publication, a launch that
   was admitted, a mission that has a command, a removal or the shutdown. *)
Busy ==
    \/ Publish
    \/ \E c \in Client : Spawn(c)
    \/ \E i \in Mission : End(i) \/ DropReceiver(i) \/ \E s \in State : Obey(i, s)
    \/ RemoveMission
    \/ Shutdown
Fairness == WF_vars(Busy)

Spec == Init /\ [][Next]_vars
FairSpec == Spec /\ Fairness

----------------------------------------------------------------------------
Summary == Mission \X State

(* Every variable stays in its type, and no control channel grows beyond its
   capacity. *)
TypeOK ==
    /\ entry \in [Name -> Mission \cup {NoMission}]
    /\ named \in [Mission -> Name]
    /\ stage \in [Mission -> {"none", "new", "live", "ended", "gone"}]
    /\ state \in [Mission -> State]
    /\ ctrl \in [Mission -> Seq({"hold", "abort"})]
    /\ \A i \in Mission : Len(ctrl[i]) <= Capacity
    /\ client \in [Client -> {Idle} \cup [at : {"launch"}, of : Mission]
                                    \cup [at : {"send"}, to : Mission, cmd : {"hold", "abort"}]]
    /\ cleanup \in Seq(Name)
    /\ publisher \in [Task -> [at : {"off", "collect"}]
                              \cup [at : {"read"}, left : SUBSET Mission,
                                    seen : SUBSET Summary, last : BOOLEAN]]
    /\ board \subseteq Summary
    /\ files \in [Name -> SUBSET Mission]
    /\ daemon \in {"up", "collect", "abort", "leave", "down"}
    /\ targets \subseteq Mission /\ late \subseteq Mission
    /\ launched \in 0..MaxLaunches /\ commands \in 0..MaxCommands
    /\ fresh \in BOOLEAN /\ gaveUp \in BOOLEAN

(* cmd_launch, MissionCleanup and remove_mission go by names only, and yet: a
   mission that has not ended can be reached under its name, a removal under way
   is that of the mission registered under the name, which has ended, and what a
   mission's directory holds is its own. *)
NamesAreOwn ==
    /\ \A i \in Live : entry[named[i]] = i
    /\ \A k \in DOMAIN cleanup :
          LET i == entry[cleanup[k]]
          IN  i # NoMission /\ stage[i] \in {"ended", "gone"}
    /\ \A i \in Registered : files[named[i]] \subseteq {i}

(* publish_status_snapshot: once every task has published, the board is what the
   missions are, unless a slower task has overwritten the latest collection
   with its own. *)
Now == {<<i, state[i]>> : i \in Registered}
BoardIsCurrent == (\A t \in Task : publisher[t] = Off) /\ fresh => board = Now

(* shutdown_missions: a daemon that ends and did not lose its patience leaves no
   mission that runs, but one that was launched when the end had begun. *)
ShutdownReachesAll == daemon = "leave" /\ ~gaveUp => Live \subseteq late

(* shutdown_missions: full channels, missions that publish, launches under way
   and the removal of missions do not keep the daemon from its end. *)
ShutdownEnds == daemon # "up" ~> daemon = "down"
=============================================================================
