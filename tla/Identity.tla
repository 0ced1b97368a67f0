------------------------------ MODULE Identity ------------------------------
(***************************************************************************)
(* The installation identity (src/identity.rs): commands and daemons that  *)
(* start load it from its directory, and those that find none create one   *)
(* in a temporary directory and rename that.  Any number of processes      *)
(* start at once; any may fail at any file, be killed, or lose power.      *)
(*                                                                         *)
(* A file is the start whose secrets are in it: 0 for those that were      *)
(* there before.                                                           *)
(***************************************************************************)
EXTENDS Integers

CONSTANTS
    Process,
    MaxStarts,   \* bound: starts of all processes
    MaxFaults    \* bound: failures, kills and losses of power

ASSUME IdentityAssumption == MaxStarts \in Nat /\ MaxFaults \in Nat

File == {"identity.json", "private_key.bin", "public_key.bin"}
Secret == 0..MaxStarts
Missing == -1
Bad == -2
NoDir == <<>>
NoValue == <<>>
Refused == <<"refused">>
Failed == <<"failed">>
Filled(n) == [f \in File |-> n]
Empty == Filled(Missing)
Dirs == {NoDir} \cup [File -> Secret \cup {Missing, Bad}]

VARIABLES
    dir,       \* the identity directory, as programs see it ...
    durable,   \* ... and as a loss of power leaves it
    pc,        \* of each process: where its start is
    start,     \* of each process: the number of its start
    temp,      \* of each process: its temporary directory
    got,       \* of each process: the identity it has read
    met,       \* of each process: has it met a failure of the machine?
    starts, faults,
    left,      \* temporary directories nobody will remove
    ask,       \* history: of each process, was the identity there when it asked?
    answer     \* what its last start came to

procVars == <<pc, start, temp, got, met, ask, answer>>
vars == <<dir, durable, procVars, starts, faults, left>>

(* What load_existing_at_ignoring_mismatch accepts; a public key of any content
   is derived anew. *)
Whole(d) == d # NoDir /\ \A f \in File : d[f] # Missing
Readable(d) ==
    /\ Whole(d)
    /\ d["identity.json"] \in Secret /\ d["private_key.bin"] \in Secret
IdentityOf(d) ==
    IF Readable(d) THEN <<d["identity.json"], d["private_key.bin"]>> ELSE NoValue

(* Nothing, or what an earlier version, an operator or a broken disk left. *)
Found ==
    {NoDir, Empty, Filled(0)}
    \cup {[Filled(0) EXCEPT !["public_key.bin"] = x] : x \in {Missing, Bad}}
    \cup {[Filled(0) EXCEPT ![f] = Bad] : f \in File}

Init ==
    /\ dir \in Found
    /\ durable = dir
    /\ pc = [p \in Process |-> "idle"]
    /\ start = [p \in Process |-> 0]
    /\ temp = [p \in Process |-> NoDir]
    /\ got = [p \in Process |-> NoValue]
    /\ met = [p \in Process |-> FALSE]
    /\ starts = 0 /\ faults = 0 /\ left = 0
    /\ ask = [p \in Process |-> "idle"]
    /\ answer = [p \in Process |-> NoValue]

Goto(p, at) == pc' = [pc EXCEPT ![p] = at]
Fault == faults < MaxFaults /\ faults' = faults + 1

(* The start of p is over, and its temporary directory with it: removed, renamed
   or left behind. *)
Reply(p, a) ==
    /\ Goto(p, "idle")
    /\ ask' = [ask EXCEPT ![p] = "idle"]
    /\ answer' = [answer EXCEPT ![p] = a]
    /\ got' = [got EXCEPT ![p] = NoValue]
    /\ met' = [met EXCEPT ![p] = FALSE]
    /\ start' = [start EXCEPT ![p] = 0]

Discard(p) == temp' = [temp EXCEPT ![p] = NoDir]
Refuse(p) == Reply(p, IF met[p] THEN Failed ELSE Refused)
Stay == UNCHANGED <<start, ask, answer>>

----------------------------------------------------------------------------
(* load_or_create_at *)
Begin(p) ==
    /\ pc[p] = "idle" /\ starts < MaxStarts
    /\ starts' = starts + 1
    /\ start' = [start EXCEPT ![p] = starts + 1]
    /\ Goto(p, "look")
    /\ ask' = [ask EXCEPT ![p] = IF IdentityOf(dir) = NoValue THEN "asked" ELSE "assured"]
    /\ answer' = [answer EXCEPT ![p] = NoValue]
    /\ UNCHANGED <<dir, durable, temp, got, met, faults, left>>

(* load_existing_at_ignoring_mismatch: which files are there ... *)
Look(p) ==
    /\ pc[p] = "look"
    /\ IF dir \in {NoDir, Empty} \/ Whole(dir)
       THEN /\ Goto(p, IF Whole(dir) THEN "read" ELSE "mkdir")
            /\ Stay /\ UNCHANGED <<got, met>>
       ELSE Refuse(p)
    /\ UNCHANGED <<dir, durable, temp, starts, faults, left>>

(* ... what is in them ... *)
Read(p) ==
    /\ pc[p] = "read"
    /\ IF Readable(dir)
       THEN /\ Goto(p, "public")
            /\ got' = [got EXCEPT ![p] = IdentityOf(dir)]
            /\ Stay /\ UNCHANGED met
       ELSE Refuse(p)
    /\ UNCHANGED <<dir, durable, temp, starts, faults, left>>

(* ... and ensure_public_key_file: the one there, ... *)
PublicKeyIsRight(p) == dir["public_key.bin"] = got[p][2]
EnsurePublicKey(p) ==
    /\ pc[p] = "public"
    /\ IF PublicKeyIsRight(p)
       THEN Reply(p, got[p])
       ELSE Goto(p, "repair") /\ Stay /\ UNCHANGED <<got, met>>
    /\ UNCHANGED <<dir, durable, temp, starts, faults, left>>

(* ... or another in its place. *)
Repaired(d, p) == IF d = NoDir THEN d ELSE [d EXCEPT !["public_key.bin"] = got[p][2]]
RepairPublicKey(p) ==
    /\ pc[p] = "repair"
    /\ dir' = Repaired(dir, p)
    /\ durable' = Repaired(durable, p)
    /\ Reply(p, got[p])
    /\ UNCHANGED <<temp, starts, faults, left>>

(* create_new_at *)
CreateTemp(p) ==
    /\ pc[p] = "mkdir"
    /\ temp' = [temp EXCEPT ![p] = Empty]
    /\ Goto(p, "fill")
    /\ Stay /\ UNCHANGED <<dir, durable, got, met, starts, faults, left>>

(* Nobody sees the directory as it fills. *)
Fill(p) ==
    /\ pc[p] = "fill"
    /\ temp' = [temp EXCEPT ![p] = Filled(start[p])]
    /\ got' = [got EXCEPT ![p] = IdentityOf(temp'[p])]
    /\ Goto(p, "check")
    /\ Stay /\ UNCHANGED <<dir, durable, met, starts, faults, left>>

(* Mutant: the temporary directory is left where it is. *)
Abandon(p) == UNCHANGED temp

RemoveTemp(p) == Discard(p)

Check(p) ==
    /\ pc[p] = "check"
    /\ IF dir = NoDir
       THEN Goto(p, "rename") /\ Stay /\ UNCHANGED <<temp, got, met>>
       ELSE RemoveTemp(p) /\ Refuse(p)
    /\ UNCHANGED <<dir, durable, starts, faults, left>>

(* Mutant: a directory that is there is replaced. *)
AnyDir(d) == TRUE

(* rename replaces nothing but an empty directory. *)
Replaceable(d) == d \in {NoDir, Empty}

Rename(p) ==
    /\ pc[p] = "rename"
    /\ Discard(p)
    /\ IF Replaceable(dir)
       THEN /\ dir' = temp[p]
            /\ Goto(p, "sync")
            /\ Stay /\ UNCHANGED <<left, got, met>>
       ELSE Refuse(p) /\ left' = left + 1 /\ UNCHANGED dir
    /\ UNCHANGED <<durable, starts, faults>>

SyncParent(p) ==
    /\ pc[p] = "sync"
    /\ durable' = dir
    /\ Reply(p, got[p])
    /\ UNCHANGED <<dir, temp, starts, faults, left>>

----------------------------------------------------------------------------
(* exists() answers no when it cannot tell. *)
CannotTell(p) ==
    /\ pc[p] \in {"look", "check"}
    /\ Fault
    /\ met' = [met EXCEPT ![p] = TRUE]
    /\ Goto(p, IF pc[p] = "look" THEN "mkdir" ELSE "rename")
    /\ Stay /\ UNCHANGED <<dir, durable, temp, got, starts, left>>

(* A file fails.  Only while it fills is the temporary directory removed. *)
Fail(p) ==
    /\ pc[p] \in {"read", "repair", "mkdir", "fill", "rename", "sync"}
    /\ Fault
    /\ Reply(p, Failed)
    /\ Discard(p)
    /\ left' = IF pc[p] = "rename" THEN left + 1 ELSE left
    /\ UNCHANGED <<dir, durable, starts>>

(* The process is killed. *)
Stopped(ps) ==
    /\ pc' = [p \in Process |-> IF p \in ps THEN "idle" ELSE pc[p]]
    /\ ask' = [p \in Process |-> IF p \in ps THEN "idle" ELSE ask[p]]
    /\ got' = [p \in Process |-> IF p \in ps THEN NoValue ELSE got[p]]
    /\ met' = [p \in Process |-> IF p \in ps THEN FALSE ELSE met[p]]
    /\ start' = [p \in Process |-> IF p \in ps THEN 0 ELSE start[p]]
    /\ temp' = [p \in Process |-> IF p \in ps THEN NoDir ELSE temp[p]]

Kill(p) ==
    /\ pc[p] # "idle"
    /\ Fault
    /\ Stopped({p})
    /\ left' = IF temp[p] = NoDir THEN left ELSE left + 1
    /\ UNCHANGED <<dir, durable, answer, starts>>

(* A rename that was not synced may be undone; what fell with it is not told
   apart from other temporary directories. *)
PowerLoss ==
    /\ Fault
    /\ Stopped(Process)
    /\ dir' \in {dir, durable}
    /\ durable' = dir'
    /\ UNCHANGED <<answer, starts, left>>

Next ==
    \/ PowerLoss
    \/ \E p \in Process :
          \/ Begin(p) \/ Look(p) \/ Read(p) \/ EnsurePublicKey(p) \/ RepairPublicKey(p)
          \/ CreateTemp(p) \/ Fill(p) \/ Check(p) \/ Rename(p) \/ SyncParent(p)
          \/ CannotTell(p) \/ Fail(p) \/ Kill(p)

Spec == Init /\ [][Next]_vars

----------------------------------------------------------------------------
Values == (Secret \X Secret) \cup {NoValue}

(* Every variable stays in its type, and a start that is over has left nothing
   in memory and no temporary directory it could still remove. *)
TypeOK ==
    /\ dir \in Dirs /\ durable \in Dirs
    /\ pc \in [Process -> {"idle", "look", "read", "public", "repair", "mkdir", "fill",
                           "check", "rename", "sync"}]
    /\ start \in [Process -> Secret]
    /\ temp \in [Process -> Dirs]
    /\ got \in [Process -> Values]
    /\ met \in [Process -> BOOLEAN]
    /\ starts \in 0..MaxStarts /\ faults \in 0..MaxFaults /\ left \in Nat
    /\ ask \in [Process -> {"idle", "asked", "assured"}]
    /\ answer \in [Process -> Values \cup {Refused, Failed}]
    /\ \A p \in Process :
          pc[p] = "idle" => temp[p] = NoDir /\ got[p] = NoValue /\ ask[p] = "idle"

Register ==
    INSTANCE IdentityRegister
        WITH Value <- Secret \X Secret,
             value <- IdentityOf(dir),
             confirmed <- IdentityOf(durable) # NoValue

(* load_or_create_at: whatever starts race, fail or are killed, the identity is
   written once, every start that succeeds gets the one that is there, and one
   that began when it was there fails only with the machine.  Only power lost
   before the parent directory was synced may take it away. *)
WrittenOnce == Register!Spec
=============================================================================
