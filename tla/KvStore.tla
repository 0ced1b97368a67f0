------------------------------ MODULE KvStore ------------------------------
(***************************************************************************)
(* The key-value store of a mission module and the state file behind it.   *)
(* Each runner keeps the entries in its own runtime state; a kv_set or     *)
(* kv_delete of a module with host-persisted state saves all of it with    *)
(* atomic_write (a temporary file, fsync, rename, fsync of the directory)  *)
(* and takes the change back if that fails.  Runners of one module share   *)
(* the file, the directory and, in one process, the names of temporary     *)
(* files.                                                                  *)
(*                                                                         *)
(* A value is its length; keys have one length.  A file is the write that  *)
(* made it, and the name it bears at a time is a matter of the directory.  *)
(***************************************************************************)
EXTENDS Integers, FiniteSets, Sequences, FiniteSetsExt, Functions

CONSTANTS
    Runner,      \* runners of the module in one process
    Key,
    Value,       \* lengths the guest tries to store
    KeySize,     \* length of a key
    MaxValue,    \* kv_max_value_bytes
    MaxTotal,    \* kv_max_total_bytes
    Temp,        \* how many temporary names atomic_write tries (32)
    MaxWrites,   \* bound: writes begun
    MaxCrashes   \* bound: crashes of the process

ASSUME KvAssumption ==
    /\ IsFiniteSet(Runner)
    /\ IsFiniteSet(Key)
    /\ Value \subseteq Nat
    /\ KeySize \in Nat
    /\ MaxValue \in Nat
    /\ MaxTotal \in Nat
    /\ Temp \in Nat
    /\ MaxWrites \in Nat
    /\ MaxCrashes \in Nat

Absent == -1

VARIABLES
    persisted,   \* the module declares host-persisted state
    up,          \* runners whose guest may call
    kv,          \* of each runner: the entries in its runtime state
    pending,     \* of each runner: pending_kv_response, with its key
    write,       \* of each runner: where its kv_set, kv_delete or save is
    begun,       \* writes begun by any runner
    name,        \* of each temporary name: the file that bears it
    data,        \* of each file: what has been written, if all of it has
    file,        \* the state file, as programs see it ...
    safe,        \* ... and as it is after a loss of power
    told,        \* history: of each runner, the entries its calls amount to
    acked,       \* history: the files whose write was reported a success
    moved,       \* history: the files that became the state file, in order
    crashes,     \* crashes so far
    litter,      \* history: temporary files that could not be removed
    dirFailed    \* history: a directory could not be synced after a rename

vars == <<persisted, up, kv, pending, write, begun, name, data, file, safe,
          told, acked, moved, crashes, litter, dirFailed>>

Empty == [k \in Key |-> Absent]
File == 1..MaxWrites
NoFile == 0
Partial == <<>>
Idle == [at |-> "idle"]

(* Bytes of all entries but that of key k. *)
Others(s, k) == {j \in Key \ {k} : s[j] # Absent}
BytesWithout(s, k) == MapThenSumSet(LAMBDA j : KeySize + s[j], Others(s, k))

(* validate_state *)
Valid(s) ==
    /\ \A k \in Key : s[k] <= MaxValue
    /\ MapThenSumSet(LAMBDA j : KeySize + s[j], {j \in Key : s[j] # Absent}) <= MaxTotal

Init ==
    /\ persisted \in BOOLEAN
    /\ up = {}
    /\ kv = [r \in Runner |-> Empty]
    /\ pending = [r \in Runner |-> <<>>]
    /\ write = [r \in Runner |-> Idle]
    /\ begun = 0
    /\ name = [n \in 0..(Temp - 1) |-> NoFile]
    /\ data = [f \in File |-> Partial]
    /\ file = NoFile
    /\ safe = NoFile
    /\ told = [r \in Runner |-> Empty]
    /\ acked = {}
    /\ moved = <<>>
    /\ crashes = 0
    /\ litter = 0
    /\ dirFailed = FALSE

(* The memory of runners that are gone. *)
Forget(rs) ==
    /\ kv' = [r \in Runner |-> IF r \in rs THEN Empty ELSE kv[r]]
    /\ told' = [r \in Runner |-> IF r \in rs THEN Empty ELSE told[r]]
    /\ pending' = [r \in Runner |-> IF r \in rs THEN <<>> ELSE pending[r]]

diskVars == <<name, data, file, safe, acked, moved, dirFailed>>

----------------------------------------------------------------------------
(* MissionController::new: load_runtime_state.  A file that cannot be decoded
   or is over the limits fails the start. *)
Loaded == IF file = NoFile THEN <<Empty>> ELSE data[file]

Start(r) ==
    /\ r \notin up
    /\ begun < MaxWrites
    /\ Loaded # Partial /\ Valid(Loaded[1])
    /\ up' = up \cup {r}
    /\ kv' = [kv EXCEPT ![r] = Loaded[1]]
    /\ told' = [told EXCEPT ![r] = Loaded[1]]
    /\ pending' = [pending EXCEPT ![r] = <<>>]
    /\ UNCHANGED <<persisted, write, begun, crashes, litter, diskVars>>

----------------------------------------------------------------------------
(* kv_get: a value waits for the guest, or none does. *)
Get(r, k) ==
    /\ r \in up /\ write[r] = Idle
    /\ pending' = [pending EXCEPT ![r] =
           IF kv[r][k] = Absent THEN <<>> ELSE <<k, kv[r][k]>>]
    /\ UNCHANGED <<persisted, up, kv, write, begun, told, crashes, litter, diskVars>>

(* kv_response_read with a buffer that is long enough: the value is gone even
   if the guest's memory cannot take it. *)
ReadResponse(r) ==
    /\ r \in up /\ write[r] = Idle
    /\ pending[r] # <<>>
    /\ pending' = [pending EXCEPT ![r] = <<>>]
    /\ UNCHANGED <<persisted, up, kv, write, begun, told, crashes, litter, diskVars>>

(* Mutant: the file of a write is the previous one. *)
BegunAgain(r, last) == [at |-> "open", new |-> begun, old |-> kv[r], last |-> last]

(* A write that begins, in the call or as the last one of the runner. *)
Begun(r, last) == [at |-> "open", new |-> begun + 1, old |-> kv[r], last |-> last]

(* persist_if_host_persisted: the change is made in memory first; a volatile
   store needs no more. *)
Apply(r, s) ==
    /\ kv' = [kv EXCEPT ![r] = s]
    /\ pending' = [pending EXCEPT ![r] = <<>>]
    /\ IF persisted
       THEN /\ write' = [write EXCEPT ![r] = Begun(r, FALSE)]
            /\ begun' = begun + 1
            /\ UNCHANGED told
       ELSE /\ told' = [told EXCEPT ![r] = s]
            /\ UNCHANGED <<write, begun>>
    /\ UNCHANGED <<persisted, up, crashes, litter, diskVars>>

(* Mutant: the replaced value is not counted out, nor in. *)
FitsAnyway(s, k, v) == v <= MaxValue /\ BytesWithout(s, k) <= MaxTotal

Fits(s, k, v) == v <= MaxValue /\ BytesWithout(s, k) + KeySize + v <= MaxTotal

(* set_value.  A value over its limit is refused at once, which changes
   nothing; a store over its limit is refused too, but the answer that waited
   is gone by then. *)
Set(r, k, v) ==
    /\ r \in up /\ write[r] = Idle /\ begun < MaxWrites
    /\ IF Fits(kv[r], k, v)
       THEN Apply(r, [kv[r] EXCEPT ![k] = v])
       ELSE /\ v <= MaxValue
            /\ pending' = [pending EXCEPT ![r] = <<>>]
            /\ UNCHANGED <<persisted, up, kv, write, begun, told, crashes, litter, diskVars>>

(* delete_value; nothing is saved for a key that is not there. *)
Delete(r, k) ==
    /\ r \in up /\ write[r] = Idle /\ begun < MaxWrites
    /\ IF kv[r][k] # Absent
       THEN Apply(r, [kv[r] EXCEPT ![k] = Absent])
       ELSE /\ pending' = [pending EXCEPT ![r] = <<>>]
            /\ UNCHANGED <<persisted, up, kv, write, begun, told, crashes, litter, diskVars>>

(* persist_runtime_and_ledger: the runner saves once more and is done; a module
   with volatile state just ends. *)
Finish(r) ==
    /\ r \in up /\ write[r] = Idle
    /\ IF persisted /\ begun < MaxWrites
       THEN /\ write' = [write EXCEPT ![r] = Begun(r, TRUE)]
            /\ begun' = begun + 1
            /\ UNCHANGED <<up, kv, told, pending>>
       ELSE up' = up \ {r} /\ Forget({r}) /\ UNCHANGED <<write, begun>>
    /\ UNCHANGED <<persisted, crashes, litter, diskVars>>

----------------------------------------------------------------------------
(* atomic_write of runner r's entries. *)
New(r) == write[r].new
memVars == <<persisted, up, kv, pending, begun, told, crashes, litter>>
Goto(r, at) == write' = [write EXCEPT ![r].at = at]

FreeNames == {n \in DOMAIN name : name[n] = NoFile}

(* save: what it writes is valid; open_temp with create_new, under the first
   name that is free. *)
OpenTemp(r) ==
    /\ write[r].at = "open"
    /\ Valid(kv[r])
    /\ FreeNames # {}
    /\ LET n == Min(FreeNames)
       IN  /\ name' = [name EXCEPT ![n] = New(r)]
           /\ write' = [write EXCEPT ![r] = [at |-> "write", new |-> @.new, old |-> @.old,
                                             last |-> @.last, temp |-> n]]
    /\ UNCHANGED <<data, file, safe, acked, moved, dirFailed, memVars>>

(* write_all and sync_all on the open file, whatever its name is by now. *)
WriteTemp(r) ==
    /\ write[r].at = "write"
    /\ data' = [data EXCEPT ![New(r)] = <<kv[r]>>]
    /\ Goto(r, "rename")
    /\ UNCHANGED <<name, file, safe, acked, moved, dirFailed, memVars>>

(* rename moves the file that bears the name. *)
Rename(r) ==
    /\ write[r].at = "rename"
    /\ LET n == write[r].temp
       IN  /\ name[n] # NoFile
           /\ file' = name[n]
           /\ moved' = Append(moved, name[n])
           /\ name' = [name EXCEPT ![n] = NoFile]
    /\ Goto(r, "sync")
    /\ UNCHANGED <<data, safe, acked, dirFailed, memVars>>

(* Mutant: a write counts as done when the file has its name. *)
SafeUnsynced == safe

SafeNow == file

(* The runner is back in its guest with the entries s, or has ended with its
   last save: its memory is gone. *)
Done(r, s) ==
    /\ write' = [write EXCEPT ![r] = Idle]
    /\ IF write[r].last
       THEN up' = up \ {r} /\ Forget({r})
       ELSE /\ kv' = [kv EXCEPT ![r] = s]
            /\ told' = IF write[r].at = "sync" THEN [told EXCEPT ![r] = s] ELSE told
            /\ UNCHANGED <<up, pending>>

(* fsync_dir; the call has succeeded. *)
SyncDir(r) ==
    /\ write[r].at = "sync"
    /\ safe' = SafeNow
    /\ acked' = acked \cup {New(r)}
    /\ Done(r, kv[r])
    /\ UNCHANGED <<name, data, file, moved, dirFailed, persisted, begun, crashes, litter>>

(* Any step may fail.  No temporary name has been taken if opening did ... *)
Fail(r) ==
    /\ write[r].at \in {"write", "rename", "sync"}
    /\ Goto(r, "remove")
    /\ dirFailed' = (dirFailed \/ write[r].at = "sync")
    /\ UNCHANGED <<name, data, file, safe, acked, moved, memVars>>

(* Mutant: the change stays in memory. *)
NotRestored(r) == kv[r]

(* restore_value; the final save has nothing to take back. *)
Restored(r) == write[r].old

(* ... and else whatever bears the name is removed, if that does not fail as
   well: its error is ignored.  The call has failed. *)
RemoveTemp(r) ==
    /\ write[r].at \in {"open", "remove"}
    /\ \/ write[r].at = "open" /\ UNCHANGED <<name, litter>>
       \/ /\ write[r].at = "remove"
          /\ name' = [name EXCEPT ![write[r].temp] = NoFile]
          /\ UNCHANGED litter
       \/ /\ write[r].at = "remove" /\ name[write[r].temp] # NoFile
          /\ litter' = litter + 1
          /\ UNCHANGED name
    /\ Done(r, Restored(r))
    /\ UNCHANGED <<data, file, safe, acked, moved, dirFailed, persisted, begun, crashes>>

(* The process or the machine stops: temporary files stay behind, and so may
   the state file of before the last rename that was not synced. *)
Crash ==
    /\ crashes < MaxCrashes
    /\ crashes' = crashes + 1
    /\ up' = {}
    /\ write' = [r \in Runner |-> Idle]
    /\ file' \in {file, safe}
    /\ safe' = file'
    /\ Forget(Runner)
    /\ UNCHANGED <<persisted, begun, name, data, acked, moved, litter, dirFailed>>

Save(r) ==
    \/ OpenTemp(r)
    \/ WriteTemp(r)
    \/ Rename(r)
    \/ SyncDir(r)
    \/ Fail(r)
    \/ RemoveTemp(r)

Guest(r) ==
    \/ \E k \in Key : Get(r, k) \/ Delete(r, k) \/ \E v \in Value : Set(r, k, v)
    \/ ReadResponse(r)

Next ==
    \/ Crash
    \/ \E r \in Runner : Start(r) \/ Guest(r) \/ Save(r) \/ Finish(r)

Spec == Init /\ [][Next]_vars

----------------------------------------------------------------------------
Entries == [Key -> {Absent} \cup Value]
WriteType ==
    {Idle}
    \cup [at : {"open"}, new : File, old : Entries, last : BOOLEAN]
    \cup [at : {"write", "rename", "sync", "remove"}, new : File, old : Entries,
          last : BOOLEAN, temp : DOMAIN name]

(* Every variable stays in its type, and only a runner that is up writes. *)
TypeOK ==
    /\ persisted \in BOOLEAN
    /\ up \subseteq Runner
    /\ kv \in [Runner -> Entries] /\ told \in [Runner -> Entries]
    /\ pending \in [Runner -> {<<>>} \cup (Key \X Value)]
    /\ write \in [Runner -> WriteType]
    /\ \A r \in Runner : write[r] # Idle => r \in up
    /\ begun \in 0..MaxWrites
    /\ name \in [0..(Temp - 1) -> File \cup {NoFile}]
    /\ data \in [File -> {Partial} \cup [1..1 -> Entries]]
    /\ file \in File \cup {NoFile} /\ safe \in File \cup {NoFile}
    /\ acked \subseteq File
    /\ moved \in Seq(File)
    /\ crashes \in 0..MaxCrashes /\ litter \in Nat
    /\ dirFailed \in BOOLEAN

(* set_value and validate_state: no sequence of replacements, deletions, failed
   saves and restarts brings a store or a file over the limits. *)
WithinLimits ==
    /\ \A r \in Runner : Valid(kv[r])
    /\ \A f \in File : data[f] # Partial => Valid(data[f][1])

(* set_value, delete_value and restore_value: between two calls the store holds
   what the calls that succeeded made of it, no more and no less, and a value
   that waits for the guest is still the value of its key. *)
GuestIsTold ==
    \A r \in up :
        /\ write[r] = Idle => kv[r] = told[r]
        /\ pending[r] # <<>> => kv[r][pending[r][1]] = pending[r][2]

(* atomic_write: the state file is always one that was written completely, also
   after a loss of power, and a write that was reported a success is in it or
   was replaced by a later one.  A temporary name that is taken belongs to a
   write that is under way, or was left by a crash or by a removal that failed:
   nothing else uses the names up.  All this as long as no directory failed to
   sync after a rename, for then the clean-up may hit the file of another
   writer. *)
Position(f) == IF f = NoFile THEN 0 ELSE CHOOSE i \in 1..Len(moved) : moved[i] = f
WritesAreAtomic ==
    ~dirFailed =>
        /\ \A f \in {file, safe} : f # NoFile => data[f] # Partial
        /\ \A f \in acked : Position(f) <= Position(safe)
        /\ Cardinality({n \in DOMAIN name : name[n] # NoFile})
              <= Cardinality({r \in Runner : write[r] # Idle})
                    + crashes * Cardinality(Runner) + litter
=============================================================================
