# A verification development for brrmmmm

brrmmmm is a runtime that completes acquisition missions: it loads a Wasm
module, gives it host capabilities, runs it until it reports a terminal outcome
and leaves a durable record. It runs once from the command line or as a daemon
that keeps many missions. This directory holds TLA+ models of its control
logic, the TLC configurations that check them on small instances, and TLAPS
proofs of the main results for every value of the constants.

All source paths below are relative to the Rust crate (`src/` there is the
crate's `src/`).

## 1. The system

| component | state it keeps | operations | what is hard about it | what makes it correct |
|---|---|---|---|---|
| Daemon mission loop (`daemon/mod.rs`) | mode and held_resume_mode of the task, published `MissionState`, the recorder, `.status.json`, `.out.json`, control channel | launch, hold, resume, rescue retry, abort, completion, scheduled wake-up | commands race outcomes; events of a stopped runner arrive late; failing writes; the mode lives in two variables | a mission rests only with its attempt on file; clients see what it waits for; one retry, one override |
| Mission ledger and repeat-failure gate (`mission_ledger.rs`, `controller/runner.rs`) | one JSON file per module | load, save, gate decision | unlocked read-modify-write by detached runners and other processes; lost saves; undecodable files | repeated identical failures close the gate; nothing unattended opens it |
| Mission controller and runner thread (`controller/mod.rs`, `controller/runner.rs`) | runtime state, artifact store, stop signal, epoch timer, one thread per attempt | new, poll_completion, stop; the phases of `run` | stop detaches the thread; the budget is enforced by a timer that stops with it; panics of host imports | an attempt yields exactly one completion; budgets end guests |
| Outcome state and backoff (`controller/io.rs`) | phase, failure counters, cooldown, pending rescue, host decision | update_mission_outcome_state, backoff, escalation, phase changes | several reports per attempt, saturating arithmetic, module overrides of host floors | decision, cooldown and rescue fit the outcome |
| Registry, status board, shutdown (`daemon/mod.rs`) | missions, taken names, watch channel | launch, cleanup, publish, shutdown | collect-then-publish without the lock; launches during shutdown | the last board published is current; names are unique |
| Watch stream (`daemon/mod.rs`, `daemon/mission.rs`) | capped history, broadcast channel | append, subscribe, snapshot, lag | subscribe/snapshot overlap, lag, eviction | no event twice, none missed unless lagged or evicted |
| Key-value store and files (`host_imports/kv`, `persistence.rs`) | map, pending answer, budget, state file, temporary files | get, set, delete, load, save | budgets; a roll-back when a save fails after its rename; several runners on one file | what the guest is told of is what memory holds; the file is always whole and never goes back |
| Host calls, network, AI and browser sessions (`host_imports/`, `host/`, `mission_state.rs`) | pending response, sessions, request counter and behaviour hash, disclosure flag | call, read, navigate and act, sign, hide the identity | a second call before a read; an interceptor task that signs the page's requests meanwhile; pages that come and go | no answer for another; an envelope tells all that was done before it; a hidden identity stays hidden |
| One-shot run (`cmd/run.rs`, `main.rs`) | watchdog, record file, exit code | wait loop, record, exit | a cooldown inside the watchdog's time, exit before the ledger is saved | a run ends, and its record and exit code are its own |
| Installation identity (`identity.rs`) | directory with identity, private and public key | load, repair, create | processes that create it at once; half-made directories; loss of power | one identity, the same for all, for good |
| Results and explain (`mission_result.rs`) | records | write, render | time-aware rescue expiry | a record is of one attempt |
| Inspection, validation, configuration, CLI, service, TUI | none, or files of the user | parse, check, print | sequential | covered by the repository's tests |

How they interact: a client's request reaches the daemon, which keeps the
mission in the registry and sends control commands through a bounded channel to
the mission's task. The task makes a controller per attempt; the controller
starts a thread, which runs the guest, writes the shared runtime state and
emits events into an unbounded channel. The task drains that channel into its
recorder, polls the runtime state for the outcome, and writes the files. The
runner reads and writes the ledger on its own.

The hazards, each at its line, are listed in `PROJECT.json`.

## 2. The modules

| module | models | composes |
|---|---|---|
| `RetryGate` | the ledger file, the runners of one module from describe() to their save | |
| `RetryGate_proofs` | theorems about it | `RetryGate` |
| `MCRetryGate` | instance for TLC | `RetryGate` |
| `MissionLifecycle` | what a daemon mission promises its operator (abstract) | |
| `MissionLoop` | one mission's task, channel, recorder, result file and current runner | implements `MissionLifecycle` |
| `MissionLoop_proofs` | theorems about it, the refinement among them | `MissionLoop` |
| `MCMissionLoop` | instance for TLC | `MissionLoop` |
| `MissionFeed` | what `watch` promises the clients of a mission (abstract) | |
| `WatchStream` | recorder, events file, capped history, broadcast channel, watching connections | implements `MissionFeed` |
| `WatchStream_proofs` | theorems about it, the refinement among them | `WatchStream` |
| `MCWatchStream` | instance for TLC | `WatchStream` |
| `OutcomeState` | the runtime state as functions: outcome, decision, backoff, rescue, sleep, record, explain | |
| `Attempt` | runs of the run command: its thread, the runner thread, the module, state file, ledger and record | `OutcomeState` |
| `Attempt_proofs` | theorems about it | `Attempt` |
| `MCAttempt` | instance for TLC | `Attempt` |
| `HostCalls` | host_call with network, AI provider and browser, the interceptor, request counter and envelopes | |
| `HostCalls_proofs` | theorems about it | `HostCalls` |
| `MCHostCalls` | instance for TLC | `HostCalls` |
| `KvStore` | the entries of a module's runners, atomic_write and the state file | |
| `KvStore_proofs` | theorems about it | `KvStore` |
| `MCKvStore` | instance for TLC | `KvStore` |
| `Registry` | registry, control channels, clean-up, status board and shutdown of the daemon | |
| `Registry_proofs` | theorems about it | `Registry` |
| `MCRegistry` | instance for TLC | `Registry` |
| `IdentityRegister` | what the installation identity promises (abstract): a register written once | |
| `Identity` | the identity directory, processes that load, repair or create it | implements `IdentityRegister` |
| `Identity_proofs` | theorems about it, the refinement among them | `Identity` |
| `MCIdentity` | instance for TLC | `Identity` |

### RetryGate

`ledger` is the file; a missing file behaves as `EmptyLedger`. Each member of
`Runner` is a runner thread, of whatever attempt, mission or process: `prior`
is the copy it read in describe_run_context, `outcome` what it will save.
`Describe` may read nothing although the file exists, because the code swallows
load errors. `Persist` writes a record computed from `prior`, whatever the file
holds by now. `Lose` is a runner that ends without saving: process exit, host
import panic, a guest that never returns, a failing write. `NextLedger` is
`ledger_retry_state`, its three parts named `KeptGate`, `Streak` and `Tripped`.
Outcomes are reduced to reason codes; a published outcome is a reason of its
own. The variables `tail`, `evidence` and `asked` are history: they remember
what was saved so that the properties can speak of it, and no guard reads them.

* `RepeatBound`: failures that follow one another with one reason and one
  fingerprint, none overridden, each saved over the very record it read, never
  exceed `same_reason_retry_limit`, whatever blocked attempts lie between.
* `GateEvidence`: whoever holds a copy of a gate, the failure it names was
  recorded at least the limit's number of times under the fingerprint it
  blocks, or the module asked for changed conditions itself.
* `GateHolds`: a gate is lifted only by an attempt that was overridden, ran
  with other inputs, or had read a record that was replaced meanwhile.
* `OverrideIsOneRetry` (refuted): see Findings.

### MissionLoop and MissionLifecycle

The task is a single thread, so a stretch of it that ends where it waits is one
action: the head of the loop (`EnterHeld`, `EnterSchedule`, `EnterManual`,
`StartAttempt`, `FailToStart`), a step of the attempt (`Record`, `Poll`,
`Interrupt`, and after the flush `Complete`, `CompleteUnwritten`,
`HoldAttempt`, `RetryAttempt`, `AbortAttempt`), a step of a wait (`Wake`,
`HoldWait`, `RetryWait`, `AbortWait`, `Resume`, `Ignore`). Operators (`Send`)
and the runner (`RunnerStarts`, `RunnerReports`, `RunnerEmits`,
`RunnerVanishes`) act between any two of them. `RunnerReports` writes the
shared runtime state and `RunnerEmits` the event, in that order, as
update_mission_outcome_state does; a runner goes on while the loop flushes,
because `stop` only detaches it.

Attempts are not numbered. What the recorder (`rec.begun`, `rec.from`), the
result file (`result.of`) and the channel hold is tagged "this" for the latest
attempt or "earlier"; a new attempt ages the tags. Timestamps, messages and
the recorder's lists are left out except for whose attempt an entry is of and
whether a rescue retry is among the interventions. `credit` is history: rescue
retries not yet spent on an attempt. Time is a free choice: a schedule may be
due at once (`Wake`) or not while commands arrive.

`MissionLifecycle` has three variables (phase, grant, filed) and seven actions.
`ImplementsLifecycle` maps the loop to it: `Phase` from pc, hold flag and mode,
`Grant` from the mode's override while an attempt is due or under way, `filed`
from the result file.

* `ResultBeforeRest`: whenever the mission rests, or is held and would go back
  to rest, its latest attempt is in `.out.json` or last_error says that it
  could not be written.
* `WaitsAreVisible`: published state, hold flag, terminal flag and the
  recorder's own state agree with what the task waits for.
* `OverrideIsPaid`: attempts that override the gate and rescue retries pair up
  one to one, and none is left over when a wait is entered.
* `StatusAgreesWithResult`: at rest `.status.json` and `.out.json` tell one
  outcome although the module may report again while the loop flushes. They may
  differ only after a start that failed, of which the result file says
  runtime_error: the status then shows no outcome, or what the recorder kept of
  the attempt before if a rescue retry within that attempt led to the start
  (`rec.begun = "earlier"`; begin_attempt is skipped, see `OneAttemptPerRecord`).
* `FullChannelDrains`: a client blocked on a full channel gets through unless
  the mission ends.
* `AbortEnds`: a mission with an abort in its channel ends, although its guest
  may never return and other commands, retries among them, stand before it.
* `OneAttemptPerRecord`, `RetryIsRecorded` (refuted): see Findings.

### WatchStream and MissionFeed

One mission from its launch to its removal from the registry. An event is its
sequence number, its line only a length. The recorder's `record` is two
actions: `Record` writes the file and appends to the history under its lock,
`Send` gives the event to the broadcast channel; a watcher may take its
snapshot in between. `AppendLine` is `MissionHistory::append`; a line that is
longer than the byte limit by itself empties the history, its own event
included. `cmd_watch` is a small machine per connection: `Subscribe` under the
registry's lock, `Snapshot` under the history's, `WriteLine` per line of it,
then `SkipEvent`, `WriteEvent`, `Lagged` and `Closed` as the receiver yields;
or `ReadFile` when the mission is no longer listed. `WriteFails` is a client
that is gone, which the code notices only when it writes. `End` drops the
recorder with its sender and then the clean-up guard; `Cleanup` drops the
registry's handle with the other sender. `Queued` is tokio's channel as the
code relies on it: a receiver that is `RingSize` behind loses its oldest event
and is told so before its next one. The file is written by tokio in the
background and not flushed, so its last line may be missing for a reader who
comes at once; after the first failing write the file is given up.

`seen`, `told` and `lengths` are history variables. Watchers share nothing with
each other but what the recorder writes. A relaunch under the same name has a
history and a channel of its own, and prepare_mission_storage has removed the
events file of the mission before: it is a new behaviour of the module.

* `HistoryIsRecent`: the history is the longest end of the recording within
  both limits, numbered without a gap, and its byte count is exact.
* `InOrder`: no watcher gets an event twice or after a later one, although
  snapshot and channel overlap.
* `MissedMeansLagged`: what a watcher of a live mission has got and is still to
  get has no gap from its first event on, up to the last event recorded, unless
  the daemon has logged its lag or is about to.
* `StreamsEnd`: once a mission is removed, each stream that watches it ends.
* `ImplementsFeed`: the client's view is `MissionFeed`: it joins with some
  number of the latest events owed, is owed each new one, gets them in order,
  and loses only events that are a whole channel old; the stream ends with
  nothing owed. `due` is what `Owed` finds in snapshot, channel and send.

### OutcomeState and Attempt

`OutcomeState` has no variables: the runtime state of a mission is a record,
and each function that changes it in `controller/io.rs` is an operator on it
(`Update`, `Report`, `Ensured`, `InPhase`, `Published`, `NetworkFailed`,
`Slept`, `Reset`), with the host's decision, the retry delay, the backoff of a
poll strategy and the rescue window as helpers, and with the record file and
what `explain` makes of it at the end. Reason codes are those the host treats
apart and those of the module's own; messages are left out.

`Attempt` says who applies them and when, in runs of the run command that follow
one another. In a run two threads share `rt`, the runtime state, and `output`,
the artifact store: the command (`cli`) polls, takes a completion, writes the
record and exits, or gives up on its watchdog; the runner (`stage`) starts the
module, reads the ledger (`Describe`), waits for the cooldown, resets the
outcome (`EntryBegins`), calls the entry and saves state file and ledger. The
module calls the host as it likes, in its entry and already while it starts:
reports, publishes, fails requests, saves entries, sleeps, registers another
contract in place of the one it was described with (`RegisterManifest`), or does
not return. `stage = "dead"` is a runner thread that ends before it can report.
A process may be killed, and any save may fail (`Fault`). `Start` includes what
is refused before the loop: params, identity, state file. An error of the
command has a category (`err`), which its record tells (`ErrorRecord`) and which
gives the exit code of the process (`CategoryExit`); categories with one exit
code are one. A run is taken to have a result path; without one it leaves no
record, and so do the errors before that path is known. Time is the age of the
process in units; a start shifts the times in the files by the age of the last
process and a gap. `Tick` is possible only while the command sleeps between two
polls: its own steps take no time.

Facts the model shows and the code has: the watchdog compares a growing time
with a budget to which a shrinking cooldown is added, so with a cooldown of C
it fires at half of what budget, C and grace add up to, when that is earlier
than the cooldown's end; a sleep after a retryable report replaces the
cooldown; a run that was blocked by the gate clears it.

* `CompletionIsOwn`: no completion is what an earlier run left in the state
  file or the shared state.
* `EveryRunIsRecorded`: a run that ends by itself leaves its own record, or
  exits with 74 because that could not be written (`unwritten`). The record's
  exit code is the process's with two exceptions: of an error the record says 70
  or 124 and the process exits with 1, 64, 65, 74 or 124, by the category the
  record names; and a module may use the host's reason code acquisition_timeout
  with another status (then the record says 124, the process exits by status).
* `RescueIsBounded`: a recorded rescue ends its window after a moment of its
  run; explained later than that, it is closed safe and classified as the
  outcome, or else the contract, says. Window, permission and classification are
  those of one contract that was in force, although manifests may replace it
  before the report and after.
* `RetryWaits`: the entry of a run does not begin before the cooldown of the
  ledger is over, if no file fails.
* `RunEnds`: the command ends, whatever module and runner do.
* `LedgerKeepsOutcomes` (refuted): see Findings.

### HostCalls

One attempt. `guest.at` is where the guest's host_call is; it is suspended in a
call, so that calls of the guest do not overlap. The browser does: `paused` are
pages with a request that waits for the interceptor, `held` what the interceptor
has signed and not yet released. A request is held by the interceptor between
the lock and its release, and a release may fail, with or without a signature:
the listener drops the error, and the request is `stuck`. Both sides record and
sign under the lock of the host state (`mission`: behaviour hash as a sequence,
request counter, capabilities). An envelope is what it signs, `Told`; it is
missing if the nonce or a field fails. The HTTP clients of the network and the
AI session keep their default redirect policy: `Redirected` is the same request
with the same headers leaving again for another place, up to `MaxRedirects`
times, while the guest waits. `Navigate` is handle_navigate: the active page,
any open page, or a new one; `Intercept` is ensure_page_attestation, which
listens to one page for the session's life. `PagesChange` and `PageRequests` are
the world behind the browser. `NetworkReturns`, `BrowserFails` and `AiAnswers`
may happen at every wait. The raw source and the phase that a network request
publishes are left out, as nothing here reads them. The store's calls appear as
entries of the hash (`UseStore`).

* `AnswersAreCurrent`: what waits for the guest answers its last accepted call;
  it reads no answer twice or after a later one.
* `EnvelopesTell`: count and capabilities of an envelope are those of the log
  it signs, which ends with its own request; of two envelopes the lesser is the
  beginning of the other; one leaves again only with the redirects of its call.
* `HideIsEffective`: while the identity is hidden, no envelope leaves, in a
  request, a redirect or a page's request, but the one the interceptor held when
  it was hidden: that counts no request made since (`hidden`).
* `PageLoads`: a navigation, which has no timeout, returns, with two exceptions:
  an earlier one failed before any page was active (`misled`), so that the
  interceptor stays with that page and requests of the next wait for a listener
  nobody has; or the release of one of the page's requests failed (`stuck`).

### KvStore

`Runner` are runners of one module in one process; they share the state file and
the names of temporary files. A value is its length. A change is made in memory
first (`Apply`), then the whole state is saved by atomic_write: `OpenTemp`,
`WriteTemp`, `Rename`, `SyncDir`; each may `Fail`, after which `RemoveTemp`
removes whatever bears the temporary name, if it can (the code drops the error;
`litter` counts those left), and the change is taken back (`Restored`). A file
is the write that made it; `file` is the state file as programs see it, `safe`
as a loss of power leaves it. `Crash` is the end of the process or the machine.
The final save of a runner (`Finish`) uses the same steps. That the temporary
file of a failed writer may by then be another's, and that names left behind by
crashes and failed removals use up the 32 attempts, is in the model:
`WritesAreAtomic` excludes only a directory that could not be synced.

* `WithinLimits`: no sequence of calls, failures and restarts brings a store or
  a file over the limits.
* `GuestIsTold`: between calls the store holds what the calls that succeeded
  made of it; a waiting value is still its key's.
* `WritesAreAtomic`: the file was written whole; what was reported a success is
  in it or was replaced by a later write, also after a loss of power; temporary
  files are bounded by writers, crashes and removals that failed.

### Registry

The daemon around its missions. Launches are numbered so that two missions with
one name are told apart, which the daemon cannot: `entry` is the registry,
`cleanup` the channel of names that MissionCleanup sends to, `files` which
missions wrote a name's directory. Of a mission's loop only what others see is
left: it takes commands, changes its published state, writes, and ends on an
abort; MissionLoop has the rest. publish_status_snapshot is three steps per
task (`Collect`, `Read`, `SendReplace`), so that tasks overtake each other.
send_ctrl is `Lookup` and `Deliver`, with a channel that fills. Shutdown is
`Break`, `CollectTargets`, `AbortMission`, `Wait`, `Leave`; connections are
served all the while, and `Leave` is the end of the process.

* `NamesAreOwn`: although everything goes by names, a mission that has not
  ended is the one registered under its name, each removal under way is of the
  ended mission it was meant for, and a directory holds one mission's files.
* `BoardIsCurrent`: once every task has published, the board is what the
  missions are, unless a slower task has overwritten the latest collection
  (which the code admits: `fresh`).
* `ShutdownReachesAll`: a daemon that ends within its patience leaves no mission
  running but those launched after the end had begun.
* `ShutdownEnds`: full channels, launches and removals do not keep it from its
  end.

### Identity and IdentityRegister

A file is the start whose secrets it holds. Processes look which files there
are, read them, repair a wrong public key, or create a directory of their own
and rename it. `CannotTell` is `exists()`, which answers no on an error; `Fail`
any failing file, `Kill` a process, `PowerLoss` the machine. `Found` are the
contents a start may meet. `WrittenOnce` is the refinement: the directory is a
register written once, each start that succeeds gets what is in it, and a start
that began when it was there fails only with the machine. An empty identity
directory is refused for ever (the check before the rename finds it, the rename
would have replaced it): the register simply stays empty.

## 3. The runs

| run | instance | shows | size |
|---|---|---|---|
| `retry_gate` | 2 runners, 2 fingerprints, 1 failing reason, limit 2, counter saturating at 2 | `TypeOK`, `RepeatBound`, `GateEvidence`, `GateHolds` | 2.3 million states |
| `retry_override` | 1 runner, 1 fingerprint, 2 reasons, limit 2, counter to 3 | refutes `OverrideIsOneRetry` | |
| `mission_loop` | capacity 1, outcomes published, retryable and terminal | all properties above, liveness under `FairSpec` | 303 thousand states |
| `attempt_record` | the same, without fairness | refutes `OneAttemptPerRecord` | |
| `retry_recorded` | the same, without fairness | refutes `RetryIsRecorded` | |
| `watch_stream` | 1 watcher, 4 events, history of 2 events and 3 bytes, lines of 1, 2 and 4 bytes, channel of 2 | all its properties, liveness under `FairSpec` | 149 thousand states |
| `host_calls` | 2 pages, 2 host calls, 1 redirect, 3 entries of the behaviour hash | all its properties, liveness under `FairSpec` | 828 thousand states |
| `kv_store` | 2 runners, 2 keys, values of 1 and 2 bytes, total of 4, 2 temporary names, 3 writes, 1 crash | all its properties | 1.5 million states |
| `attempt` | 2 runs, 4 units of time each, budgets, naps and grace of 1, 2 host calls or faults in all, modules with and without a contract, one manifest of another id, budget and rescue | all its properties, liveness under `FairSpec` | 498 thousand states |
| `continuity` | 1 run, 1 host call | refutes `LedgerKeepsOutcomes` | |
| `registry` | 2 names, 2 clients, 2 launches, 1 command or change of state, channels of 1 | all its properties, liveness under `FairSpec` | 395 thousand states |
| `identity` | 3 processes, 4 starts, 2 failures, kills or losses of power | `TypeOK`, `WrittenOnce` | 95 thousand states |

Why the bounds are enough. Two runners give every overlap of a read and a save,
which is all the gate's properties distinguish; a second fingerprint gives
changed inputs; a counter that saturates at the limit reaches the numeric edge.
The channel of capacity 1 is full after one command, so every blocking and every
command left behind occurs, and the model keeps no other trace of the capacity.
The outcomes left out (changed_conditions_required, operator_action_required)
lead to manual waits like terminal_failure; the proofs cover them. A watcher of
`watch_stream` meets four events with a channel of two, so it can lag, be told
and go on; a history of two is evicted by number, by bytes and by a line too
long for it; a second watcher would not see the first, and the proofs cover any
number. In `host_calls` two calls give an answer that was not read when the next
comes, and a failed navigation before another; two pages give an active page,
another open one and one that is gone; three entries give an envelope of either
side with one of the other between; a second redirect would repeat the first. In
`kv_store` three writes of two runners give each order of their steps, a fourth
would repeat it; two temporary names can be used up by a crash. In `attempt` the
second run meets what the first one left, whole or in part; four units of time
are enough for cooldown, budget, grace and watchdog to end in each order, and
two host calls for a report while the module starts and another in its entry, or
for a manifest and a report in either order. In `registry` the second launch
takes the name of the first or another; two clients and the mission's own task
publish at once; the mission limit is not reached, which only refuses a launch.
In `identity` three processes give one that creates, one that races it and one
that comes later. Deadlock is checked only in the retry gate's runs: elsewhere a
mission, a run, a daemon or the bound comes to its end. Symmetry is used only
where every property is safety: runners and fingerprints in `retry_gate`,
runners and keys in `kv_store`, processes in `identity`.

Fairness (`FairSpec`). In `MissionLoop`: weak fairness of the task, which tokio
schedules; nothing of the runner, whose guest may sit in a host import that no
epoch deadline interrupts, and which may report or not. The events of a runner
are few in the model: the recorder is taken to keep pace with them, as
drain_runtime_events has no bound and a stopped guest has no deadline any more
(the epoch timer ends with the stop signal). Strong fairness of serving a
command: `tokio::select!` picks among ready branches at random, so a command
that waits in wait after wait is not passed over for ever. In `WatchStream`: the
step between append and send, the clean-up task and each connection's task are
scheduled, and a client that stays reads what it is sent; recording and the
mission's end are not fair. In `Attempt`: the command's thread is scheduled,
time passes again and again while it sleeps, and the save that holds the runtime
state's lock ends; nothing of the module or the rest of the runner. In
`HostCalls`: the interceptor task is scheduled, a page whose requests are let
through loads if none is stuck, a call on a page that is gone fails; servers
need not answer, and a release need not succeed. In `Registry`: the runtime is
not idle while any task can go on (`Busy`); clients need not send anything. No
fairness for operators, for the write of the result succeeding, or for a runner
that vanishes.

## 4. What is proved

TLAPS checks the following for every value of the constants, from
`LimitAssumption` and `ReasonAssumption` (a positive limit that the counter can
reach; reason codes different from the two the host reserves) and
`CapacityAssumption` and `OutcomeAssumption` (a positive capacity; outcomes
among those the ABI has, with the two the host synthesizes), and from the
assumptions named with the other modules below.

* `RetryGate_proofs`: `TypeCorrect`, `RepeatBounded`, `GateBacked`,
  `GatePersists`. The properties are not inductive alone. The invariant `IInv`
  of that module adds that the ledger and every copy a runner holds obey the
  same law: a gate is backed by evidence, a streak by as many recorded
  failures, and the undisturbed run of failures `tail` never exceeds what the
  streak of the ledger says, so that reaching the limit closes the gate.
* `MissionLoop_proofs`: `TypeCorrect`, `FiledBeforeRest`, `WaitsVisible`,
  `OverridePaid`, `OneStory` and `Refinement`. The invariant says what the loop
  knows where it stands: at the head of the loop the mission is ready
  (`ReadyInv`), about to rest (`RestInv`) or held (`HeldInv`); during an attempt
  nothing of it is on file (`AttemptInv`); in a wait recorder and published
  state agree (`Visible`). The refinement theorem uses it to map each step to
  one step of `MissionLifecycle` or to none.
* `WatchStream_proofs`: `TypeCorrect`, `OrderedOnce`, `NoSilentGap` and
  `Refinement`, from `CapAssumption` (limits are naturals, the channel holds at
  least one event). The invariant `IInv` says that a receiver's unread events
  are always the numbers up to the last one sent, and the rest of a snapshot or
  file the numbers up to its cutoff (`UpTo`); hence what is due to a watcher is
  one interval, or two with a gap only if it lagged, and lies behind all it has
  seen. Each step then delivers the least event due or leaves them alone, which
  is what `MissionFeed` asks.

* `Registry_proofs`: `TypeCorrect`, `NamesStayOwn`, `BoardSettles` and
  `ShutdownLeavesNone`, from `RegistryAssumption` (there are names, the first
  state is a state, channel and registry hold something). Names work although
  the daemon knows nothing else because `RegistryInv` holds: an entry is that of
  a mission which bears the name (`EntryInv`), a launch under way belongs to one
  client and its task is not spawned (`ClientInv`), and no name is twice in the
  clean-up channel (`OnceEnded`). For the board, `BoardInv` says that at most
  one task is the last to have collected (`Latest`), that what it has seen and
  what it has still to read are together the registered missions as they are
  (`Correct`) unless somebody is about to collect, and that none is left once
  its board was sent.
* `Identity_proofs`: `TypeCorrect` and `IdentityWrittenOnce`, from
  `IdentityAssumption` (the bounds are naturals). `TypeOK` is not inductive: that
  a start which is over has no temporary directory needs `GotInv`, which says
  where a start can have one. `GotInv` also says that what a start has read is
  what is there, `DurableLags` that a loss of power can only take away an
  identity that was never confirmed, and `AskInv` that a start which began when
  the identity was there meets it unless the machine deceived it; with them each
  step is one of `IdentityRegister` or none.

* `KvStore_proofs`: `TypeCorrect`, `LimitsKept`, `GuestTold` and `AtomicWrites`,
  from `KvAssumption` (finitely many runners and keys; sizes are naturals). In
  memory (`MemInv`) a store and the one a write would restore are both within
  the limits, and a write that can be taken back would restore what the guest
  was told. On disk (`DiskInv`) the invariant says what makes one writer's
  steps harmless to the others: no two writes under way bear one number and a
  file bears one name (`NumberInv`, `NameInv`), so that a runner renames its own
  file; a file is moved at most once and whole (`MovedInv`, `DataInv`); the
  files reported a success, the safe file and the state file come in this order
  among the files moved (`OrderInv`), which is why a loss of power takes back
  nothing reported; and a name without a writer costs a crash or a removal that
  failed (`OrphanInv`).
* `Attempt_proofs`: `TypeCorrect`, `CompletionOwn`, `RunsRecorded`,
  `RetriesWait` and `RescuesBounded`, from `AttemptAssumption` (modules declare
  contracts of the ABI's shape under their own id, manifests are any such
  contracts, an entry ends in one of four ways, the times are naturals; their
  sizes are free). At the core is `Ours`: in every state the runtime state tells
  one story (`Story`), of this run, with the decision that fits its outcome and
  a rescue exactly if the operator is asked. It holds also for what a start
  takes over from the state file, because that carries no outcome. What the
  command has found is a sealed part of the story (`FoundInv`, `RecordInv`), and
  a run without a record says so by its exit code (`WrittenInv`). The contract
  in force is one of `Declared`, and a rescue keeps to the one it was granted
  under, whichever is registered later. For the cooldown, `RetryInv` adds that a
  runner that waits has read the ledger's time.
* `HostCalls_proofs`: `TypeCorrect`, `AnswersCurrent`, `EnvelopesTellAll` and
  the action property `HidingIsEffective`, from `HostCallAssumption` (no page is
  `None`; the bounds are naturals). `CallInv` says that a call under way is
  later than the last answer and no answer read is later than that. `SignInv`
  says that every envelope, sent or held by the interceptor, is a beginning of
  the mission's log, so that any two of them are beginnings of one another, and
  that what the guest sent for a call only its redirects repeat. `HideInv` keeps
  what the interceptor holds no later than the hide. `BrowserInv` keeps closed
  pages from being worked on, and `RoomInv` shows that every entry still owed to
  the log has its place under the bound.

In `WatchStream_proofs`, `RecentKept` states `HistoryIsRecent` as well. Its sum of
line lengths is a fold over data, which no installed prover can unfold by
induction; the lemmas `SumExists` and `SumUnique` go round that by the least
counterexample of a well-founded order. They identify the sum with the size of
a set that has a column as high as the line is long over each line (`Area`),
and the library's theorems on cardinalities add those up. `KvStore_proofs`
treats its total of keys and values in the same way.

Only model-checked: the liveness properties (`FullChannelDrains`, `AbortEnds`,
`StreamsEnd`, `RunEnds`, `PageLoads`, `ShutdownEnds`), as fairness and ENABLED
are out of the prover's reach. Every safety invariant, action property and
refinement that a passing run checks is a theorem. The refuted properties have a
counterexample each.

## 5. Findings

* `OverrideIsOneRetry`: docs/mission-assurance.md promises that
  `--override-retry-gate` is "for one deliberate manual retry". An attempt the
  gate blocked is saved with the reason changed_conditions_required, so the
  overridden failure that follows finds another previous reason, starts a
  streak of 1 and drops the gate: automatic attempts are admitted again.
* `OneAttemptPerRecord`: a rescue retry during an attempt does not begin a new
  attempt in the recorder, because its scheduler state is Launching already.
  Timeline and challenges of the interrupted attempt are filed as the new one's.
* `RetryIsRecorded`: a rescue retry in a wait is recorded and then erased by
  begin_attempt of the very attempt it launches; the finalized record lists no
  intervention.
* `LedgerKeepsOutcomes`: README and docs/mission-assurance.md promise that prior
  outcomes survive process boundaries. The run command exits as soon as it has
  the module's outcome and only then stops the detached runner, which saves
  state and ledger after the module has returned: a run may end in good order
  and leave no ledger, so that its failure is not counted and its cooldown not
  kept. The repository's own test of the gate relies on the race going well.

Met while reading and not the subject of a run: a mission that awaits its
operator waits for ever, as only `explain` renders the expiry of the rescue
window; an attempt whose runner thread ends before reporting anything keeps the
daemon's loop spinning in that attempt until a command comes, as does, without
the spinning, a guest that never returns from a host import; a stopped guest
that logs faster than the recorder writes keeps the loop in its flush; a command
that was acknowledged is lost if the mission ends before it is received; the
clients of network and AI follow redirects with the headers signed for the first
URL, and no redirect is counted or in the behaviour hash; the error of a release
in the interceptor is dropped, and a navigation may wait for that request for
ever; a module that registers a manifest with another logical id leaves its
ledger where its next start does not look, without gate or cooldown; the comment
at controller/io.rs:310 calls the strategy's backoff a floor "regardless of what
the module requested via `retry_after_ms`", and resolved_retry_after_ms prefers
what the module requested; docs/release-checklist.md:44 speaks of validated
phase transitions, and network failures, sleeps and outcomes set the phase
without a check; write_runtime_error records exit code 70 or 124 where main
exits with the code of the error's category (1, 64, 65, 74 or 124), the first
exception of `EveryRunIsRecorded`; a failing removal of a temporary file is
ignored and costs one of 32 names; an expired rescue is explained as
after_cooldown although no cooldown was set; a failing fsync of the directory
after a rename removes whatever then bears the temporary name; an empty identity
directory can never be initialised; and a daemon that starts while another ends
may fail on a socket that has just gone.

## 6. Not modelled, and the plan

Of the plan nothing is open: each module that models the code has its run, and
each safety property that a run checks its theorem. Liveness stays with TLC.

Left out for good, because they keep no state whose orders matter: terminal UI,
service units and clients of the daemon, configuration discovery and
precedence, inspection and validation (sequential checks of a static
contract), rehearsals, tracing, the text of the user agent, fixtures.
Cryptography, servers and the browser itself are external. prepare_listener
depends on socket semantics nothing later relies on. The params buffer does not
change while a module runs. The verifier's half of `attestation.rs` is a pure
function other programs call. Some files (`browser/action.rs`, `ai/action.rs`,
and the `response.rs` and `state.rs` beside them and in `network/`) are no part
of the build, as no module declares them.
