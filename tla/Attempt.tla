------------------------------ MODULE Attempt ------------------------------
(***************************************************************************)
(* Runs of one mission module with the run command, one process after the  *)
(* other: the command's thread, which polls for a completion and gives up  *)
(* on its watchdog, the runner thread, which starts the module, waits for  *)
(* its cooldown, calls its entry and saves, and the module itself, which   *)
(* calls the host as it likes.  What a run leaves behind is the ledger, the*)
(* state file, the record file and the exit code.                          *)
(*                                                                         *)
(* Time is what has passed since the process began; a start moves the times*)
(* of the files back by the last process's age and the gap between them.   *)
(***************************************************************************)
EXTENDS OutcomeState

CONSTANTS
    Module,        \* contracts a module may declare, NoContract if none
    Manifests,     \* contracts it may register in place of that
    Reports,       \* outcomes it may report; NoOutcome cannot be decoded
    Naps,          \* durations it may sleep
    Endings,       \* how it may end: "ok", "timeout", "error" or "panic"
    RunnerDefault, \* default_acquisition_timeout_secs
    CommandDefault,\* the 30 s of the command
    Grace,         \* WATCHDOG_GRACE_MS
    Override,      \* may runs override the repeat-failure gate?
    MaxTime,       \* bound: age of a process
    MaxRuns,       \* bound: runs
    MaxEvents      \* bound: host calls of the module and faults, in all runs

ASSUME AttemptAssumption ==
    /\ Module \subseteq {c \in Contracts : c.id = "own"} \cup {NoContract}
    /\ Manifests \subseteq Contracts
    /\ Endings \subseteq {"ok", "timeout", "error", "panic"}
    /\ Naps \subseteq Nat
    /\ {RunnerDefault, CommandDefault, Grace, MaxTime, MaxRuns, MaxEvents} \subseteq Nat

NoLedger == [gate |-> FALSE]
NoState == [phase |-> "none"]
NoRecord == [run |-> 0]
NoCompletion == [run |-> 0]

VARIABLES
    module,    \* what the module declares
    now,       \* age of the process
    runs,      \* processes so far
    faults,    \* faults so far
    cli,       \* where the command is
    budget,    \* its timeout
    found,     \* the completion it has, but for its artifacts
    err,       \* category of the error it gives up with
    unwritten, \* history: could the last record of the run not be written?
    exit,      \* exit code of the last process that ended
    stage,     \* where the runner is
    wake,      \* when the runner's sleep ends
    deadline,  \* when the entry is interrupted
    calls,     \* host calls of the module
    rt,        \* the runtime state both threads share
    output,    \* is there a published output in the artifact store?
    ledger,    \* the mission ledger ...
    saved,     \* ... the state file ...
    record     \* ... and the record file, of which each run has its own

cliVars == <<cli, budget, found, err, unwritten, exit>>
runnerVars == <<stage, wake, deadline>>
sharedVars == <<rt, output>>
diskVars == <<ledger, saved, record>>
worldVars == <<module, now, runs, faults, calls>>
vars == <<cliVars, runnerVars, sharedVars, diskVars, worldVars>>

Init ==
    /\ module \in Module
    /\ now = 0 /\ runs = 0 /\ faults = 0
    /\ cli = "off" /\ budget = CommandDefault
    /\ found = NoCompletion /\ err = "none" /\ unwritten = FALSE /\ exit = 0
    /\ stage = "off" /\ wake = NoTime /\ deadline = NoTime
    /\ calls = 0
    /\ rt = Fresh /\ output = FALSE
    /\ ledger = NoLedger /\ saved = NoState /\ record = NoRecord

(* A file that fails or a process that is killed. *)
Fault == faults + calls < MaxEvents /\ faults' = faults + 1
NoFault == UNCHANGED faults
World == UNCHANGED <<module, now, runs, calls>>

(* The contract in force: the module's, or what it registered since. *)
Described == rt.contract # NoContract
Declared == {module, NoContract} \cup Manifests

(* The runner holds the runtime state while it saves. *)
Free == stage # "save_ledger"

----------------------------------------------------------------------------
(* The process begins. *)
Earlier(t, d) == IF t = NoTime THEN NoTime ELSE Max({t - d, 0})
EarlierLedger(d) ==
    IF ledger = NoLedger THEN NoLedger
    ELSE [ledger EXCEPT !.cooldown = Earlier(@, d)]
EarlierState(d) ==
    IF saved = NoState THEN NoState
    ELSE [saved EXCEPT !.cooldown = Earlier(@, d)]

(* Mutant: the outcome of the state file stays. *)
ResetButOutcome(s) == [s EXCEPT !.phase = "idle"]

(* load_runtime_state *)
StateForStart(s) == Reset(s)
Loaded(s) == IF s = NoState THEN Fresh ELSE StateForStart(s)

(* resolve_run_inner, MissionController::new and the run command up to its loop,
   if it gets there: the params, the files of the identity and of the state may
   be refused.  spawn_mission_thread and build_runtime_environment, where the
   thread may end with nothing to show for it. *)
Start(gap) ==
    /\ cli = "off" /\ runs < MaxRuns
    /\ runs' = runs + 1
    /\ now' = 0
    /\ ledger' = EarlierLedger(now + gap)
    /\ saved' = EarlierState(now + gap)
    /\ rt' = Loaded(saved')
    /\ output' = FALSE
    /\ budget' = CommandDefault
    /\ found' = NoCompletion
    /\ \/ cli' = "poll" /\ err' = "none" /\ stage' \in {"dead", "init"}
       \/ /\ cli' = "fail" /\ stage' = "off"
          /\ err' \in ErrorCategory \ {"timeout"}
          /\ err' = "state_corruption" => saved # NoState
    /\ wake' = NoTime /\ deadline' = NoTime
    /\ unwritten' = FALSE /\ exit' = 0 /\ record' = NoRecord
    /\ UNCHANGED <<module, faults, calls>>

----------------------------------------------------------------------------
(* The runner.  finish_failed_run: what fails before the gate is not saved. *)
Fails(how) ==
    /\ stage' = "ended"
    /\ output' = (output /\ how # "panic")
    /\ rt' = Ensured(rt, how, output', now, runs)
    /\ UNCHANGED <<wake, deadline>>

(* validate_params_contract, instantiate_module or call_describe fails. *)
InitFails(how) ==
    /\ stage = "init" /\ wake = NoTime
    /\ Fails(how)
    /\ UNCHANGED <<cliVars, diskVars, worldVars>>

(* Mutant: apply_to_runtime_state leaves the cooldown out. *)
StatsApplied(s, l) == [s EXCEPT !.failures = l.failures]

(* apply_to_runtime_state *)
Applied(s, l) == [s EXCEPT !.failures = l.failures, !.cooldown = l.cooldown]

(* describe_run_context: the runtime state once the ledger l is loaded. *)
Known(l) ==
    IF module = NoContract THEN rt
    ELSE LET s == [rt EXCEPT !.contract = module]
         IN  IF l = NoLedger THEN s ELSE Applied(s, l)

(* apply_repeat_failure_gate_if_needed; RetryGate says which failures close the
   gate and that it holds. *)
GateCloses(l) ==
    /\ l.gate
    /\ rt' = Update(Known(l), ChangedConditions, "host", now, runs)
    /\ stage' = "save_state"
    /\ UNCHANGED wake

GateOpens(l) ==
    /\ l.gate => Override
    /\ rt' = Known(l)
    /\ stage' = "cooldown"
    /\ wake' = rt'.cooldown

(* A ledger that cannot be read is none. *)
Describe ==
    /\ stage = "init" /\ wake = NoTime
    /\ \E l \in {ledger, NoLedger} :
           /\ IF l = ledger THEN NoFault ELSE Fault
           /\ GateCloses(l) \/ GateOpens(l)
    /\ UNCHANGED <<deadline, output, cliVars, diskVars>> /\ World

(* wait_for_preflight_cooldown is over; reset_runtime_outcome_state, and the
   budget of the entry begins, which is that of the static describe. *)
EntryBudget ==
    IF module # NoContract /\ module.budget > 0 THEN module.budget ELSE RunnerDefault
EntryBegins ==
    /\ stage = "cooldown"
    /\ wake <= now
    /\ stage' = "entry" /\ wake' = NoTime
    /\ deadline' = now + EntryBudget
    /\ rt' = WithoutOutcome(rt)
    /\ UNCHANGED <<output, cliVars, diskVars, worldVars>>

(* execute_entrypoint returns, interrupted by the epoch only after its deadline,
   and finalize_run. *)
EntryEnds(how) ==
    /\ stage = "entry" /\ wake = NoTime
    /\ how = "timeout" => now >= deadline
    /\ rt' = Ensured(rt, how, output, now, runs)
    /\ stage' = IF how = "panic" THEN "corrupt" ELSE "save_state"
    /\ deadline' = NoTime
    /\ UNCHANGED <<wake, output, cliVars, diskVars, worldVars>>

(* mark_runtime_corrupted; nothing is saved after a panic. *)
Corrupt ==
    /\ stage = "corrupt"
    /\ output' = FALSE
    /\ stage' = "ended"
    /\ UNCHANGED <<wake, deadline, rt, cliVars, diskVars, worldVars>>

(* persist_runtime_and_ledger: the state file ... *)
SaveState ==
    /\ stage = "save_state"
    /\ stage' = "save_ledger"
    /\ IF Described /\ rt.contract.persisted
       THEN \/ saved' = rt /\ NoFault
            \/ Fault /\ UNCHANGED saved
       ELSE NoFault /\ UNCHANGED saved
    /\ UNCHANGED <<wake, deadline, sharedVars, cliVars, ledger, record>>
    /\ World

(* ... and the ledger, whose gate may close after any failure.  It is the one a
   run loads only if the logical id is still that of the static describe;
   otherwise it goes where no run looks for it. *)
Gated ==
    CASE rt.outcome.status = "published" -> {FALSE}
      [] rt.outcome = ChangedConditions -> {TRUE}
      [] rt.outcome.status # "published" /\ rt.outcome # ChangedConditions -> BOOLEAN

Ledgered == module # NoContract /\ Described /\ rt.contract.id = "own"
SaveLedger ==
    /\ stage = "save_ledger"
    /\ stage' = "ended"
    /\ IF Ledgered
       THEN \/ /\ \E g \in Gated :
                     ledger' = [gate |-> g, failures |-> rt.failures,
                                cooldown |-> rt.cooldown, run |-> rt.run]
               /\ NoFault
            \/ Fault /\ UNCHANGED ledger
       ELSE NoFault /\ UNCHANGED ledger
    /\ UNCHANGED <<wake, deadline, sharedVars, cliVars, saved, record>>
    /\ World

----------------------------------------------------------------------------
(* The module's calls, in its entry and already as it starts. *)
MayCall ==
    /\ wake = NoTime /\ faults + calls < MaxEvents
    /\ stage = "init" \/ (stage = "entry" /\ now < deadline)
    /\ calls' = calls + 1
    /\ UNCHANGED <<stage, deadline, cliVars, ledger, record, module, now, runs, faults>>

ReportOutcome(o) ==
    /\ MayCall
    /\ rt' = Report(rt, o, now, runs)
    /\ UNCHANGED <<wake, output, saved>>

PublishArtifact ==
    /\ MayCall
    /\ output' = TRUE
    /\ rt' = Published(rt)
    /\ UNCHANGED <<wake, saved>>

RequestFails ==
    /\ MayCall
    /\ rt' = NetworkFailed(rt)
    /\ UNCHANGED <<wake, output, saved>>

(* register_manifest takes the place of what describe said; what cannot be
   decoded changes nothing. *)
RegisterManifest(c) ==
    /\ MayCall
    /\ rt' = [rt EXCEPT !.contract = c]
    /\ UNCHANGED <<wake, output, saved>>

(* kv_set saves all of the runtime state. *)
SaveEntries ==
    /\ MayCall
    /\ Described /\ rt.contract.persisted
    /\ saved' = rt
    /\ UNCHANGED <<wake, sharedVars>>

(* announce_sleep *)
Announce(d) ==
    /\ MayCall
    /\ rt' = Slept(rt, now + d)
    /\ UNCHANGED <<wake, output, saved>>

(* sleep_ms *)
Sleep(d) ==
    /\ MayCall
    /\ wake' = now + d
    /\ rt' = Slept(rt, now + d)
    /\ UNCHANGED <<output, saved>>

(* ... ends after its time, or when the command has stopped the controller. *)
Stopped == cli \in {"exit", "fail"}
Awake ==
    /\ stage \in {"init", "entry"}
    /\ wake # NoTime
    /\ now >= wake \/ Stopped
    /\ wake' = NoTime
    /\ UNCHANGED <<stage, deadline, sharedVars, cliVars, diskVars, worldVars>>

----------------------------------------------------------------------------
(* The command's loop in run_once: its timeout is the module's as soon as that
   is known.  poll_completion: an outcome is a completion, whoever reported it, and
   takes the published output with it. *)
CommandBudget ==
    IF Described /\ rt.contract.budget > 0 THEN rt.contract.budget ELSE budget
Poll ==
    /\ cli = "poll" /\ Free
    /\ budget' = CommandBudget
    /\ IF rt.outcome = NoOutcome
       THEN cli' = "watch" /\ UNCHANGED <<found, output>>
       ELSE /\ cli' = "record"
            /\ output' = FALSE
            /\ found' = [outcome |-> rt.outcome, decision |-> rt.decision,
                         action |-> rt.action, described |-> Ledgered, run |-> rt.run]
    /\ UNCHANGED <<err, unwritten, exit, runnerVars, rt, diskVars, worldVars>>

(* Mutant: no run is given up before a cooldown that is set has passed. *)
OverdueAfterCooldown == rt.cooldown < now /\ now > budget + Grace

Remaining == IF rt.cooldown = NoTime THEN 0 ELSE Max({rt.cooldown - now, 0})
Overdue == now > budget + Remaining + Grace

(* The watchdog. *)
Watch ==
    /\ cli = "watch" /\ Free
    /\ IF Overdue THEN cli' = "fail" /\ err' = "timeout"
                  ELSE cli' = "poll" /\ UNCHANGED err
    /\ UNCHANGED <<budget, found, unwritten, exit, runnerVars, sharedVars, diskVars, worldVars>>

(* atomic_write of record r: one that fails may have done so after the rename. *)
Written(r) == record' = r /\ NoFault
NotWritten(r) == record' \in {record, r} /\ Fault

(* write_completion *)
Result == Record(found.outcome, found.decision, found.action, runs)
WriteRecord ==
    /\ cli = "record"
    /\ \/ Written(Result) /\ cli' = "exit" /\ UNCHANGED err
       \/ NotWritten(Result) /\ cli' = "fail" /\ err' = "persistence_failure"
    /\ UNCHANGED <<budget, found, unwritten, exit, runnerVars, sharedVars, ledger, saved>>
    /\ World

(* What is lost with the process: both threads and what they share. *)
Gone ==
    /\ cli' = "off"
    /\ stage' = "off" /\ wake' = NoTime /\ deadline' = NoTime
    /\ rt' = Fresh /\ output' = FALSE
    /\ err' = "none" /\ budget' = CommandDefault

(* Mutant: a timeout the module reported of itself is any other failure. *)
ExitByStatus(o) == ExitOf(o.status)

(* The status run_once returns and main's exit code for it. *)
ExitFor(o) ==
    IF o.status = "retryable" /\ o.reason = "acquisition_timeout" THEN 124
    ELSE ExitOf(o.status)

Exit ==
    /\ cli = "exit"
    /\ exit' = ExitFor(found.outcome)
    /\ Gone
    /\ UNCHANGED <<found, unwritten, diskVars, worldVars>>

(* record_failure, and main's exit code for the error; if the record of the error
   cannot be written, that is the error. *)
RecordFailure ==
    /\ cli = "fail"
    /\ \/ /\ Written(ErrorRecord(err, runs))
          /\ exit' = CategoryExit(err) /\ UNCHANGED unwritten
       \/ /\ NotWritten(ErrorRecord(err, runs))
          /\ exit' = CategoryExit("persistence_failure") /\ unwritten' = TRUE
    /\ Gone
    /\ found' = NoCompletion
    /\ UNCHANGED <<ledger, saved>> /\ World

(* The process is killed. *)
Kill ==
    /\ cli # "off"
    /\ Fault
    /\ Gone
    /\ exit' = 137 /\ found' = NoCompletion
    /\ UNCHANGED <<unwritten, diskVars>> /\ World

(* Time passes while the command sleeps between two polls; its own steps take
   none. *)
Tick ==
    /\ cli = "poll"
    /\ now < MaxTime
    /\ now' = now + 1
    /\ UNCHANGED <<cliVars, runnerVars, sharedVars, diskVars, module, runs, faults, calls>>

----------------------------------------------------------------------------
Runner ==
    \/ \E how \in Endings \ {"ok"} : InitFails(how)
    \/ Describe
    \/ EntryBegins
    \/ \E how \in Endings : EntryEnds(how)
    \/ Corrupt
    \/ SaveState
    \/ SaveLedger

Guest ==
    \/ \E o \in Reports : ReportOutcome(o)
    \/ PublishArtifact
    \/ RequestFails
    \/ \E c \in Manifests : RegisterManifest(c)
    \/ SaveEntries
    \/ \E d \in Naps : Sleep(d) \/ Announce(d)
    \/ Awake

Command == Poll \/ Watch \/ WriteRecord \/ Exit \/ RecordFailure

Next == (\E gap \in Naps \cup {0} : Start(gap)) \/ Runner \/ Guest \/ Command \/ Tick \/ Kill

(* The command's thread runs, time passes whenever it may again and again (the
   command sleeps between two polls) and a save ends; nothing is assumed of the
   module or of the rest of the runner. *)
Fairness == WF_vars(Command) /\ SF_vars(Tick) /\ WF_vars(SaveLedger)
Spec == Init /\ [][Next]_vars
FairSpec == Spec /\ Fairness

----------------------------------------------------------------------------
(* Every variable stays in its type; the two threads only run in a process, and
   the state they share tells one story: an outcome comes with its decision, a
   rescue with its deadline. *)
TypeOK ==
    /\ module \in Module
    /\ now \in 0..MaxTime /\ runs \in 0..MaxRuns /\ faults \in 0..MaxEvents
    /\ cli \in {"off", "poll", "watch", "record", "exit", "fail"}
    /\ stage \in {"off", "dead", "init", "cooldown", "entry", "corrupt", "save_state",
                  "save_ledger", "ended"}
    /\ err \in ErrorCategory \cup {"none"}
    /\ wake \in Times /\ deadline \in Times /\ budget \in Nat /\ exit \in Nat
    /\ calls \in 0..MaxEvents
    /\ output \in BOOLEAN /\ unwritten \in BOOLEAN
    /\ cli = "off" => stage = "off" /\ rt = Fresh
    /\ rt.phase \in Phase /\ rt.failures \in 0..MaxFailures
    /\ rt.contract \in Declared
    /\ IF rt.outcome = NoOutcome
       THEN rt.by = "none" /\ rt.decision = NoDecision /\ rt.action = NoAction
       ELSE /\ rt.outcome \in Outcomes
            /\ rt.decision = Decision(rt.outcome, rt.by)
            /\ (rt.outcome.status = "operator") = (rt.action # NoAction)

(* poll_completion, load_runtime_state, reset_runtime_outcome_state: a completion
   is one of this run, never what an earlier run left in the state file, the
   ledger or the shared state. *)
CompletionIsOwn == cli \in {"record", "exit"} => found.run = runs

(* run_once, write_completion, record_failure: a run that ends by itself has left
   its own record, or exits with the code of a persistence failure because that
   could not be written.  The exit code the record names is the one of the
   process, except where the record tells of an error of the command, which it
   gives the code of a failed mission (70) while the process exits with the code
   of the error's category, and where the module gave another outcome the reason
   code of the host's timeout. *)
Borrowed(o) == o.reason = "acquisition_timeout" /\ o.status # "retryable"
EveryRunIsRecorded ==
    cli = "off" /\ runs > 0 /\ exit # 137 =>
        IF unwritten THEN exit = 74
        ELSE /\ record.run = runs
             /\ \/ record.exit = exit
                \/ Borrowed(record.outcome)
                \/ \E c \in ErrorCategory :
                      record.outcome = ErrorOutcome(c) /\ exit = CategoryExit(c)

(* resolve_operator_escalation, explain_analysis: a rescue that was asked for ends
   its window after a moment of the run, and whoever explains the record later is
   told that the attempt closed safely, as the outcome or else the contract in
   force says: one and the same contract, which allows the rescue, whatever the
   module registers before, between and after. *)
RescueIsBounded ==
    record # NoRecord /\ record.outcome.status = "operator" =>
        \E c \in Declared :
            /\ Rescuable(record.outcome, c)
            /\ record.action.deadline - Window(record.outcome, c) \in 0..MaxTime
            /\ \A t \in 0..(3 * MaxTime) :
                  t > record.action.deadline =>
                    /\ Explained(record, t).status =
                          IF record.outcome.expiry # "none" THEN record.outcome.expiry
                                                           ELSE c.expiry
                    /\ Explained(record, t).decision.risk = "closed_safe"

(* apply_to_runtime_state, wait_for_preflight_cooldown: an entry does not begin
   before the cooldown of the ledger a run loads is over, whatever the module does
   while it starts and however many processes come and go, if no file fails. *)
RetryWaits ==
    stage = "entry" /\ faults = 0 /\ ledger # NoLedger =>
        ledger.cooldown <= now

(* run_once: whatever the module and the runner thread do, and do not do, the
   command comes to an end. *)
RunEnds == cli # "off" ~> cli = "off"

(* README.md: continuity persists so that prior outcomes survive process
   boundaries.  If the module reported its outcome itself and nothing fails, the
   ledger is of this run once the process has ended. *)
LedgerKeepsOutcomes ==
    cli = "off" /\ found # NoCompletion /\ found.described
       /\ ~found.decision.synthesized /\ faults = 0
    => ledger # NoLedger /\ ledger.run = runs
=============================================================================
