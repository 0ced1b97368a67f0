---------------------------- MODULE MissionLoop ----------------------------
(***************************************************************************)
(* One mission of the daemon (src/daemon/mod.rs): the task that runs       *)
(* mission_loop, its control channel, the recorder that keeps the status   *)
(* record, and the runner thread of the current attempt as the loop sees   *)
(* it through poll_completion and the runtime event channel.               *)
(*                                                                         *)
(* The task is one thread, so a stretch of it that ends at a wait is one   *)
(* action; operators and the runner act at any time in between.  Attempts  *)
(* are not numbered: what the record, the result file and the channel hold *)
(* is tagged "this" for the latest attempt and "earlier" for older ones.   *)
(***************************************************************************)
EXTENDS Integers, Sequences

CONSTANTS
    Capacity,   \* of the control channel (32 in cmd_launch)
    Outcome     \* how attempts close: statuses of their outcomes

ASSUME CapacityAssumption == Capacity \in Nat \ {0}

None == "none"

VARIABLES
    pc,       \* where the task stands
    mode,     \* MissionLoopMode: what the loop does next
    resume,   \* held_resume_mode
    ctrl,     \* the control channel
    state,    \* MissionState, as published to every client
    rec,      \* MissionRecorder
    result,   \* the .out.json file; "unwritten" when it should be of "this"
    runner,   \* the runner of the current attempt, and why it was stopped
    rx,       \* runtime_rx: events of the runner not yet recorded
    credit    \* history: rescue retries not yet spent on an attempt

vars == <<pc, mode, resume, ctrl, state, rec, result, runner, rx, credit>>

----------------------------------------------------------------------------
Command == {"hold", "resume", "retry", "abort"}

(* Outcome statuses; "changed_conditions_required" stands for the retryable
   failure whose host decision is ManualOnly, which is how the repeat-failure
   gate closes an attempt.  The host itself closes attempts as retryable
   (a timeout) or terminal failures. *)
Status == {"published", "retryable_failure", "changed_conditions_required",
           "operator_action_required", "terminal_failure"}
HostStatus == {"retryable_failure", "terminal_failure"}

ASSUME OutcomeAssumption == HostStatus \subseteq Outcome /\ Outcome \subseteq Status

Manual == {"idle", "awaiting_change", "awaiting_operator", "terminal_failure"}
Terminal(k) == k \in Manual \ {"idle"}
Mode == [kind : {"launching", "scheduled"} \cup Manual, override : BOOLEAN]
Launch(o) == [kind |-> "launching", override |-> o]
Wait(k) == [kind |-> k, override |-> FALSE]

(* next_mode_after_completion.  A published outcome schedules the next run
   when the module declares a poll strategy. *)
NextModes(o) ==
    CASE o = "published" -> {Wait("idle"), Wait("scheduled")}
      [] o = "retryable_failure" -> {Wait("scheduled")}
      [] o = "changed_conditions_required" -> {Wait("awaiting_change")}
      [] o = "operator_action_required" -> {Wait("awaiting_operator")}
      [] o = "terminal_failure" -> {Wait("terminal_failure")}

----------------------------------------------------------------------------
(* set_loop_mode, its part in the published state. *)
Entered(m) == [sched |-> m.kind, held |-> FALSE, terminal |-> Terminal(m.kind),
               error |-> state.error]

(* record_scheduler_state and begin_attempt: entering the state the recorder
   is already in changes nothing. *)
Scheduler(r, s) ==
    CASE r.sched = s -> r
      [] r.sched # s /\ s = "launching" ->
            [sched |-> s, begun |-> "this", outcome |-> None, from |-> {}, retried |-> FALSE]
      [] OTHER -> [r EXCEPT !.sched = s]

(* record of a rescue retry among the interventions; of the interventions
   only this one is kept. *)
Rescued(r) == [r EXCEPT !.retried = TRUE]

(* record of a runtime event: apply_runtime_event and capture_event. *)
StateAfter(s, e) ==
    CASE e = "started" -> [s EXCEPT !.sched = "running", !.error = None]
      [] e = "published" -> [s EXCEPT !.error = None]
      [] OTHER -> [s EXCEPT !.error = "outcome"]

RecAfter(r, e) ==
    IF e = "started" THEN [r EXCEPT !.from = @ \cup {"this"}]
    ELSE [r EXCEPT !.from = @ \cup {"this"}, !.outcome = e]

(* What was of the latest attempt is now of an earlier one. *)
Older(x) == IF x = None THEN None ELSE "earlier"
Aged(r) == [r EXCEPT !.begun = Older(@), !.from = {Older(x) : x \in @}]

NoRunner == [stage |-> None, outcome |-> None, emit |-> None,
             stopped |-> None, taken |-> None]

(* The .out.json record that the recorder's context makes of outcome o. *)
Filed(r, o) == [of |-> "this", outcome |-> o, mixed |-> "earlier" \in r.from,
                retried |-> r.retried, override |-> mode.override]

----------------------------------------------------------------------------
Init ==
    /\ pc = "top"
    /\ mode = Launch(FALSE)
    /\ resume = Wait("idle")
    /\ ctrl = <<>>
    /\ state = [sched |-> "launching", held |-> FALSE, terminal |-> FALSE,
                error |-> None]
    /\ rec = [sched |-> None, begun |-> None, outcome |-> None,
              from |-> {}, retried |-> FALSE]
    /\ result = [of |-> None, outcome |-> None, mixed |-> FALSE, retried |-> FALSE,
                 override |-> FALSE]
    /\ runner = NoRunner
    /\ rx = <<>>
    /\ credit = 0

----------------------------------------------------------------------------
(* Mutant: the channel takes any number of commands. *)
UnboundedSend(c) ==
    /\ pc # "ended"
    /\ ctrl' = Append(ctrl, c)
    /\ UNCHANGED <<pc, mode, resume, state, rec, result, runner, rx, credit>>

(* Clients of the daemon: send_ctrl.  A sender that finds the channel full
   waits; one that finds the mission gone is told so. *)
Send(c) ==
    /\ pc # "ended"
    /\ Len(ctrl) < Capacity
    /\ ctrl' = Append(ctrl, c)
    /\ UNCHANGED <<pc, mode, resume, state, rec, result, runner, rx, credit>>

(* The next command is c; it leaves the channel. *)
Receive(c) ==
    /\ ctrl # <<>>
    /\ Head(ctrl) = c
    /\ ctrl' = Tail(ctrl)

----------------------------------------------------------------------------
(* The head of the loop in mission_loop. *)
EnterHeld ==
    /\ pc = "top"
    /\ state.held
    /\ pc' = "held"
    /\ UNCHANGED <<mode, resume, ctrl, state, rec, result, runner, rx, credit>>

EnterSchedule ==
    /\ pc = "top"
    /\ ~state.held
    /\ mode.kind = "scheduled"
    /\ pc' = "scheduled"
    /\ state' = Entered(mode)
    /\ rec' = Scheduler(rec, mode.kind)
    /\ UNCHANGED <<mode, resume, ctrl, result, runner, rx, credit>>

EnterManual ==
    /\ pc = "top"
    /\ ~state.held
    /\ mode.kind \in Manual
    /\ pc' = "manual"
    /\ state' = Entered(mode)
    /\ rec' = Scheduler(rec, mode.kind)
    /\ UNCHANGED <<mode, resume, ctrl, result, runner, rx, credit>>

(* set_loop_mode and the beginning of run_mission_attempt, with a controller
   that starts ... *)
Begin ==
    /\ pc = "top"
    /\ ~state.held
    /\ mode.kind = "launching"
    /\ rec' = Scheduler(Aged(rec), "launching")
    /\ rx' = <<>>
    /\ credit' = credit - (IF mode.override THEN 1 ELSE 0)

StartAttempt ==
    /\ Begin
    /\ pc' = "attempt"
    /\ state' = Entered(mode)
    /\ runner' = [NoRunner EXCEPT !.stage = "booting"]
    /\ result' = [result EXCEPT !.of = Older(@)]
    /\ UNCHANGED <<mode, resume, ctrl>>

(* ... or one that fails to (module unreadable, state undecodable, ...): the
   host files a runtime error, if the file can be written. *)
FailToStart(written) ==
    /\ Begin
    /\ pc' = "top"
    /\ state' = [Entered(mode) EXCEPT !.error = "loop"]
    /\ runner' = NoRunner
    /\ result' = IF written THEN Filed(rec', "terminal_failure")
                           ELSE [result EXCEPT !.of = "unwritten"]
    /\ mode' = Wait("terminal_failure")
    /\ UNCHANGED <<resume, ctrl>>

----------------------------------------------------------------------------
(* run_mission_attempt: record the next runtime event, in its loop or while
   it flushes what a stopped runner still sends. *)
Record ==
    /\ pc \in {"attempt", "flush"}
    /\ rx # <<>>
    /\ state' = StateAfter(state, Head(rx))
    /\ rec' = RecAfter(rec, Head(rx))
    /\ rx' = Tail(rx)
    /\ UNCHANGED <<pc, mode, resume, ctrl, result, runner, credit>>

(* poll_completion sees the outcome in the runtime state: the controller is
   stopped, the outcome seen is the completion whatever follows. *)
Poll ==
    /\ pc = "attempt"
    /\ runner.outcome # None
    /\ pc' = "flush"
    /\ runner' = [runner EXCEPT !.stopped = "complete", !.taken = runner.outcome]
    /\ UNCHANGED <<mode, resume, ctrl, state, rec, result, rx, credit>>

(* A command that ends the attempt stops the controller first. *)
Interrupt(c) ==
    /\ pc = "attempt"
    /\ c \in {"hold", "retry", "abort"}
    /\ Receive(c)
    /\ pc' = "flush"
    /\ runner' = [runner EXCEPT !.stopped = c]
    /\ UNCHANGED <<mode, resume, state, rec, result, rx, credit>>

(* The flush window is over and the channel is drained. *)
Flushed(why) ==
    /\ pc = "flush"
    /\ rx = <<>>
    /\ runner.stopped = why
    /\ runner' = NoRunner

(* Mutant: the live status keeps the outcome of the last event. *)
CompleteFileOnly ==
    /\ Flushed("complete")
    /\ \E next \in NextModes(runner.taken) :
          /\ mode' = next
          /\ state' = Entered(next)
          /\ result' = Filed(rec, runner.taken)
          /\ rec' = Scheduler(rec, next.kind)
    /\ pc' = "top"
    /\ UNCHANGED <<resume, ctrl, rx, credit>>

Complete ==
    /\ Flushed("complete")
    /\ \E next \in NextModes(runner.taken) :
          /\ mode' = next
          /\ state' = Entered(next)
          /\ LET r == [rec EXCEPT !.outcome = runner.taken]
             IN  /\ result' = Filed(r, runner.taken)
                 /\ rec' = Scheduler(r, next.kind)
    /\ pc' = "top"
    /\ UNCHANGED <<resume, ctrl, rx, credit>>

(* The result file cannot be written. *)
CompleteUnwritten ==
    /\ Flushed("complete")
    /\ mode' = Wait("terminal_failure")
    /\ state' = [state EXCEPT !.error = "loop"]
    /\ rec' = [rec EXCEPT !.outcome = runner.taken]
    /\ result' = [result EXCEPT !.of = "unwritten"]
    /\ pc' = "top"
    /\ UNCHANGED <<resume, ctrl, rx, credit>>

(* Mutant: a hold leaves the terminal mark of a closed mission. *)
HeldInPlace(r) ==
    /\ state' = [state EXCEPT !.sched = "held", !.held = TRUE]
    /\ rec' = Scheduler(r, "held")

(* set_held_state *)
Held(r) ==
    /\ state' = [state EXCEPT !.sched = "held", !.held = TRUE, !.terminal = FALSE]
    /\ rec' = Scheduler(r, "held")

(* Mutant: a held attempt is not made again. *)
HoldForgetsAttempt ==
    /\ Flushed("hold")
    /\ Held(rec)
    /\ pc' = "top"
    /\ UNCHANGED <<mode, resume, ctrl, result, rx, credit>>

HoldAttempt ==
    /\ Flushed("hold")
    /\ Held(rec)
    /\ resume' = Launch(FALSE)
    /\ pc' = "top"
    /\ UNCHANGED <<mode, ctrl, result, rx, credit>>

(* Mutant: a retry during an attempt does not override the gate. *)
RetryUnderGate ==
    /\ Flushed("retry")
    /\ rec' = Rescued(rec)
    /\ mode' = Launch(FALSE)
    /\ credit' = credit + 1
    /\ pc' = "top"
    /\ UNCHANGED <<resume, ctrl, state, result, rx>>

RetryAttempt ==
    /\ Flushed("retry")
    /\ rec' = Rescued(rec)
    /\ mode' = Launch(TRUE)
    /\ credit' = credit + 1
    /\ pc' = "top"
    /\ UNCHANGED <<resume, ctrl, state, result, rx>>

(* Mutant: an aborted attempt goes back to the loop. *)
AbortGoesOn ==
    /\ Flushed("abort")
    /\ pc' = "top"
    /\ UNCHANGED <<mode, resume, ctrl, state, rec, result, rx, credit>>

AbortAttempt ==
    /\ Flushed("abort")
    /\ pc' = "ended"
    /\ UNCHANGED <<mode, resume, ctrl, state, rec, result, rx, credit>>

----------------------------------------------------------------------------
(* wait_for_schedule: the wake-up time has come, found before the next
   command is looked at. *)
Wake ==
    /\ pc = "scheduled"
    /\ mode' = Launch(mode.override)
    /\ pc' = "top"
    /\ UNCHANGED <<resume, ctrl, state, rec, result, runner, rx, credit>>

(* What a hold in a wait resumes to: an attempt at once for a schedule, the
   same wait for a manual one. *)
AfterHold == IF pc = "scheduled" THEN Launch(mode.override) ELSE mode

HoldWait ==
    /\ pc \in {"scheduled", "manual"}
    /\ Receive("hold")
    /\ Held(rec)
    /\ resume' = AfterHold
    /\ pc' = "top"
    /\ UNCHANGED <<mode, result, runner, rx, credit>>

(* Mutant: a rescue retry does not end the hold. *)
RetryStaysHeld ==
    /\ pc \in {"scheduled", "manual", "held"}
    /\ Receive("retry")
    /\ rec' = Rescued(rec)
    /\ mode' = Launch(TRUE)
    /\ resume' = IF pc = "held" THEN Wait("idle") ELSE resume
    /\ credit' = credit + 1
    /\ pc' = "top"
    /\ UNCHANGED <<state, result, runner, rx>>

(* A rescue retry, in any wait; in wait_while_held it also ends the hold. *)
RetryWait ==
    /\ pc \in {"scheduled", "manual", "held"}
    /\ Receive("retry")
    /\ state' = IF pc = "held" THEN [state EXCEPT !.held = FALSE] ELSE state
    /\ rec' = Rescued(rec)
    /\ mode' = Launch(TRUE)
    /\ resume' = IF pc = "held" THEN Wait("idle") ELSE resume
    /\ credit' = credit + 1
    /\ pc' = "top"
    /\ UNCHANGED <<result, runner, rx>>

AbortWait ==
    /\ pc \in {"scheduled", "manual", "held"}
    /\ Receive("abort")
    /\ pc' = "ended"
    /\ UNCHANGED <<mode, resume, state, rec, result, runner, rx, credit>>

(* wait_while_held *)
Resume ==
    /\ pc = "held"
    /\ Receive("resume")
    /\ state' = [state EXCEPT !.held = FALSE]
    /\ mode' = resume
    /\ resume' = Wait("idle")
    /\ pc' = "top"
    /\ UNCHANGED <<rec, result, runner, rx, credit>>

(* Mutant: a second hold stays in the channel. *)
IgnoreResume ==
    /\ pc \in {"attempt", "scheduled", "manual"} /\ Receive("resume")
    /\ UNCHANGED <<pc, mode, resume, state, rec, result, runner, rx, credit>>

(* A resume where nothing is held and a hold where it is already are dropped
   without a trace. *)
Ignore ==
    /\ \/ pc \in {"attempt", "scheduled", "manual"} /\ Receive("resume")
       \/ pc = "held" /\ Receive("hold")
    /\ UNCHANGED <<pc, mode, resume, state, rec, result, runner, rx, credit>>

----------------------------------------------------------------------------
(* The runner of the current attempt.  Its outcome is in the shared runtime
   state before the event about it is in the channel, and a stopped runner is
   only detached: while the loop flushes, it goes on. *)
RunnerLives == pc \in {"attempt", "flush"}

RunnerStarts ==
    /\ RunnerLives
    /\ runner.stage = "booting"
    /\ runner' = [runner EXCEPT !.stage = "started"]
    /\ rx' = Append(rx, "started")
    /\ UNCHANGED <<pc, mode, resume, ctrl, state, rec, result, credit>>

(* The outcome of the module, of the repeat-failure gate or of the host.  A
   module may report a second one. *)
RunnerReports(o) ==
    /\ RunnerLives
    /\ runner.emit = None
    /\ \/ /\ runner.stage = "booting"
          /\ o \in HostStatus
          /\ runner' = [runner EXCEPT !.stage = "reported twice", !.outcome = o, !.emit = o]
       \/ /\ runner.stage = "started"
          /\ runner' = [runner EXCEPT !.stage = "reported", !.outcome = o, !.emit = o]
       \/ /\ runner.stage = "reported"
          /\ runner' = [runner EXCEPT !.stage = "reported twice", !.outcome = o, !.emit = o]
    /\ UNCHANGED <<pc, mode, resume, ctrl, state, rec, result, rx, credit>>

RunnerEmits ==
    /\ RunnerLives
    /\ runner.emit # None
    /\ runner' = [runner EXCEPT !.emit = None]
    /\ rx' = Append(rx, runner.emit)
    /\ UNCHANGED <<pc, mode, resume, ctrl, state, rec, result, credit>>

(* The runner thread ends before it can report anything: no tokio runtime, or
   no linker (run() returns before the first fail_run). *)
RunnerVanishes ==
    /\ RunnerLives
    /\ runner.stage = "booting"
    /\ runner' = [runner EXCEPT !.stage = "vanished"]
    /\ UNCHANGED <<pc, mode, resume, ctrl, state, rec, result, rx, credit>>

----------------------------------------------------------------------------
Attempt ==
    \/ StartAttempt \/ \E written \in BOOLEAN : FailToStart(written)
    \/ Record \/ Poll \/ \E c \in Command : Interrupt(c)
    \/ Complete \/ CompleteUnwritten
    \/ HoldAttempt \/ RetryAttempt \/ AbortAttempt

Waiting ==
    \/ EnterHeld \/ EnterSchedule \/ EnterManual
    \/ Wake \/ HoldWait \/ RetryWait \/ AbortWait \/ Resume \/ Ignore

Runner == RunnerStarts \/ (\E o \in Outcome : RunnerReports(o)) \/ RunnerEmits

Next ==
    \/ \E c \in Command : Send(c)
    \/ Attempt \/ Waiting
    \/ Runner \/ RunnerVanishes

Spec == Init /\ [][Next]_vars

Serve == (\E c \in Command : Interrupt(c)) \/ HoldWait \/ RetryWait
            \/ AbortWait \/ Resume \/ Ignore

(* The task is scheduled; and tokio's select!, which picks among its ready
   branches at random, does not pass over a waiting command in every wait for
   ever.  Nothing is assumed of the runner: its guest may stay in a host call
   for good.  But its events are few here: the loop is taken to record them
   faster than they come.  drain_runtime_events has no bound of its own, and a
   guest that has been stopped has no deadline any more. *)
Fairness ==
    /\ WF_vars(Attempt \/ Waiting)
    /\ SF_vars(Serve)

FairSpec == Spec /\ Fairness

----------------------------------------------------------------------------
StateType ==
    [sched : {"launching", "running", "scheduled", "held"} \cup Manual,
     held : BOOLEAN, terminal : BOOLEAN, error : {None, "outcome", "loop"}]
RecType ==
    [sched : {None, "launching", "scheduled", "held"} \cup Manual,
     begun : {None, "this", "earlier"}, outcome : Outcome \cup {None},
     from : SUBSET {"this", "earlier"}, retried : BOOLEAN]
ResultType ==
    [of : {None, "this", "earlier", "unwritten"}, outcome : Outcome \cup {None},
     mixed : BOOLEAN, retried : BOOLEAN, override : BOOLEAN]
RunnerType ==
    [stage : {None, "booting", "started", "reported", "reported twice", "vanished"},
     outcome : Outcome \cup {None}, emit : Outcome \cup {None},
     stopped : {None, "complete", "hold", "retry", "abort"},
     taken : Outcome \cup {None}]

(* Every variable stays in its type and the channel in its capacity. *)
TypeOK ==
    /\ pc \in {"top", "attempt", "flush", "scheduled", "manual", "held", "ended"}
    /\ mode \in Mode
    /\ resume \in Mode
    /\ ctrl \in Seq(Command) /\ Len(ctrl) <= Capacity
    /\ state \in StateType
    /\ rec \in RecType
    /\ result \in ResultType
    /\ runner \in RunnerType
    /\ rx \in Seq(Outcome \cup {"started"})
    /\ credit \in Int

(* docs/frontend-protocol.md: the .out.json is written "before the latest
   attempt is considered complete".  Whenever the mission rests, or is held
   and would go back to rest, its latest attempt is on file or last_error
   says that it could not be written. *)
AtRest == \/ pc \in {"scheduled", "manual"}
          \/ pc = "held" /\ resume.kind # "launching"
OnFile == result.of \in {"this", "unwritten"}
ResultBeforeRest ==
    AtRest => OnFile /\ (result.of = "unwritten" => state.error = "loop")

(* What every client sees is what the task waits for: late events of a
   stopped runner, a dropped command or a failed write never leave a held
   mission looking alive or a resting one looking busy, and the recorder's
   own idea of the state does not drift from the published one at rest. *)
WaitsAreVisible ==
    /\ pc = "held" => state.sched = "held" /\ state.held /\ ~state.terminal
    /\ pc \in {"scheduled", "manual"} =>
          /\ state.sched = mode.kind /\ rec.sched = mode.kind
          /\ ~state.held
          /\ state.terminal = Terminal(mode.kind)
    /\ pc = "attempt" => state.sched \in {"launching", "running"} /\ ~state.held

(* One rescue retry, one attempt that overrides the repeat-failure gate: none
   is overridden without a retry, and no wait is entered with a retry still
   to be honoured or an old one left to be used again. *)
OverrideIsPaid ==
    /\ credit \in {0, 1}
    /\ pc \in {"attempt", "flush", "scheduled", "manual", "held"} => credit = 0

(* The status file and the result file tell one story: the module may report
   again while the loop flushes, but at rest the live status shows the outcome
   that was filed.  The one exception is an attempt that failed to start, whose
   runtime error is on file only: the status has no outcome then, or -- if a
   rescue retry had cut the previous attempt short, so that begin_attempt was
   skipped -- still the one the module had reported in that attempt. *)
FailedToStart == result.outcome = "terminal_failure" /\ state.error = "loop"
StatusAgreesWithResult ==
    pc \in {"scheduled", "manual"} /\ result.of = "this" =>
        \/ rec.outcome = result.outcome
        \/ FailedToStart /\ (rec.begun = "this" => rec.outcome = None)

(* A client blocked in send_ctrl on a full channel gets through, unless the
   mission ends. *)
FullChannelDrains ==
    Len(ctrl) = Capacity ~> Len(ctrl) < Capacity \/ pc = "ended"

(* An abort that was accepted ends the mission, wherever it finds the task: in
   any wait, while held, and in an attempt whose runner reports at that moment,
   never returns, or has ended without a word, as long as the loop can keep pace
   with the runner's events. *)
AbortEnds == (\E i \in 1..Len(ctrl) : ctrl[i] = "abort") ~> pc = "ended"

(* The loop keeps the promises of MissionLifecycle. *)
Phase ==
    CASE pc = "top" ->
            IF state.held THEN "held"
            ELSE IF mode.kind = "launching" THEN "ready" ELSE "resting"
      [] pc \in {"attempt", "flush"} -> "running"
      [] pc \in {"scheduled", "manual"} -> "resting"
      [] pc = "held" -> "held"
      [] pc = "ended" -> "ended"

Grant == mode.override /\ Phase \in {"ready", "running"}

Lifecycle == INSTANCE MissionLifecycle WITH
    phase <- Phase, grant <- Grant, filed <- OnFile

ImplementsLifecycle == Lifecycle!Spec

(* README.md: "challenges: normalized obstacles observed during the latest
   attempt".  A finalized record holds nothing of an earlier attempt. *)
OneAttemptPerRecord == ~result.mixed

(* README.md: each finalized record includes the "operator or daemon control
   actions such as hold, abort, or rescue retry".  The record of an attempt
   that a rescue retry launched names the retry. *)
RetryIsRecorded ==
    result.of = "this" /\ result.override => result.retried
============================================================================
