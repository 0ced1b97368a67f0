------------------------- MODULE MissionLoop_proofs -------------------------
(***************************************************************************)
(* Proofs about MissionLoop for every channel capacity and every set of    *)
(* outcomes: the safety properties of its run, and that the loop           *)
(* implements MissionLifecycle.                                            *)
(***************************************************************************)
EXTENDS MissionLoop, TLAPS

(* The mission is at rest, or about to be: the loop will wait for something
   other than an attempt of its own. *)
RestInv ==
    /\ mode.kind # "launching"
    /\ ~mode.override
    /\ OnFile
    /\ result.of = "unwritten" => state.error = "loop"
    /\ ~state.held
    /\ credit = 0

(* The mission is held: what it resumes to has no override, and if that is a
   wait then the latest attempt is on file. *)
HeldInv ==
    /\ state.held /\ state.sched = "held" /\ ~state.terminal
    /\ resume.kind # "launching" =>
          OnFile /\ (result.of = "unwritten" => state.error = "loop")
    /\ credit = 0

(* An attempt is under way: nothing of it is on file yet. *)
AttemptInv ==
    /\ mode.kind = "launching"
    /\ ~state.held
    /\ state.sched \in {"launching", "running"}
    /\ result.of \in {None, "earlier"}
    /\ credit = 0

(* The recorder and the published state agree on what is waited for. *)
Visible ==
    /\ state.sched = mode.kind /\ rec.sched = mode.kind
    /\ state.terminal = Terminal(mode.kind)

(* The loop is about to make an attempt, with or without a retry to spend. *)
ReadyInv ==
    /\ mode.kind = "launching"
    /\ ~state.held
    /\ credit = IF mode.override THEN 1 ELSE 0

ControlInv ==
    /\ pc = "top" => ReadyInv \/ RestInv \/ HeldInv
    /\ pc \in {"attempt", "flush"} => AttemptInv
    /\ pc = "scheduled" => RestInv /\ Visible /\ mode.kind = "scheduled"
    /\ pc = "manual" => RestInv /\ Visible /\ mode.kind \in Manual
    /\ pc = "held" => HeldInv
    /\ pc = "ended" => credit = 0
    /\ ~resume.override
    /\ pc = "attempt" => runner.stopped = None
    /\ runner.stopped = "complete" => runner.taken \in Outcome

StoryInv ==
    result.of = "this" =>
        \/ rec.outcome = result.outcome
        \/ FailedToStart /\ (rec.begun = "this" => rec.outcome = None)

IInv == TypeOK /\ ControlInv /\ StoryInv

USE DEF None

-----------------------------------------------------------------------------
(* The next mode after a completion is a wait. *)
LEMMA NextModesType ==
    ASSUME NEW o \in Outcome, NEW m \in NextModes(o)
    PROVE  m \in Mode /\ m.kind # "launching" /\ m.override = FALSE
<1>1. o \in Status
  BY OutcomeAssumption
<1>2. m \in {Wait(k) : k \in {"scheduled"} \cup Manual}
  BY <1>1 DEF NextModes, Status, Manual
<1>3. PICK k \in {"scheduled"} \cup Manual : m = Wait(k)
  BY <1>2
<1>4. QED
  BY <1>3 DEF Wait, Mode, Manual

(* Entering a mode publishes it and ends a hold. *)
LEMMA EnteredType ==
    ASSUME state \in StateType, NEW m \in Mode
    PROVE  /\ Entered(m) \in StateType
           /\ Entered(m).sched = m.kind
           /\ Entered(m).held = FALSE
           /\ Entered(m).error = state.error
           /\ Entered(m).terminal = Terminal(m.kind)
<1>1. m.kind \in {"launching", "scheduled"} \cup Manual
  BY DEF Mode
<1>2. Terminal(m.kind) \in BOOLEAN
  BY DEF Terminal
<1>3. state.error \in {None, "outcome", "loop"}
  BY DEF StateType
<1>4. Entered(m) \in StateType
  BY <1>1, <1>2, <1>3 DEF StateType, Entered
<1>5. QED
  BY <1>4 DEF Entered

LEMMA SchedulerType ==
    ASSUME NEW r \in RecType,
           NEW s \in {"launching", "scheduled", "held"} \cup Manual
    PROVE  /\ Scheduler(r, s) \in RecType
           /\ Scheduler(r, s).sched = s
           /\ s # "launching" => /\ Scheduler(r, s).outcome = r.outcome
                                 /\ Scheduler(r, s).begun = r.begun
           /\ s = "launching" => \/ Scheduler(r, s) = r
                                 \/ Scheduler(r, s).outcome = None
  BY DEF Scheduler, RecType

LEMMA AgedType ==
    ASSUME NEW r \in RecType
    PROVE  Aged(r) \in RecType /\ Aged(r).begun # "this"
  BY DEF Aged, RecType, Older
-----------------------------------------------------------------------------
LEMMA InitIInv == Init => IInv
<1> SUFFICES ASSUME Init PROVE IInv
  OBVIOUS
<1>1. /\ pc = "top" /\ mode \in Mode /\ resume \in Mode /\ credit = 0
  BY DEF Init, Launch, Wait, Mode, Manual
<1>2. /\ ctrl \in Seq(Command) /\ Len(ctrl) <= Capacity
      /\ rx \in Seq(Outcome \cup {"started"})
  BY CapacityAssumption DEF Init
<1>3. /\ state \in StateType /\ rec \in RecType /\ result \in ResultType
      /\ runner \in RunnerType
  BY DEF Init, StateType, RecType, ResultType, RunnerType, NoRunner
<1>4. TypeOK
  BY <1>1, <1>2, <1>3 DEF TypeOK
<1>5. ControlInv
  BY OutcomeAssumption
  DEF Init, ControlInv, ReadyInv, Launch, Wait, NoRunner
<1>6. StoryInv
  BY DEF Init, StoryInv
<1>7. QED
  BY <1>4, <1>5, <1>6 DEF IInv
-----------------------------------------------------------------------------
(* Taking a command out of the channel keeps its type. *)
LEMMA ReceiveType ==
    ASSUME TypeOK, NEW c \in Command, Receive(c)
    PROVE  ctrl' \in Seq(Command) /\ Len(ctrl') <= Capacity
  BY CapacityAssumption DEF TypeOK, Receive

(* Steps that only fill or empty the channel. *)
LEMMA ChannelStep ==
    ASSUME IInv, (\E c \in Command : Send(c)) \/ Ignore
    PROVE  IInv'
<1>1. ctrl' \in Seq(Command) /\ Len(ctrl') <= Capacity
  <2>1. ASSUME NEW c \in Command, Send(c)
        PROVE  ctrl' \in Seq(Command) /\ Len(ctrl') <= Capacity
    BY <2>1, CapacityAssumption DEF Send, IInv, TypeOK
  <2>2. CASE Ignore
    BY <2>2, ReceiveType DEF Ignore, IInv, Command
  <2>3. QED
    BY <2>1, <2>2
<1>2. UNCHANGED <<pc, mode, resume, state, rec, result, runner, rx, credit>>
  BY DEF Send, Ignore
<1>3. TypeOK'
  BY <1>1, <1>2 DEF IInv, TypeOK
<1>4. ControlInv' /\ StoryInv'
  BY <1>2 DEF IInv, ControlInv, StoryInv, ReadyInv, RestInv, HeldInv,
              AttemptInv, Visible, OnFile, FailedToStart
<1>5. QED
  BY <1>3, <1>4 DEF IInv

(* The runner and its events touch neither the mode nor the files. *)
LEMMA RunnerTypeStep ==
    ASSUME TypeOK, Runner \/ RunnerVanishes
    PROVE  /\ runner' \in RunnerType
           /\ runner'.stopped = runner.stopped /\ runner'.taken = runner.taken
<1>1. /\ runner \in RunnerType
      /\ HostStatus \subseteq Outcome
  BY OutcomeAssumption DEF TypeOK
<1>2. CASE RunnerStarts
  BY <1>1, <1>2 DEF RunnerStarts, RunnerType
<1>3. ASSUME NEW o \in Outcome, RunnerReports(o)
      PROVE  /\ runner' \in RunnerType
             /\ runner'.stopped = runner.stopped /\ runner'.taken = runner.taken
  BY <1>1, <1>3 DEF RunnerReports, RunnerType
<1>4. CASE RunnerEmits
  BY <1>1, <1>4 DEF RunnerEmits, RunnerType
<1>5. CASE RunnerVanishes
  BY <1>1, <1>5 DEF RunnerVanishes, RunnerType
<1>6. QED
  BY <1>2, <1>3, <1>4, <1>5 DEF Runner

LEMMA EventTypeStep ==
    ASSUME TypeOK, Runner \/ RunnerVanishes
    PROVE  rx' \in Seq(Outcome \cup {"started"})
<1>1. rx \in Seq(Outcome \cup {"started"})
  BY DEF TypeOK
<1>2. CASE RunnerStarts
  <2>1. rx' = Append(rx, "started")
    BY <1>2 DEF RunnerStarts
  <2>2. QED
    BY <1>1, <2>1
<1>3. CASE RunnerEmits
  <2>1. rx' = Append(rx, runner.emit)
    BY <1>3 DEF RunnerEmits
  <2>2. runner.emit \in Outcome
    BY <1>3 DEF RunnerEmits, TypeOK, RunnerType
  <2>3. QED
    BY <1>1, <2>1, <2>2
<1>4. CASE rx' = rx
  BY <1>1, <1>4
<1>5. QED
  BY <1>2, <1>3, <1>4 DEF Runner, RunnerReports, RunnerVanishes

LEMMA RunnerStep ==
    ASSUME IInv, Runner \/ RunnerVanishes
    PROVE  IInv'
<1>1. UNCHANGED <<pc, mode, resume, ctrl, state, rec, result, credit>>
  BY DEF Runner, RunnerStarts, RunnerReports, RunnerEmits, RunnerVanishes
<1>2. /\ runner' \in RunnerType
      /\ runner'.stopped = runner.stopped /\ runner'.taken = runner.taken
      /\ rx' \in Seq(Outcome \cup {"started"})
  BY RunnerTypeStep, EventTypeStep DEF IInv
<1>3. TypeOK'
  BY <1>1, <1>2 DEF IInv, TypeOK
<1>4. ControlInv' /\ StoryInv'
  BY <1>1, <1>2 DEF IInv, ControlInv, StoryInv, ReadyInv, RestInv, HeldInv,
                    AttemptInv, Visible, OnFile, FailedToStart
<1>5. QED
  BY <1>3, <1>4 DEF IInv

(* Entering a wait. *)
LEMMA EnterStep ==
    ASSUME IInv, EnterHeld \/ EnterSchedule \/ EnterManual
    PROVE  IInv'
<1>1. CASE EnterHeld
  <2>1. TypeOK' /\ StoryInv'
    BY <1>1 DEF IInv, TypeOK, StoryInv, FailedToStart, EnterHeld
  <2>2. HeldInv'
    BY <1>1 DEF IInv, ControlInv, EnterHeld, HeldInv, ReadyInv, RestInv, OnFile
  <2>3. QED
    BY <1>1, <2>1, <2>2 DEF IInv, ControlInv, EnterHeld
<1>2. CASE EnterSchedule \/ EnterManual
  <2>1. /\ pc = "top" /\ ~state.held /\ mode.kind \in {"scheduled"} \cup Manual
        /\ pc' = IF mode.kind = "scheduled" THEN "scheduled" ELSE "manual"
        /\ state' = Entered(mode) /\ rec' = Scheduler(rec, mode.kind)
        /\ UNCHANGED <<mode, resume, ctrl, result, runner, rx, credit>>
    BY <1>2 DEF EnterSchedule, EnterManual, Manual
  <2>2. /\ state' \in StateType /\ state'.sched = mode.kind
        /\ state'.held = FALSE /\ state'.error = state.error
        /\ state'.terminal = Terminal(mode.kind)
    BY <2>1, EnteredType DEF IInv, TypeOK
  <2>3. /\ rec' \in RecType /\ rec'.sched = mode.kind
        /\ rec'.outcome = rec.outcome /\ rec'.begun = rec.begun
    BY <2>1, SchedulerType DEF IInv, TypeOK, Manual
  <2>4. TypeOK'
    BY <2>1, <2>2, <2>3 DEF IInv, TypeOK
  <2>5. StoryInv'
    BY <2>1, <2>2, <2>3 DEF IInv, StoryInv, FailedToStart
  <2>6. RestInv
    BY <2>1 DEF IInv, ControlInv, ReadyInv, HeldInv, Manual
  <2>7. RestInv' /\ Visible'
    BY <2>1, <2>2, <2>3, <2>6 DEF RestInv, Visible, OnFile
  <2>8. ControlInv'
    BY <2>1, <2>7 DEF IInv, ControlInv
  <2>9. QED
    BY <2>4, <2>5, <2>8 DEF IInv
<1>3. QED
  BY <1>1, <1>2

(* An attempt begins, or fails to. *)
LEMMA BeginStep ==
    ASSUME IInv, StartAttempt \/ \E w \in BOOLEAN : FailToStart(w)
    PROVE  IInv'
<1>1. /\ pc = "top" /\ mode.kind = "launching" /\ ~state.held /\ ReadyInv
      /\ rec' = Scheduler(Aged(rec), "launching") /\ rx' = <<>>
      /\ credit' = credit - (IF mode.override THEN 1 ELSE 0)
  BY DEF StartAttempt, FailToStart, Begin, IInv, ControlInv, RestInv, HeldInv
<1>2. credit' = 0
  BY <1>1 DEF ReadyInv
<1>3. Entered(mode) \in StateType /\ Entered(mode).sched = "launching"
      /\ ~Entered(mode).held
  BY <1>1, EnteredType DEF IInv, TypeOK
<1>4. rec' \in RecType /\ (rec'.begun = "this" => rec'.outcome = None)
  <2>1. Aged(rec) \in RecType /\ Aged(rec).begun # "this"
    BY AgedType DEF IInv, TypeOK
  <2>2. QED
    BY <1>1, <2>1, SchedulerType
<1>5. rx' \in Seq(Outcome \cup {"started"})
  BY <1>1
<1>6. CASE StartAttempt
  <2>1. /\ runner' \in RunnerType /\ runner'.stopped = None
    BY <1>6 DEF StartAttempt, RunnerType, NoRunner
  <2>2. result' \in ResultType /\ result'.of \in {None, "earlier"}
    BY <1>6 DEF StartAttempt, IInv, TypeOK, ResultType, Older
  <2>3. TypeOK'
    BY <1>2, <1>3, <1>4, <1>5, <1>6, <2>1, <2>2 DEF StartAttempt, IInv, TypeOK
  <2>4. AttemptInv'
    BY <1>1, <1>2, <1>3, <1>6, <2>2 DEF StartAttempt, AttemptInv
  <2>5. ControlInv'
    BY <1>6, <2>1, <2>4 DEF StartAttempt, IInv, ControlInv
  <2>6. StoryInv'
    BY <2>2 DEF StoryInv
  <2>7. QED
    BY <2>3, <2>5, <2>6 DEF IInv
<1>7. ASSUME NEW w \in BOOLEAN, FailToStart(w) PROVE IInv'
  <2>1. state' \in StateType /\ ~state'.held /\ state'.error = "loop"
    BY <1>3, <1>7 DEF FailToStart, StateType
  <2>2. runner' \in RunnerType /\ runner'.stopped = None
    BY <1>7 DEF FailToStart, RunnerType, NoRunner
  <2>3. /\ result' \in ResultType /\ result'.of \in {"this", "unwritten"}
    <3>1. ("earlier" \in rec'.from) \in BOOLEAN /\ rec'.retried \in BOOLEAN
      BY <1>4 DEF RecType
    <3>2. mode.override \in BOOLEAN /\ "terminal_failure" \in Outcome
      BY OutcomeAssumption DEF IInv, TypeOK, Mode, HostStatus
    <3>3. CASE w
      BY <1>7, <3>1, <3>2, <3>3 DEF FailToStart, Filed, ResultType
    <3>4. CASE ~w
      BY <1>7, <3>4 DEF FailToStart, IInv, TypeOK, ResultType
    <3>5. QED
      BY <3>3, <3>4
  <2>4. mode' \in Mode /\ mode'.kind = "terminal_failure" /\ mode'.override = FALSE
    BY <1>7 DEF FailToStart, Wait, Mode, Manual
  <2>5. TypeOK'
    BY <1>2, <1>4, <1>5, <1>7, <2>1, <2>2, <2>3, <2>4
    DEF FailToStart, IInv, TypeOK
  <2>6. RestInv'
    BY <1>2, <2>1, <2>3, <2>4 DEF RestInv, OnFile
  <2>7. ControlInv'
    BY <1>7, <2>2, <2>6 DEF FailToStart, IInv, ControlInv
  <2>8. StoryInv'
    <3>1. result'.of = "this" => result'.outcome = "terminal_failure"
      BY <1>7, <2>3 DEF FailToStart, Filed, IInv, TypeOK, ResultType
    <3>2. QED
      BY <1>4, <2>1, <3>1 DEF StoryInv, FailedToStart
  <2>9. QED
    BY <2>5, <2>7, <2>8 DEF IInv
<1>8. QED
  BY <1>6, <1>7
-----------------------------------------------------------------------------
(* The body of an attempt: events are recorded, then the attempt is stopped,
   because it is complete or because a command says so. *)
LEMMA RecordStep ==
    ASSUME IInv, Record
    PROVE  IInv'
<1> DEFINE e == Head(rx)
<1>1. /\ e \in Outcome \cup {"started"} /\ rx' \in Seq(Outcome \cup {"started"})
      /\ state' = StateAfter(state, e) /\ rec' = RecAfter(rec, e)
      /\ UNCHANGED <<pc, mode, resume, ctrl, result, runner, credit>>
  BY DEF Record, IInv, TypeOK
<1>2. AttemptInv /\ pc \in {"attempt", "flush"}
  BY DEF Record, IInv, ControlInv
<1>3. /\ state' \in StateType /\ state'.held = state.held
      /\ state'.sched \in {state.sched, "running"}
  <2>1. state \in StateType
    BY DEF IInv, TypeOK
  <2>2. CASE e = "started"
    BY <1>1, <2>1, <2>2 DEF StateAfter, StateType
  <2>3. CASE e # "started" /\ e = "published"
    BY <1>1, <2>1, <2>3 DEF StateAfter, StateType
  <2>4. CASE e # "started" /\ e # "published"
    BY <1>1, <2>1, <2>4 DEF StateAfter, StateType
  <2>5. QED
    BY <2>2, <2>3, <2>4
<1>4. rec' \in RecType
  <2>1. rec \in RecType
    BY DEF IInv, TypeOK
  <2>2. CASE e = "started"
    BY <1>1, <2>1, <2>2 DEF RecAfter, RecType
  <2>3. CASE e \in Outcome /\ e # "started"
    BY <1>1, <2>1, <2>3 DEF RecAfter, RecType
  <2>4. QED
    BY <1>1, <2>2, <2>3
<1>5. TypeOK'
  BY <1>1, <1>3, <1>4 DEF IInv, TypeOK
<1>6. AttemptInv'
  BY <1>1, <1>2, <1>3 DEF AttemptInv
<1>7. ControlInv'
  BY <1>1, <1>2, <1>6 DEF IInv, ControlInv
<1>8. StoryInv'
  BY <1>1, <1>2 DEF StoryInv, AttemptInv
<1>9. QED
  BY <1>5, <1>7, <1>8 DEF IInv

LEMMA StopStep ==
    ASSUME IInv, Poll \/ \E c \in Command : Interrupt(c)
    PROVE  IInv'
<1>1. /\ pc = "attempt" /\ pc' = "flush"
      /\ UNCHANGED <<mode, resume, state, rec, result, rx, credit>>
  BY DEF Poll, Interrupt
<1>2. ctrl' \in Seq(Command) /\ Len(ctrl') <= Capacity
  <2>1. CASE Poll
    BY <2>1 DEF Poll, IInv, TypeOK
  <2>2. ASSUME NEW c \in Command, Interrupt(c)
        PROVE  ctrl' \in Seq(Command) /\ Len(ctrl') <= Capacity
    BY <2>2, ReceiveType DEF Interrupt, IInv
  <2>3. QED
    BY <2>1, <2>2
<1>3. /\ runner' \in RunnerType
      /\ runner'.stopped = "complete" => runner'.taken \in Outcome
  <2>1. runner \in RunnerType
    BY DEF IInv, TypeOK
  <2>2. CASE Poll
    <3>1. runner.outcome \in Outcome
      BY <2>1, <2>2 DEF Poll, RunnerType
    <3>2. QED
      BY <2>1, <2>2, <3>1 DEF Poll, RunnerType
  <2>3. ASSUME NEW c \in Command, Interrupt(c)
        PROVE  runner' \in RunnerType /\ runner'.stopped # "complete"
    BY <2>1, <2>3 DEF Interrupt, RunnerType
  <2>4. QED
    BY <2>2, <2>3
<1>4. TypeOK'
  BY <1>1, <1>2, <1>3 DEF IInv, TypeOK
<1>5. AttemptInv'
  BY <1>1 DEF IInv, ControlInv, AttemptInv
<1>6. ControlInv'
  BY <1>1, <1>3, <1>5 DEF IInv, ControlInv
<1>7. StoryInv'
  BY <1>1 DEF IInv, StoryInv, FailedToStart
<1>8. QED
  BY <1>4, <1>6, <1>7 DEF IInv
-----------------------------------------------------------------------------
(* No runner is left when the channel has been flushed. *)
LEMMA NoRunnerType ==
    NoRunner \in RunnerType /\ NoRunner.stopped = None
  BY DEF NoRunner, RunnerType

(* What is filed of an attempt is a record of it. *)
LEMMA FiledType ==
    ASSUME NEW r \in RecType, NEW o \in Outcome, TypeOK
    PROVE  /\ Filed(r, o) \in ResultType
           /\ Filed(r, o).of = "this" /\ Filed(r, o).outcome = o
<1>1. ("earlier" \in r.from) \in BOOLEAN /\ r.retried \in BOOLEAN
      /\ mode.override \in BOOLEAN
  BY DEF RecType, TypeOK, Mode
<1>2. QED
  BY <1>1 DEF Filed, ResultType

LEMMA CompleteStep ==
    ASSUME IInv, Complete
    PROVE  IInv'
<1> DEFINE o == runner.taken
           r == [rec EXCEPT !.outcome = o]
<1>1. /\ pc = "flush" /\ runner' = NoRunner /\ pc' = "top"
      /\ result' = Filed(r, o)
      /\ UNCHANGED <<resume, ctrl, rx, credit>>
      /\ runner.stopped = "complete"
  BY DEF Complete, Flushed
<1>2. o \in Outcome /\ AttemptInv
  BY <1>1 DEF IInv, ControlInv
<1>3. PICK next \in NextModes(o) :
         mode' = next /\ state' = Entered(next) /\ rec' = Scheduler(r, next.kind)
  BY DEF Complete
<1>4. next \in Mode /\ next.kind # "launching" /\ next.override = FALSE
  BY <1>2, NextModesType
<1>5. next.kind \in {"scheduled"} \cup Manual
  BY <1>4 DEF Mode
<1>6. r \in RecType /\ r.outcome = o
  BY <1>2 DEF IInv, TypeOK, RecType
<1>7. /\ state' \in StateType /\ state'.sched = next.kind
      /\ ~state'.held /\ state'.error = state.error
  BY <1>3, <1>4, EnteredType DEF IInv, TypeOK
<1>8. rec' \in RecType /\ rec'.outcome = o
  BY <1>3, <1>4, <1>5, <1>6, SchedulerType
<1>9. result' \in ResultType /\ result'.of = "this" /\ result'.outcome = o
  BY <1>1, <1>2, <1>6, FiledType DEF IInv
<1>10. TypeOK'
  BY <1>1, <1>3, <1>4, <1>7, <1>8, <1>9, NoRunnerType DEF IInv, TypeOK
<1>11. RestInv'
  BY <1>1, <1>2, <1>3, <1>4, <1>7, <1>9 DEF RestInv, OnFile, AttemptInv
<1>12. ControlInv'
  BY <1>1, <1>11, NoRunnerType DEF IInv, ControlInv
<1>13. StoryInv'
  BY <1>8, <1>9 DEF StoryInv
<1>14. QED
  BY <1>10, <1>12, <1>13 DEF IInv

LEMMA CompleteUnwrittenStep ==
    ASSUME IInv, CompleteUnwritten
    PROVE  IInv'
<1>1. /\ pc = "flush" /\ runner' = NoRunner /\ pc' = "top"
      /\ mode' = Wait("terminal_failure")
      /\ state' = [state EXCEPT !.error = "loop"]
      /\ rec' = [rec EXCEPT !.outcome = runner.taken]
      /\ result' = [result EXCEPT !.of = "unwritten"]
      /\ UNCHANGED <<resume, ctrl, rx, credit>>
      /\ runner.stopped = "complete"
  BY DEF CompleteUnwritten, Flushed
<1>2. runner.taken \in Outcome /\ AttemptInv
  BY <1>1 DEF IInv, ControlInv
<1>3. mode' \in Mode /\ mode'.kind = "terminal_failure" /\ mode'.override = FALSE
  BY <1>1 DEF Wait, Mode, Manual
<1>4. state' \in StateType /\ state'.error = "loop" /\ state'.held = state.held
  BY <1>1 DEF IInv, TypeOK, StateType
<1>5. rec' \in RecType
  BY <1>1, <1>2 DEF IInv, TypeOK, RecType
<1>6. result' \in ResultType /\ result'.of = "unwritten"
  BY <1>1 DEF IInv, TypeOK, ResultType
<1>7. TypeOK'
  BY <1>1, <1>3, <1>4, <1>5, <1>6, NoRunnerType DEF IInv, TypeOK
<1>8. RestInv'
  BY <1>1, <1>2, <1>3, <1>4, <1>6 DEF RestInv, OnFile, AttemptInv
<1>9. ControlInv'
  BY <1>1, <1>8, NoRunnerType DEF IInv, ControlInv
<1>10. StoryInv'
  BY <1>6 DEF StoryInv
<1>11. QED
  BY <1>7, <1>9, <1>10 DEF IInv
-----------------------------------------------------------------------------
(* A hold is published and recorded. *)
LEMMA HeldType ==
    ASSUME TypeOK, Held(rec)
    PROVE  /\ state' \in StateType /\ state'.held /\ state'.sched = "held"
           /\ ~state'.terminal /\ state'.error = state.error
           /\ rec' \in RecType /\ rec'.outcome = rec.outcome
           /\ rec'.begun = rec.begun
<1>1. state \in StateType /\ rec \in RecType
  BY DEF TypeOK
<1>2. /\ state' = [state EXCEPT !.sched = "held", !.held = TRUE, !.terminal = FALSE]
      /\ rec' = Scheduler(rec, "held")
  BY DEF Held
<1>3. /\ state' \in StateType /\ state'.held = TRUE /\ state'.sched = "held"
      /\ state'.terminal = FALSE /\ state'.error = state.error
  BY <1>1, <1>2 DEF StateType
<1>4. QED
  BY <1>1, <1>2, <1>3, SchedulerType

LEMMA HoldStep ==
    ASSUME IInv, HoldAttempt \/ HoldWait
    PROVE  IInv'
<1>1. /\ Held(rec) /\ pc' = "top"
      /\ UNCHANGED <<mode, result, rx, credit>>
  BY DEF HoldAttempt, HoldWait
<1>2. /\ state' \in StateType /\ state'.held /\ state'.sched = "held"
      /\ ~state'.terminal /\ state'.error = state.error
      /\ rec' \in RecType /\ rec'.outcome = rec.outcome /\ rec'.begun = rec.begun
  BY <1>1, HeldType DEF IInv
<1>3. StoryInv'
  BY <1>1, <1>2 DEF IInv, StoryInv, FailedToStart
<1>4. CASE HoldAttempt
  <2>1. /\ pc = "flush" /\ runner' = NoRunner /\ resume' = Launch(FALSE)
        /\ ctrl' = ctrl
    BY <1>4 DEF HoldAttempt, Flushed
  <2>2. resume' \in Mode /\ resume'.kind = "launching" /\ resume'.override = FALSE
    BY <2>1 DEF Launch, Mode
  <2>3. TypeOK'
    BY <1>1, <1>2, <2>1, <2>2, NoRunnerType DEF IInv, TypeOK
  <2>4. HeldInv'
    BY <1>1, <1>2, <2>1, <2>2 DEF IInv, ControlInv, AttemptInv, HeldInv
  <2>5. ControlInv'
    BY <1>1, <2>1, <2>2, <2>4, NoRunnerType DEF ControlInv
  <2>6. QED
    BY <1>3, <2>3, <2>5 DEF IInv
<1>5. CASE HoldWait
  <2>1. /\ pc \in {"scheduled", "manual"} /\ runner' = runner
        /\ resume' = IF pc = "scheduled" THEN Launch(mode.override) ELSE mode
        /\ ctrl' \in Seq(Command) /\ Len(ctrl') <= Capacity
    BY <1>5, ReceiveType DEF HoldWait, AfterHold, IInv, Command
  <2>2. RestInv /\ mode \in Mode
    BY <2>1 DEF IInv, ControlInv, TypeOK
  <2>3. resume' \in Mode /\ ~resume'.override
    BY <2>1, <2>2 DEF Launch, Mode, RestInv
  <2>4. TypeOK'
    BY <1>1, <1>2, <2>1, <2>3 DEF IInv, TypeOK
  <2>5. HeldInv'
    BY <1>1, <1>2, <2>2 DEF RestInv, HeldInv, OnFile
  <2>6. ControlInv'
    BY <1>1, <2>1, <2>3, <2>5 DEF IInv, ControlInv
  <2>7. QED
    BY <1>3, <2>4, <2>6 DEF IInv
<1>6. QED
  BY <1>4, <1>5
-----------------------------------------------------------------------------
(* A mission that is retried is not held, or not any more. *)
LEMMA RetryReleases ==
    ASSUME IInv, RetryAttempt \/ RetryWait
    PROVE  /\ state' \in StateType /\ state'.held = FALSE
           /\ state'.error = state.error
<1>1. state \in StateType
  BY DEF IInv, TypeOK
<1>2. CASE state' = [state EXCEPT !.held = FALSE]
  BY <1>1, <1>2 DEF StateType
<1>3. CASE pc \in {"flush", "scheduled", "manual"} /\ state' = state
  BY <1>1, <1>3 DEF IInv, ControlInv, AttemptInv, RestInv, StateType
<1>4. QED
  BY <1>2, <1>3 DEF RetryAttempt, RetryWait, Flushed

(* A rescue retry: the next attempt is worth one override. *)
LEMMA RetryStep ==
    ASSUME IInv, RetryAttempt \/ RetryWait
    PROVE  IInv'
<1>1. /\ rec' = Rescued(rec) /\ mode' = Launch(TRUE) /\ credit' = credit + 1
      /\ pc' = "top" /\ UNCHANGED <<result, rx>>
  BY DEF RetryAttempt, RetryWait
<1>2. mode' \in Mode /\ mode'.kind = "launching" /\ mode'.override = TRUE
  BY <1>1 DEF Launch, Mode
<1>3. rec' \in RecType /\ rec'.outcome = rec.outcome /\ rec'.begun = rec.begun
  BY <1>1 DEF Rescued, RecType, IInv, TypeOK
<1>4. StoryInv'
  BY <1>1, <1>3, RetryReleases DEF IInv, StoryInv, FailedToStart
<1>5. credit' = 1
  <2>1. credit = 0
    BY DEF RetryAttempt, RetryWait, Flushed, IInv, ControlInv, AttemptInv, RestInv,
           HeldInv
  <2>2. QED
    BY <1>1, <2>1
<1>6. /\ ctrl' \in Seq(Command) /\ Len(ctrl') <= Capacity
  <2>1. CASE RetryAttempt
    BY <2>1 DEF RetryAttempt, IInv, TypeOK
  <2>2. CASE RetryWait
    BY <2>2, ReceiveType DEF RetryWait, IInv, Command
  <2>3. QED
    BY <2>1, <2>2
<1>7. /\ resume' \in Mode /\ ~resume'.override
  <2>1. resume' \in {resume, Wait("idle")}
    BY DEF RetryAttempt, RetryWait
  <2>2. Wait("idle") \in Mode /\ ~Wait("idle").override
    BY DEF Wait, Mode, Manual
  <2>3. QED
    BY <2>1, <2>2 DEF IInv, TypeOK, ControlInv
<1>8. state' \in StateType /\ state'.held = FALSE
  BY RetryReleases
<1>9. /\ runner' \in RunnerType
      /\ runner'.stopped = "complete" => runner'.taken \in Outcome
  BY NoRunnerType
  DEF RetryAttempt, RetryWait, Flushed, IInv, TypeOK, ControlInv
<1>10. TypeOK'
  <2>1. /\ result' \in ResultType /\ rx' \in Seq(Outcome \cup {"started"})
        /\ pc' = "top" /\ credit' \in Int
    BY <1>1, <1>5 DEF IInv, TypeOK
  <2>2. /\ mode' \in Mode /\ resume' \in Mode /\ state' \in StateType
        /\ rec' \in RecType /\ runner' \in RunnerType
    BY <1>2, <1>3, <1>7, <1>8, <1>9
  <2>3. QED
    BY <1>6, <2>1, <2>2 DEF TypeOK
<1>11. ReadyInv'
  BY <1>2, <1>5, <1>8 DEF ReadyInv
<1>12. ControlInv'
  BY <1>1, <1>7, <1>9, <1>11 DEF ControlInv
<1>13. QED
  BY <1>4, <1>10, <1>12 DEF IInv

(* A schedule that is due, and a hold that ends. *)
LEMMA WakeStep ==
    ASSUME IInv, Wake
    PROVE  IInv'
<1>1. /\ pc = "scheduled" /\ pc' = "top" /\ mode' = Launch(mode.override)
      /\ UNCHANGED <<resume, ctrl, state, rec, result, runner, rx, credit>>
  BY DEF Wake
<1>2. RestInv
  BY <1>1 DEF IInv, ControlInv
<1>3. mode' \in Mode /\ mode'.kind = "launching" /\ mode'.override = FALSE
  BY <1>1, <1>2 DEF Launch, Mode, RestInv, IInv, TypeOK
<1>4. TypeOK' /\ StoryInv'
  BY <1>1, <1>3 DEF IInv, TypeOK, StoryInv, FailedToStart
<1>5. ReadyInv'
  BY <1>1, <1>2, <1>3 DEF ReadyInv, RestInv
<1>6. ControlInv'
  BY <1>1, <1>5 DEF IInv, ControlInv
<1>7. QED
  BY <1>4, <1>6 DEF IInv

LEMMA ResumeStep ==
    ASSUME IInv, Resume
    PROVE  IInv'
<1>1. /\ pc = "held" /\ pc' = "top" /\ mode' = resume /\ resume' = Wait("idle")
      /\ state' = [state EXCEPT !.held = FALSE]
      /\ UNCHANGED <<rec, result, runner, rx, credit>>
      /\ ctrl' \in Seq(Command) /\ Len(ctrl') <= Capacity
  BY ReceiveType DEF Resume, IInv, Command
<1>2. HeldInv /\ resume \in Mode /\ ~resume.override
  BY <1>1 DEF IInv, ControlInv, TypeOK
<1>3. resume' \in Mode /\ ~resume'.override
  BY <1>1 DEF Wait, Mode, Manual
<1>4. state' \in StateType /\ state'.held = FALSE /\ state'.error = state.error
  BY <1>1 DEF IInv, TypeOK, StateType
<1>5. TypeOK' /\ StoryInv'
  BY <1>1, <1>2, <1>3, <1>4 DEF IInv, TypeOK, StoryInv, FailedToStart
<1>6. ReadyInv' \/ RestInv'
  BY <1>1, <1>2, <1>4 DEF ReadyInv, RestInv, HeldInv, OnFile
<1>7. ControlInv'
  BY <1>1, <1>3, <1>6 DEF IInv, ControlInv
<1>8. QED
  BY <1>5, <1>7 DEF IInv

LEMMA AbortStep ==
    ASSUME IInv, AbortAttempt \/ AbortWait
    PROVE  IInv'
<1>1. pc' = "ended" /\ UNCHANGED <<mode, resume, state, rec, result, rx, credit>>
  BY DEF AbortAttempt, AbortWait
<1>2. /\ ctrl' \in Seq(Command) /\ Len(ctrl') <= Capacity
  <2>1. CASE AbortAttempt
    BY <2>1 DEF AbortAttempt, IInv, TypeOK
  <2>2. CASE AbortWait
    BY <2>2, ReceiveType DEF AbortWait, IInv, Command
  <2>3. QED
    BY <2>1, <2>2
<1>3. /\ runner' \in RunnerType
      /\ runner'.stopped = "complete" => runner'.taken \in Outcome
  BY NoRunnerType
  DEF AbortAttempt, AbortWait, Flushed, IInv, TypeOK, ControlInv
<1>4. TypeOK' /\ StoryInv'
  BY <1>1, <1>2, <1>3 DEF IInv, TypeOK, StoryInv, FailedToStart
<1>5. credit = 0
  BY DEF AbortAttempt, AbortWait, Flushed, IInv, ControlInv, AttemptInv, RestInv,
         HeldInv
<1>6. ControlInv'
  BY <1>1, <1>3, <1>5 DEF IInv, ControlInv
<1>7. QED
  BY <1>4, <1>6 DEF IInv
-----------------------------------------------------------------------------
LEMMA StepIInv == IInv /\ [Next]_vars => IInv'
<1> SUFFICES ASSUME IInv, [Next]_vars PROVE IInv'
  OBVIOUS
<1>1. CASE (\E c \in Command : Send(c)) \/ Runner \/ RunnerVanishes
  BY <1>1, ChannelStep, RunnerStep
<1>2. CASE Attempt
  BY <1>2, BeginStep, RecordStep, StopStep, CompleteStep, CompleteUnwrittenStep,
     HoldStep, RetryStep, AbortStep DEF Attempt
<1>3. CASE Waiting
  BY <1>3, EnterStep, WakeStep, HoldStep, RetryStep, AbortStep, ResumeStep,
     ChannelStep DEF Waiting
<1>4. CASE UNCHANGED vars
  BY <1>4 DEF vars, IInv, TypeOK, ControlInv, StoryInv, FailedToStart, ReadyInv,
              RestInv, HeldInv, AttemptInv, Visible, OnFile
<1>5. QED
  BY <1>1, <1>2, <1>3, <1>4 DEF Next

(* The inductive invariant holds in every state of the mission. *)
THEOREM Inductive == Spec => []IInv
<1>1. IInv /\ [Next]_vars => IInv'
  BY StepIInv
<1>2. QED
  BY InitIInv, <1>1, PTL DEF Spec

(* Type correctness, for every capacity of the channel and every set of
   outcomes the modules report. *)
THEOREM TypeCorrect == Spec => []TypeOK
<1>1. IInv => TypeOK
  BY DEF IInv
<1>2. QED
  BY Inductive, <1>1, PTL

(* The .out.json of the latest attempt is there, or its absence reported,
   before the mission rests. *)
THEOREM FiledBeforeRest == Spec => []ResultBeforeRest
<1>1. IInv => ResultBeforeRest
  BY DEF IInv, ControlInv, ResultBeforeRest, AtRest, OnFile, RestInv, HeldInv
<1>2. QED
  BY Inductive, <1>1, PTL

(* Clients see what the mission waits for. *)
THEOREM WaitsVisible == Spec => []WaitsAreVisible
<1>1. IInv => WaitsAreVisible
  BY DEF IInv, ControlInv, WaitsAreVisible, RestInv, HeldInv, AttemptInv, Visible
<1>2. QED
  BY Inductive, <1>1, PTL

(* Every override of the gate is paid for by one rescue retry, and none is
   left over. *)
THEOREM OverridePaid == Spec => []OverrideIsPaid
<1>1. IInv => OverrideIsPaid
  BY DEF IInv, TypeOK, ControlInv, OverrideIsPaid, ReadyInv, RestInv, HeldInv,
         AttemptInv
<1>2. QED
  BY Inductive, <1>1, PTL

(* The status and the result file agree on the outcome at rest, but after an
   attempt that failed to start, and with which outcome the status is left then. *)
THEOREM OneStory == Spec => []StatusAgreesWithResult
<1>1. IInv => StatusAgreesWithResult
  BY DEF IInv, StoryInv, StatusAgreesWithResult
<1>2. QED
  BY Inductive, <1>1, PTL
-----------------------------------------------------------------------------
(* The refinement.
   Entering a wait, serving the runner and stopping it are nothing an operator
   is promised anything about. *)
LEMMA StutterStep ==
    ASSUME IInv, IInv',
           \/ \E c \in Command : Send(c)
           \/ Runner \/ RunnerVanishes \/ Ignore
           \/ EnterHeld \/ EnterSchedule \/ EnterManual
           \/ Record \/ Poll \/ \E c \in Command : Interrupt(c)
    PROVE  UNCHANGED <<Phase, Grant, OnFile>>
<1>1. UNCHANGED <<mode, result>>
  BY DEF Send, Runner, RunnerStarts, RunnerReports, RunnerEmits, RunnerVanishes,
         Ignore, EnterHeld, EnterSchedule, EnterManual, Record, Poll, Interrupt
<1>2. OnFile' = OnFile
  BY <1>1 DEF OnFile
<1>3. Phase' = Phase
  <2>1. CASE UNCHANGED <<pc, state>>
    BY <1>1, <2>1 DEF Phase
  <2>2. CASE pc \in {"attempt", "flush"} /\ pc' \in {"attempt", "flush"}
    BY <2>2 DEF Phase
  <2>3. CASE EnterHeld
    BY <2>3 DEF EnterHeld, Phase
  <2>4. CASE EnterSchedule
    BY <2>4 DEF EnterSchedule, Phase
  <2>5. CASE EnterManual
    BY <2>5 DEF EnterManual, Phase, Manual
  <2>6. QED
    BY <2>1, <2>2, <2>3, <2>4, <2>5
    DEF Send, Runner, RunnerStarts, RunnerReports, RunnerEmits, RunnerVanishes,
        Ignore, Record, Poll, Interrupt
<1>4. Grant' = Grant
  BY <1>1, <1>3 DEF Grant
<1>5. QED
  BY <1>2, <1>3, <1>4

LEMMA AttemptRefines ==
    ASSUME IInv, IInv',
           \/ StartAttempt \/ \E w \in BOOLEAN : FailToStart(w)
           \/ Complete \/ CompleteUnwritten
    PROVE  Lifecycle!Next
<1>1. CASE StartAttempt
  <2>1. /\ pc = "top" /\ ~state.held /\ mode.kind = "launching" /\ pc' = "attempt"
        /\ mode' = mode
    BY <1>1 DEF StartAttempt, Begin
  <2>2. Phase = "ready" /\ Phase' = "running" /\ Grant' = Grant
    BY <2>1 DEF Phase, Grant
  <2>3. OnFile' = FALSE
    BY <2>1 DEF IInv, ControlInv, AttemptInv, OnFile
  <2>4. QED
    BY <2>2, <2>3 DEF Lifecycle!Next, Lifecycle!Start
<1>2. CASE (\E w \in BOOLEAN : FailToStart(w)) \/ Complete \/ CompleteUnwritten
  <2>1. Phase \in {"ready", "running"}
    BY <1>2 DEF FailToStart, Begin, Complete, CompleteUnwritten, Flushed, Phase
  <2>2. pc' = "top" /\ mode'.kind # "launching"
    <3>1. ASSUME NEW w \in BOOLEAN, FailToStart(w)
          PROVE  pc' = "top" /\ mode'.kind # "launching"
      BY <3>1 DEF FailToStart, Wait
    <3>2. CASE CompleteUnwritten
      BY <3>2 DEF CompleteUnwritten, Wait
    <3>3. CASE Complete
      <4>1. runner.taken \in Outcome
        BY <3>3 DEF Complete, Flushed, IInv, ControlInv
      <4>2. QED
        BY <3>3, <4>1, NextModesType DEF Complete
    <3>4. QED
      BY <1>2, <3>1, <3>2, <3>3
  <2>3. ~state'.held
    <3>1. ASSUME NEW w \in BOOLEAN, FailToStart(w)
          PROVE  ~state'.held
      <4>1. mode \in Mode /\ state \in StateType
        BY DEF IInv, TypeOK
      <4>2. Entered(mode).held = FALSE /\ Entered(mode) \in StateType
        BY <4>1, EnteredType
      <4>3. QED
        BY <3>1, <4>2 DEF FailToStart, StateType
    <3>2. CASE Complete
      BY <3>2 DEF Complete, Entered
    <3>3. CASE CompleteUnwritten
      BY <3>3 DEF CompleteUnwritten, Flushed, IInv, ControlInv, AttemptInv, TypeOK,
                  StateType
    <3>4. QED
      BY <1>2, <3>1, <3>2, <3>3
  <2>4. RestInv'
    BY <2>2, <2>3 DEF IInv, ControlInv, ReadyInv, HeldInv
  <2>5. OnFile' = TRUE
    BY <2>4 DEF RestInv, OnFile
  <2>6. Phase' = "resting" /\ Grant' = FALSE
    BY <2>2, <2>3 DEF Phase, Grant
  <2>7. QED
    BY <2>1, <2>5, <2>6 DEF Lifecycle!Next, Lifecycle!Close
<1>3. QED
  BY <1>1, <1>2

LEMMA CommandRefines ==
    ASSUME IInv, IInv',
           \/ HoldAttempt \/ HoldWait \/ RetryAttempt \/ RetryWait
           \/ AbortAttempt \/ AbortWait
    PROVE  Lifecycle!Next
<1>1. OnFile' = OnFile
  BY DEF HoldAttempt, HoldWait, RetryAttempt, RetryWait, AbortAttempt, AbortWait, OnFile
<1>2. /\ pc \in {"flush", "scheduled", "manual", "held"}
      /\ Phase \in {"running", "resting", "held"}
  BY DEF HoldAttempt, HoldWait, RetryAttempt, RetryWait, AbortAttempt, AbortWait,
         Flushed, Phase
<1>3. CASE HoldAttempt \/ HoldWait
  <2>1. Phase \in {"running", "resting"}
    BY <1>3 DEF HoldAttempt, HoldWait, Flushed, Phase
  <2>2. pc' = "top" /\ state'.held
    BY <1>3, HeldType DEF HoldAttempt, HoldWait, IInv
  <2>3. Phase' = "held" /\ Grant' = FALSE
    BY <2>2 DEF Phase, Grant
  <2>4. QED
    BY <1>1, <2>1, <2>3 DEF Lifecycle!Next, Lifecycle!Hold
<1>4. CASE RetryAttempt \/ RetryWait
  <2>1. pc' = "top" /\ mode' = Launch(TRUE)
    BY <1>4 DEF RetryAttempt, RetryWait
  <2>2. mode'.kind = "launching" /\ mode'.override = TRUE
    BY <2>1 DEF Launch
  <2>3. ~state'.held
    BY <1>4, RetryReleases
  <2>4. Phase' = "ready" /\ Grant' = TRUE
    BY <2>1, <2>2, <2>3 DEF Phase, Grant
  <2>5. QED
    BY <1>1, <1>2, <2>4 DEF Lifecycle!Next, Lifecycle!Retry
<1>5. CASE AbortAttempt \/ AbortWait
  <2>1. pc' = "ended"
    BY <1>5 DEF AbortAttempt, AbortWait
  <2>2. Phase' = "ended" /\ Grant' = FALSE
    BY <2>1 DEF Phase, Grant
  <2>3. QED
    BY <1>1, <1>2, <2>2 DEF Lifecycle!Next, Lifecycle!Abort
<1>6. QED
  BY <1>3, <1>4, <1>5

LEMMA TimeRefines ==
    ASSUME IInv, IInv', Wake \/ Resume
    PROVE  Lifecycle!Next
<1>1. OnFile' = OnFile
  BY DEF Wake, Resume, OnFile
<1>2. CASE Wake
  <2>1. /\ pc = "scheduled" /\ pc' = "top" /\ mode' = Launch(mode.override)
        /\ state' = state
    BY <1>2 DEF Wake
  <2>2. ~state.held /\ mode.override = FALSE
    BY <2>1 DEF IInv, ControlInv, RestInv, TypeOK, Mode
  <2>3. mode'.kind = "launching" /\ mode'.override = FALSE
    BY <2>1, <2>2 DEF Launch
  <2>4. Phase = "resting" /\ Phase' = "ready" /\ Grant = FALSE /\ Grant' = FALSE
    BY <2>1, <2>2, <2>3 DEF Phase, Grant
  <2>5. QED
    BY <1>1, <2>4 DEF Lifecycle!Next, Lifecycle!Wake
<1>3. CASE Resume
  <2>1. /\ pc = "held" /\ pc' = "top" /\ mode' = resume
        /\ state' = [state EXCEPT !.held = FALSE]
    BY <1>3 DEF Resume
  <2>2. ~state'.held
    BY <2>1 DEF IInv, TypeOK, StateType
  <2>3. HeldInv /\ mode'.override = FALSE
    BY <2>1 DEF IInv, ControlInv, TypeOK, Mode
  <2>4. Phase = "held" /\ Grant = FALSE /\ Grant' = FALSE
    BY <2>1, <2>3 DEF Phase, Grant
  <2>5. CASE mode'.kind = "launching"
    <3>1. Phase' = "ready"
      BY <2>1, <2>2, <2>5 DEF Phase
    <3>2. QED
      BY <1>1, <2>4, <3>1 DEF Lifecycle!Next, Lifecycle!Resume
  <2>6. CASE mode'.kind # "launching"
    <3>1. Phase' = "resting" /\ OnFile
      BY <2>1, <2>2, <2>3, <2>6 DEF Phase, HeldInv
    <3>2. QED
      BY <1>1, <2>4, <3>1 DEF Lifecycle!Next, Lifecycle!Resume
  <2>7. QED
    BY <2>5, <2>6
<1>4. QED
  BY <1>2, <1>3

(* The loop, with its channel, recorder and runner, is a mission as the
   operator was promised it. *)
THEOREM Refinement == Spec => ImplementsLifecycle
<1>1. Init => Lifecycle!Init
  BY DEF Init, Lifecycle!Init, Launch, Phase, Grant, OnFile
<1>2. IInv /\ IInv' /\ [Next]_vars => [Lifecycle!Next]_(Lifecycle!vars)
  <2> SUFFICES ASSUME IInv, IInv', [Next]_vars
               PROVE  Lifecycle!Next \/ UNCHANGED <<Phase, Grant, OnFile>>
    BY DEF Lifecycle!vars
  <2>1. CASE UNCHANGED vars
    BY <2>1 DEF vars, Phase, Grant, OnFile
  <2>2. CASE Next
    BY <2>2, StutterStep, AttemptRefines, CommandRefines, TimeRefines
    DEF Next, Attempt, Waiting
  <2>3. QED
    BY <2>1, <2>2
<1>3. QED
  BY Inductive, <1>1, <1>2, PTL DEF Spec, ImplementsLifecycle, Lifecycle!Spec
=============================================================================
