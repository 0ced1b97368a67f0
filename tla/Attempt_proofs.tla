--------------------------- MODULE Attempt_proofs ---------------------------
(***************************************************************************)
(* Proofs about Attempt for every module contract, every set of reports and*)
(* every bound: the runtime state tells one story, and what a run leaves   *)
(* behind is its own.                                                      *)
(***************************************************************************)
EXTENDS Attempt, FiniteSetTheorems, TLAPS

(* The runtime state, its outcome with its decision and its rescue. *)
Decisions == {NoDecision} \cup {Decision(o, by) : o \in Outcomes, by \in {"module", "host"}}
Actions == {NoAction} \cup [deadline : Nat, expiry : Expiry]
States ==
    [phase : Phase, failures : 0..MaxFailures, cooldown : Times,
     outcome : Outcomes \cup {NoOutcome}, by : {"none", "module", "host"},
     decision : Decisions, action : Actions, contract : Contracts \cup {NoContract},
     run : Nat]

(* A rescue is asked for under one of the contracts D, which declares one, and
   ends its window after a moment of the run. *)
Rescue(o, a, D) ==
    o.status = "operator" =>
        \E c \in D : /\ c # NoContract /\ Rescuable(o, c)
                    /\ a.deadline - Window(o, c) \in 0..MaxTime
                    /\ a.expiry = OnExpiry(o, c)

Story(s, D, n) ==
    IF s.outcome = NoOutcome
    THEN s.by = "none" /\ s.decision = NoDecision /\ s.action = NoAction
    ELSE /\ s.outcome \in Outcomes
         /\ s.by \in {"module", "host"} /\ s.decision = Decision(s.outcome, s.by)
         /\ s.run = n
         /\ (s.outcome.status = "operator") <=> s.action # NoAction
         /\ Rescue(s.outcome, s.action, D)

(* The state of a runner whose module may be under the contracts D, in process n. *)
Ours(s, D, n) ==
    /\ s \in States
    /\ s.contract \in D
    /\ Story(s, D, n)

-----------------------------------------------------------------------------
(* Numbers. *)
LEMMA MinMax ==
    ASSUME NEW a \in Int, NEW b \in Int
    PROVE  /\ Min({a, b}) = IF a <= b THEN a ELSE b
           /\ Max({a, b}) = IF a >= b THEN a ELSE b
<1>1. Min({a, b}) = IF a <= b THEN a ELSE b
  <2> DEFINE v == IF a <= b THEN a ELSE b
  <2>1. v \in {a, b} /\ \A y \in {a, b} : v <= y
    OBVIOUS
  <2>2. \A x \in {a, b} : (\A y \in {a, b} : x <= y) => x = v
    OBVIOUS
  <2> QED
    BY <2>1, <2>2 DEF Min
<1>2. Max({a, b}) = IF a >= b THEN a ELSE b
  <2> DEFINE v == IF a >= b THEN a ELSE b
  <2>1. v \in {a, b} /\ \A y \in {a, b} : v >= y
    OBVIOUS
  <2>2. \A x \in {a, b} : (\A y \in {a, b} : x >= y) => x = v
    OBVIOUS
  <2> QED
    BY <2>1, <2>2 DEF Max
<1> QED
  BY <1>1, <1>2

LEMMA MaxZero ==
    ASSUME NEW a \in Int
    PROVE  Max({a, 0}) \in Nat /\ Max({a, 0}) = IF a >= 0 THEN a ELSE 0
<1> DEFINE z == 0
<1>1. z \in Int
  OBVIOUS
<1> HIDE DEF z
<1>2. Max({a, z}) = IF a >= z THEN a ELSE z
  BY <1>1, MinMax
<1> QED
  BY <1>2 DEF z

(* A power of two is the number of subsets. *)
LEMMA PowerType ==
    ASSUME NEW n \in Nat
    PROVE  2^n \in Nat
<1>1. IsFiniteSet(1..n) /\ Cardinality(1..n) = IF 1 > n THEN 0 ELSE n - 1 + 1
  BY FS_Interval
<1>2. Cardinality(1..n) = n
  BY <1>1
<1>3. IsFiniteSet(SUBSET (1..n)) /\ Cardinality(SUBSET (1..n)) = 2^Cardinality(1..n)
  BY <1>1, FS_SUBSET
<1>4. Cardinality(SUBSET (1..n)) \in Nat
  BY <1>3, FS_CardinalityType
<1> QED
  BY <1>2, <1>3, <1>4

LEMMA BackoffType ==
    ASSUME NEW s \in Strategies \ {NoStrategy}, NEW f \in Nat
    PROVE  Backoff(s, f) \in Nat
<1>1. CASE s \in [kind : {"fixed"}, base : Nat]
  BY <1>1 DEF Backoff
<1>2. CASE s \in [kind : {"exponential", "jittered"}, base : Nat, max : Nat]
  <2>1. s.base \in Nat /\ s.max \in Nat /\ s.kind \in {"exponential", "jittered"}
    BY <1>2
  <2>2. CASE s.kind = "exponential"
    <3> DEFINE d == f - 1
               e == Max({d, 0})
    <3>4. d \in Int
      OBVIOUS
    <3> HIDE DEF d
    <3>1. e \in Nat
      BY <3>4, MaxZero
    <3> HIDE DEF e
    <3>2. s.base * 2^e \in Nat
      BY <2>1, <3>1, PowerType
    <3>3. Min({s.base * 2^e, s.max}) \in Nat
      BY <2>1, <3>2, MinMax
    <3> QED
      BY <2>2, <3>3 DEF Backoff, e, d
  <2>3. CASE s.kind = "jittered"
    <3> DEFINE d == s.base - s.max
    <3>1. d \in Int
      BY <2>1
    <3> HIDE DEF d
    <3>2. Max({d, 0}) \in Nat
      BY <3>1, MaxZero
    <3> QED
      BY <2>3, <3>2 DEF Backoff, d
  <2> QED
    BY <2>1, <2>2, <2>3
<1> QED
  BY <1>1, <1>2 DEF Strategies

LEMMA RetryAfterType ==
    ASSUME NEW o \in Outcomes, NEW c \in Contracts \cup {NoContract}, NEW f \in Nat
    PROVE  RetryAfter(o, c, f) \in Times
<1>1. o.retry \in Times
  BY DEF Outcomes
<1>2. c # NoContract => c.strategy \in Strategies
  BY DEF Contracts
<1>3. c # NoContract /\ c.strategy # NoStrategy => Backoff(c.strategy, f) \in Nat
  BY <1>2, BackoffType
<1>4. DefaultRetry \in Nat
  BY OutcomeAssumption
<1> QED
  BY <1>1, <1>3, <1>4 DEF RetryAfter, Times

-----------------------------------------------------------------------------
(* What the operations make of a state. *)
LEMMA FreshOurs ==
    ASSUME NEW D, NoContract \in D, NEW n
    PROVE  Ours(Fresh, D, n)
<1>1. Fresh \in States
  BY OutcomeAssumption DEF Fresh, States, Phase, Times, Actions, Decisions
<1>2. Fresh.contract = NoContract /\ Fresh.outcome = NoOutcome /\ Fresh.by = "none"
      /\ Fresh.decision = NoDecision /\ Fresh.action = NoAction
  BY DEF Fresh
<1> QED
  BY <1>1, <1>2 DEF Ours, Story

(* A change of what no outcome depends on. *)
LEMMA SameStory ==
    ASSUME NEW D, NEW n, NEW s, Ours(s, D, n), NEW t \in States,
           t.outcome = s.outcome, t.by = s.by, t.decision = s.decision, t.action = s.action,
           t.run = s.run, t.contract \in D
    PROVE  Ours(t, D, n)
  BY DEF Ours, Story

LEMMA FailuresType ==
    ASSUME NEW f \in 0..MaxFailures
    PROVE  Min({f + 1, MaxFailures}) \in 0..MaxFailures
<1>1. MaxFailures \in Nat /\ f + 1 \in Int /\ MaxFailures \in Int /\ f + 1 >= 0
  BY OutcomeAssumption
<1> QED
  BY <1>1, MinMax

LEMMA FailedIs ==
    ASSUME NEW s \in States
    PROVE  /\ Failed(s) \in States
           /\ Failed(s).failures \in Nat /\ Failed(s).contract = s.contract
           /\ Failed(s).outcome = s.outcome /\ Failed(s).by = s.by
           /\ Failed(s).decision = s.decision /\ Failed(s).action = s.action
           /\ Failed(s).run = s.run /\ Failed(s).cooldown = s.cooldown
<1>1. s.failures \in 0..MaxFailures
  BY DEF States
<1>2. Min({s.failures + 1, MaxFailures}) \in 0..MaxFailures
  BY <1>1, FailuresType
<1>3. Failed(s) = [s EXCEPT !.phase = "failed", !.failures = Min({s.failures + 1, MaxFailures})]
  BY DEF Failed, States
<1>4. Failed(s) \in States
  BY <1>2, <1>3 DEF States, Phase
<1>5. Failed(s).failures \in Nat
  BY <1>4, OutcomeAssumption DEF States
<1> QED
  BY <1>3, <1>4, <1>5 DEF States

LEMMA SettledIs ==
    ASSUME NEW s \in States, NEW o \in Outcomes, NEW by \in {"module", "host"}, NEW n \in Nat
    PROVE  /\ Settled(s, o, by, n) \in States
           /\ Settled(s, o, by, n).outcome = o /\ Settled(s, o, by, n).by = by
           /\ Settled(s, o, by, n).decision = Decision(o, by) /\ Settled(s, o, by, n).run = n
           /\ Settled(s, o, by, n).action = s.action /\ Settled(s, o, by, n).contract = s.contract
<1>1. Decision(o, by) \in Decisions
  BY DEF Decisions
<1> QED
  BY <1>1 DEF Settled, States

(* An outcome that is reported or made up. *)
LEMMA UpdateOurs ==
    ASSUME NEW D, NEW n \in Nat, NEW s, Ours(s, D, n), NEW o \in Outcomes,
           o.status = "operator" => Rescuable(o, s.contract),
           NEW by \in {"module", "host"}, NEW t \in 0..MaxTime
    PROVE  Ours(Update(s, o, by, t, n), D, n)
<1> DEFINE a == [s EXCEPT !.cooldown = NoTime, !.action = NoAction]
           f == Failed(a)
           after == RetryAfter(o, s.contract, f.failures)
           w == IF after = NoTime THEN NoTime ELSE t + after
           u == Update(s, o, by, t, n)
<1>1. s \in States /\ s.contract \in D /\ s.contract \in Contracts \cup {NoContract}
  BY DEF Ours, States
<1>2. t \in Nat /\ NoTime \in Times
  BY AttemptAssumption DEF Times
<1>3. a \in States /\ a.action = NoAction /\ a.contract = s.contract
  BY <1>1, <1>2 DEF States, Actions
<1>4. f \in States /\ f.action = NoAction /\ f.contract = s.contract /\ f.failures \in Nat
  BY <1>3, FailedIs
<1>5. w \in Times
  <2>1. after \in Times
    BY <1>1, <1>4, RetryAfterType
  <2> QED
    BY <1>2, <2>1 DEF Times
<1> HIDE DEF a, f, after, w, u
<1>6. ASSUME NEW v \in States, v.contract = s.contract, v.action = NoAction,
             o.status # "operator", u = Settled(v, o, by, n)
      PROVE  Ours(u, D, n)
  <2>1. /\ u \in States /\ u.outcome = o /\ u.by = by /\ u.decision = Decision(o, by)
        /\ u.run = n /\ u.action = NoAction /\ u.contract = s.contract
    BY <1>6, SettledIs
  <2>2. o # NoOutcome
    BY DEF Outcomes, NoOutcome, Status
  <2>3. Story(u, D, n)
    BY <1>6, <2>1, <2>2 DEF Story, Rescue
  <2> QED
    BY <1>1, <2>1, <2>3 DEF Ours
<1>7. o.status \in Status
  BY DEF Outcomes
<1>8. CASE o.status = "published"
  <2> DEFINE v == [a EXCEPT !.phase = "publishing", !.failures = 0]
  <2>1. 0 \in 0..MaxFailures /\ "publishing" \in Phase
    BY OutcomeAssumption DEF Phase
  <2>2. v \in States
    BY <1>3, <2>1 DEF States
  <2>3. v.contract = s.contract /\ v.action = NoAction
    BY <1>3 DEF States
  <2>4. u = Settled(v, o, by, n)
    BY <1>8 DEF u, Update, a
  <2> QED
    BY <1>6, <1>8, <2>2, <2>3, <2>4 DEF u
<1>9. CASE o.status = "retryable"
  <2>1. [f EXCEPT !.cooldown = w] \in States /\ [f EXCEPT !.cooldown = w].contract = s.contract
        /\ [f EXCEPT !.cooldown = w].action = NoAction
    BY <1>4, <1>5 DEF States
  <2>2. u = Settled([f EXCEPT !.cooldown = w], o, by, n)
    BY <1>9 DEF u, Update, a, f, after, w
  <2> QED
    BY <1>6, <1>9, <2>1, <2>2 DEF u
<1>10. CASE o.status = "terminal"
  <2>1. u = Settled(f, o, by, n)
    BY <1>10 DEF u, Update, a, f
  <2> QED
    BY <1>4, <1>6, <1>10, <2>1 DEF u
<1>11. CASE o.status = "operator"
  <2> DEFINE c == s.contract
             e == Escalation(o, c, t)
             v == [f EXCEPT !.action = e]
  <2>1. c # NoContract /\ c \in D /\ c \in Contracts /\ c.window # NoTime /\ Rescuable(o, c)
    BY <1>1, <1>11 DEF Rescuable
  <2>2. c.window \in Nat /\ c.expiry \in Expiry
    BY <2>1 DEF Contracts, Times
  <2>3. Window(o, c) \in Nat /\ OnExpiry(o, c) \in Expiry
    BY <2>2 DEF Window, OnExpiry, Outcomes, Times, Expiry
  <2>4. e = [deadline |-> t + Window(o, c), expiry |-> OnExpiry(o, c)]
    BY DEF Escalation
  <2>5. e \in Actions /\ e.deadline - Window(o, c) \in 0..MaxTime /\ e.expiry = OnExpiry(o, c)
    BY <1>2, <2>3, <2>4 DEF Actions
  <2>6. e # NoAction
    BY <1>2, <2>3, <2>4 DEF NoAction, NoTime
  <2> HIDE DEF e
  <2>7. v \in States /\ v.action = e /\ v.contract = s.contract
    BY <1>4, <2>5 DEF States
  <2> HIDE DEF v
  <2>8. u = Settled(v, o, by, n)
    BY <1>11 DEF u, Update, a, f, v, e
  <2>9. /\ u \in States /\ u.outcome = o /\ u.by = by /\ u.decision = Decision(o, by)
        /\ u.run = n /\ u.action = e /\ u.contract = s.contract
    BY <2>7, <2>8, SettledIs
  <2>10. Rescue(o, e, D)
    BY <2>1, <2>5 DEF Rescue
  <2>11. o # NoOutcome
    BY DEF Outcomes, NoOutcome, Status
  <2> QED
    BY <1>1, <1>11, <2>6, <2>9, <2>10, <2>11 DEF Ours, Story, u
<1> QED
  BY <1>7, <1>8, <1>9, <1>10, <1>11 DEF Status

(* Outcomes the host makes up. *)
LEMMA SynthesizedType ==
    ASSUME NEW st \in Status, NEW re \in HostReason
    PROVE  Synthesized(st, re) \in Outcomes /\ Synthesized(st, re).status = st
           /\ Synthesized(st, re).reason = re
  BY DEF Synthesized, Outcomes, Times

LEMMA ReportOurs ==
    ASSUME NEW D, NEW n \in Nat, NEW s, Ours(s, D, n), NEW o, NEW t \in 0..MaxTime
    PROVE  Ours(Report(s, o, t, n), D, n)
<1>1. ProtocolError \in Outcomes /\ ProtocolError.status = "terminal"
  BY SynthesizedType DEF ProtocolError, Status, HostReason
<1> QED
  BY <1>1, UpdateOurs DEF Report

LEMMA EnsuredOurs ==
    ASSUME NEW D, NEW n \in Nat, NEW s, Ours(s, D, n), NEW t \in 0..MaxTime,
           NEW how \in {"ok", "timeout", "error", "panic"}, NEW published \in BOOLEAN
    PROVE  Ours(Ensured(s, how, published, t, n), D, n)
<1>1. Missing(how, published) \in Outcomes /\ Missing(how, published).status # "operator"
  BY SynthesizedType DEF Missing, Status, HostReason
<1> QED
  BY <1>1, UpdateOurs DEF Ensured

LEMMA ResetOurs ==
    ASSUME NEW D, NEW n, NEW s \in States, s.contract \in D
    PROVE  Ours(WithoutOutcome(s), D, n) /\ Ours(Reset(s), D, n)
<1>4. NoDecision \in Decisions /\ NoAction \in Actions
  BY DEF Decisions, Actions
<1>5. WithoutOutcome(s) \in States
  BY <1>4 DEF WithoutOutcome, States
<1>1. WithoutOutcome(s) \in States /\ Reset(s) \in States
  BY <1>5 DEF Reset, States, Phase
<1>2. /\ WithoutOutcome(s).outcome = NoOutcome /\ WithoutOutcome(s).by = "none"
      /\ WithoutOutcome(s).decision = NoDecision /\ WithoutOutcome(s).action = NoAction
      /\ WithoutOutcome(s).contract = s.contract
  BY DEF WithoutOutcome, States
<1>3. /\ Reset(s).outcome = NoOutcome /\ Reset(s).by = "none"
      /\ Reset(s).decision = NoDecision /\ Reset(s).action = NoAction
      /\ Reset(s).contract = s.contract
  BY <1>1, <1>2 DEF Reset, WithoutOutcome, States
<1> QED
  BY <1>1, <1>2, <1>3 DEF Ours, Story

(* What changes the phase, the failures or the cooldown. *)
LEMMA SmallOurs ==
    ASSUME NEW D, NEW n, NEW s, Ours(s, D, n), NEW t \in Nat
    PROVE  /\ Ours(Published(s), D, n)
           /\ Ours(NetworkFailed(s), D, n)
           /\ Ours(Slept(s, t), D, n)
<1>1. s \in States /\ s.contract \in D
  BY DEF Ours
<1>2. Ours(Published(s), D, n)
  <2> DEFINE z == [s EXCEPT !.failures = 0]
  <2>1. z \in States
    BY <1>1, OutcomeAssumption DEF States
  <2>2. Published(s) = z \/ Published(s) = [z EXCEPT !.phase = "publishing"]
    BY DEF Published, InPhase
  <2>3. Ours(z, D, n)
    BY <1>1, <2>1, SameStory DEF States
  <2>4. [z EXCEPT !.phase = "publishing"] \in States
    BY <2>1 DEF States, Phase
  <2>5. Ours([z EXCEPT !.phase = "publishing"], D, n)
    BY <1>1, <2>1, <2>4, SameStory DEF States
  <2> QED
    BY <2>2, <2>3, <2>5
<1>3. Ours(NetworkFailed(s), D, n)
  BY <1>1, FailedIs, SameStory DEF NetworkFailed
<1>4. Ours(Slept(s, t), D, n)
  <2>1. Slept(s, t) \in States
    BY <1>1 DEF Slept, States, Phase, Times
  <2> QED
    BY <1>1, <2>1, SameStory DEF Slept, States
<1> QED
  BY <1>2, <1>3, <1>4

-----------------------------------------------------------------------------
(* The inductive invariant: the types of the rest of the state ... *)
Bounds ==
    /\ module \in Module
    /\ now \in 0..MaxTime /\ runs \in 0..MaxRuns
    /\ faults \in 0..MaxEvents /\ calls \in 0..MaxEvents
    /\ cli \in {"off", "poll", "watch", "record", "exit", "fail"}
    /\ stage \in {"off", "dead", "init", "cooldown", "entry", "corrupt", "save_state",
                  "save_ledger", "ended"}
    /\ err \in ErrorCategory \cup {"none"}
    /\ wake \in Times /\ deadline \in Times /\ budget \in Nat /\ exit \in Nat
    /\ output \in BOOLEAN /\ unwritten \in BOOLEAN
    /\ cli = "off" => stage = "off" /\ rt = Fresh
    /\ cli = "fail" => err # "none"

(* ... the runtime state, in memory and in the files ... *)
Ledgers == [gate : BOOLEAN, failures : 0..MaxFailures, cooldown : Times, run : Nat]
SavedInv == saved # NoState => saved \in States /\ saved.contract \in Declared
LedgerInv == ledger # NoLedger => module # NoContract /\ ledger \in Ledgers
StateInv == Ours(rt, Declared, runs) /\ SavedInv /\ LedgerInv

(* ... what the command has found and written ... *)
Sealed(o, d, a, D) ==
    /\ o \in Outcomes /\ Rescue(o, a, D)
    /\ \E by \in {"module", "host"} : d = Decision(o, by)
FoundInv ==
    cli \in {"record", "exit"} =>
        Sealed(found.outcome, found.decision, found.action, Declared) /\ found.run = runs
RecordInv ==
    /\ cli = "exit" => record = Record(found.outcome, found.decision, found.action, runs)
    /\ record # NoRecord => Sealed(record.outcome, record.decision, record.action, Declared)

WrittenInv == cli # "off" => unwritten = FALSE

(* ... and the cooldown that the entry waits for. *)
RetryInv ==
    /\ stage = "cooldown" /\ faults = 0 /\ ledger # NoLedger => wake = ledger.cooldown
    /\ RetryWaits

LEMMA Constants ==
    /\ MaxTime \in Nat /\ MaxRuns \in Nat /\ MaxEvents \in Nat
    /\ RunnerDefault \in Nat /\ CommandDefault \in Nat /\ Grace \in Nat
    /\ \A d \in Naps : d \in Nat
    /\ \A c \in Module : c \in Contracts \cup {NoContract}
    /\ \A c \in Manifests : c \in Contracts
    /\ \A how \in Endings : how \in {"ok", "timeout", "error", "panic"}
  BY AttemptAssumption

(* No step changes what the module is. *)
LEMMA Worldly == [Next]_vars => module' = module /\ Declared' = Declared
<1> SUFFICES ASSUME [Next]_vars PROVE module' = module
  BY DEF Declared
<1>1. CASE \E gap \in Naps \cup {0} : Start(gap)
  BY <1>1 DEF Start
<1>2. CASE Runner
  BY <1>2 DEF Runner, InitFails, Describe, EntryBegins, EntryEnds, Corrupt, SaveState, SaveLedger,
              World, worldVars
<1>3. CASE Guest
  BY <1>3 DEF Guest, MayCall, ReportOutcome, PublishArtifact, RequestFails, RegisterManifest, SaveEntries,
              Sleep, Announce, Awake, worldVars
<1>4. CASE Command
  BY <1>4 DEF Command, Poll, Watch, WriteRecord, Exit, RecordFailure, World, worldVars
<1>5. CASE Tick \/ Kill
  BY <1>5 DEF Tick, Kill, World
<1>6. CASE UNCHANGED vars
  BY <1>6 DEF vars, worldVars
<1> QED
  BY <1>1, <1>2, <1>3, <1>4, <1>5, <1>6 DEF Next

-----------------------------------------------------------------------------
LEMMA StartBounds ==
    ASSUME Bounds, NEW gap \in Naps \cup {0}, Start(gap)
    PROVE  Bounds'
<1>1. runs' = runs + 1 /\ runs < MaxRuns /\ now' = 0 /\ exit' = 0
      /\ wake' = NoTime /\ deadline' = NoTime /\ output' = FALSE /\ budget' = CommandDefault
      /\ unwritten' = FALSE /\ UNCHANGED <<module, faults, calls>>
  BY DEF Start
<1>2. cli' \in {"poll", "fail"} /\ err' \in ErrorCategory \cup {"none"} /\ stage' \in {"dead", "init", "off"}
      /\ (cli' = "fail" => err' # "none")
  BY DEF Start, ErrorCategory
<1>3. runs' \in 0..MaxRuns /\ now' \in 0..MaxTime /\ NoTime \in Times
  BY <1>1, Constants DEF Bounds, Times
<1> QED
  BY <1>1, <1>2, <1>3, Constants DEF Bounds

LEMMA RunnerBounds ==
    ASSUME Bounds, StateInv, Runner
    PROVE  Bounds'
<1>1. cli # "off"
  BY DEF Runner, InitFails, Describe, EntryBegins, EntryEnds, Corrupt, SaveState, SaveLedger, Bounds
<1>2. UNCHANGED <<cli, budget, err, unwritten, exit, module, now, runs, calls>>
  BY DEF Runner, InitFails, Describe, EntryBegins, EntryEnds, Corrupt, SaveState, SaveLedger,
         cliVars, worldVars, World
<1>3. faults' \in 0..MaxEvents
  <2>1. faults' = faults \/ (faults + calls < MaxEvents /\ faults' = faults + 1)
    BY DEF Runner, InitFails, Describe, EntryBegins, EntryEnds, Corrupt, SaveState, SaveLedger,
           worldVars, Fault, NoFault
  <2> QED
    BY <2>1, Constants DEF Bounds
<1>4. ASSUME stage' \in {"dead", "init", "cooldown", "entry", "corrupt", "save_state",
                         "save_ledger", "ended"},
             wake' \in Times, deadline' \in Times, output' \in BOOLEAN
      PROVE  Bounds'
  BY <1>1, <1>2, <1>3, <1>4 DEF Bounds
<1>5. ASSUME NEW how \in Endings, InitFails(how)
      PROVE  Bounds'
  <2>1. stage' = "ended" /\ UNCHANGED <<wake, deadline>> /\ output' = (output /\ how # "panic")
    BY <1>5 DEF InitFails, Fails
  <2>2. output' \in BOOLEAN
    BY <2>1
  <2> QED
    BY <1>4, <2>1, <2>2 DEF Bounds
<1>6. CASE Describe
  <2>1. stage' \in {"save_state", "cooldown"} /\ UNCHANGED <<deadline, output>>
    BY <1>6 DEF Describe, GateCloses, GateOpens
  <2>2. wake' \in Times
    <3>1. PICK l \in {ledger, NoLedger} : GateCloses(l) \/ GateOpens(l)
      BY <1>6 DEF Describe
    <3>2. CASE GateCloses(l)
      BY <3>2 DEF GateCloses, Bounds
    <3>3. CASE GateOpens(l)
      <4>1. Known(l).cooldown \in Times
        <5>1. rt \in States /\ module \in Contracts \cup {NoContract}
          BY Constants DEF StateInv, Ours, Bounds
        <5>2. l # NoLedger => l.cooldown \in Times
          BY <3>1 DEF StateInv, LedgerInv, Ledgers
        <5> QED
          BY <5>1, <5>2 DEF Known, Applied, States
      <4> QED
        BY <3>3, <4>1 DEF GateOpens
    <3> QED
      BY <3>1, <3>2, <3>3
  <2> QED
    BY <1>4, <2>1, <2>2 DEF Bounds
<1>7. CASE EntryBegins
  <2>1. stage' = "entry" /\ wake' = NoTime /\ deadline' = now + EntryBudget /\ output' = output
    BY <1>7 DEF EntryBegins
  <2>2. EntryBudget \in Nat
    <3>1. module # NoContract => module.budget \in Nat
      BY Constants DEF Bounds, Contracts
    <3> QED
      BY <3>1, Constants DEF EntryBudget
  <2>3. deadline' \in Times /\ wake' \in Times
    BY <2>1, <2>2, Constants DEF Bounds, Times
  <2> QED
    BY <1>4, <2>1, <2>3 DEF Bounds
<1>8. ASSUME NEW how \in Endings, EntryEnds(how)
      PROVE  Bounds'
  BY <1>4, <1>8 DEF EntryEnds, Bounds, Times
<1>9. CASE Corrupt
  BY <1>4, <1>9 DEF Corrupt, Bounds
<1>10. CASE SaveState
  BY <1>4, <1>10 DEF SaveState, sharedVars, Bounds
<1>11. CASE SaveLedger
  BY <1>4, <1>11 DEF SaveLedger, sharedVars, Bounds
<1> QED
  BY <1>5, <1>6, <1>7, <1>8, <1>9, <1>10, <1>11 DEF Runner

LEMMA GuestBounds ==
    ASSUME Bounds, Guest
    PROVE  Bounds'
<1>1. cli # "off" /\ UNCHANGED <<stage, deadline, cli, budget, err, unwritten, exit, module, now, runs, faults>>
  BY DEF Guest, ReportOutcome, PublishArtifact, RequestFails, RegisterManifest, SaveEntries, Sleep, Announce,
         Awake, MayCall, cliVars, worldVars, Bounds
<1>2. calls' \in 0..MaxEvents
  <2>1. calls' = calls \/ (faults + calls < MaxEvents /\ calls' = calls + 1)
    BY DEF Guest, ReportOutcome, PublishArtifact, RequestFails, RegisterManifest, SaveEntries, Sleep, Announce,
           Awake, MayCall, worldVars
  <2> QED
    BY <2>1, Constants DEF Bounds
<1>3. output' \in BOOLEAN
  BY DEF Guest, ReportOutcome, PublishArtifact, RequestFails, RegisterManifest, SaveEntries, Sleep, Announce,
         Awake, sharedVars, Bounds
<1>4. wake' \in Times
  <2>1. wake' = wake \/ wake' = NoTime \/ \E d \in Naps : wake' = now + d
    BY DEF Guest, ReportOutcome, PublishArtifact, RequestFails, RegisterManifest, SaveEntries, Sleep, Announce, Awake
  <2> QED
    BY <2>1, Constants DEF Bounds, Times
<1> QED
  BY <1>1, <1>2, <1>3, <1>4 DEF Bounds

LEMMA ExitCodes ==
    ASSUME NEW o \in Outcomes
    PROVE  /\ ExitFor(o) \in Nat
           /\ ExitCode(o) = ExitFor(o) \/ Borrowed(o)
  BY DEF ExitFor, ExitCode, ExitOf, Borrowed, Outcomes, Status

LEMMA CommandBounds ==
    ASSUME Bounds, StateInv, FoundInv, Command \/ Kill \/ Tick
    PROVE  Bounds'
<1>1. CASE Poll
  <2>1. cli' \in {"watch", "record"} /\ budget' = CommandBudget /\ output' \in {output, FALSE}
        /\ UNCHANGED <<err, unwritten, exit, stage, wake, deadline, rt, module, now, runs, faults, calls>>
    BY <1>1 DEF Poll, runnerVars, worldVars
  <2>2. budget' \in Nat
    BY <2>1 DEF CommandBudget, Described, StateInv, Ours, States, Contracts, Bounds
  <2> QED
    BY <2>1, <2>2 DEF Bounds
<1>2. CASE Watch
  <2>1. /\ (cli' = "poll" /\ err' = err) \/ (cli' = "fail" /\ err' = "timeout")
        /\ "timeout" \in ErrorCategory
        /\ UNCHANGED <<budget, unwritten, exit, stage, wake, deadline, rt, output, module, now, runs, faults, calls>>
    BY <1>2 DEF Watch, runnerVars, sharedVars, worldVars, ErrorCategory
  <2> QED
    BY <2>1 DEF Bounds
<1>3. ASSUME Fault \/ NoFault
      PROVE  faults' \in 0..MaxEvents
  <2>1. faults' = faults \/ (faults + calls < MaxEvents /\ faults' = faults + 1)
    BY <1>3 DEF Fault, NoFault
  <2> QED
    BY <2>1, Constants DEF Bounds
<1>4. CASE WriteRecord
  <2>1. /\ (cli' = "exit" /\ err' = err) \/ (cli' = "fail" /\ err' = "persistence_failure")
        /\ Fault \/ NoFault
        /\ "persistence_failure" \in ErrorCategory
        /\ UNCHANGED <<budget, unwritten, exit, stage, wake, deadline, rt, output, module, now, runs, calls>>
    BY <1>4 DEF WriteRecord, Written, NotWritten, runnerVars, sharedVars, World, ErrorCategory
  <2> QED
    BY <1>3, <2>1 DEF Bounds
<1>5. ASSUME Gone, exit' \in Nat, unwritten' \in BOOLEAN, UNCHANGED <<module, now, runs, calls>>, faults' \in 0..MaxEvents
      PROVE  Bounds'
  BY <1>5, Constants DEF Gone, Bounds, Times
<1>6. CASE Exit
  <2>1. Gone /\ exit' = ExitFor(found.outcome) /\ UNCHANGED <<unwritten, worldVars>> /\ cli = "exit"
    BY <1>6 DEF Exit
  <2>2. exit' \in Nat
    BY <2>1, ExitCodes DEF FoundInv, Sealed
  <2> QED
    BY <1>5, <2>1, <2>2 DEF worldVars, Bounds
<1>7. CASE RecordFailure
  <2>1. Gone /\ exit' \in {CategoryExit(err), CategoryExit("persistence_failure")}
        /\ unwritten' \in {unwritten, TRUE} /\ World /\ (Fault \/ NoFault)
    BY <1>7 DEF RecordFailure, Written, NotWritten
  <2>2. err \in ErrorCategory
    BY <1>7 DEF RecordFailure, Bounds
  <2>3. exit' \in Nat
    BY <2>1, <2>2 DEF CategoryExit, ErrorCategory
  <2> QED
    BY <1>3, <1>5, <2>1, <2>3 DEF World, Bounds
<1>8. CASE Kill
  BY <1>3, <1>5, <1>8 DEF Kill, World, Bounds
<1>9. CASE Tick
  <2>1. cli = "poll" /\ now < MaxTime /\ now' = now + 1
        /\ UNCHANGED <<cli, budget, err, unwritten, exit, stage, wake, deadline, rt, output, module, runs, faults, calls>>
    BY <1>9 DEF Tick, cliVars, runnerVars, sharedVars
  <2>2. now' \in 0..MaxTime
    BY <2>1, Constants DEF Bounds
  <2> QED
    BY <2>1, <2>2 DEF Bounds
<1> QED
  BY <1>1, <1>2, <1>4, <1>6, <1>7, <1>8, <1>9 DEF Command

LEMMA BoundsStep == Bounds /\ StateInv /\ FoundInv /\ [Next]_vars => Bounds'
<1>1. Bounds /\ UNCHANGED vars => Bounds'
  BY DEF vars, cliVars, runnerVars, sharedVars, worldVars, Bounds
<1> QED
  BY <1>1, StartBounds, RunnerBounds, GuestBounds, CommandBounds DEF Next

-----------------------------------------------------------------------------
(* The runtime state.  A cooldown that is moved back is still one. *)
LEMMA EarlierType ==
    ASSUME NEW t \in Times, NEW d \in Nat
    PROVE  Earlier(t, d) \in Times
<1> DEFINE e == t - d
<1>1. e \in Int
  BY DEF Times, NoTime
<1> HIDE DEF e
<1>2. Max({e, 0}) \in Nat
  BY <1>1, MaxZero
<1> QED
  BY <1>2 DEF Earlier, Times, e

(* A start takes from the files what is still true of them later. *)
LEMMA StartState ==
    ASSUME Bounds, StateInv, NEW gap \in Naps \cup {0}, Start(gap)
    PROVE  StateInv'
<1> DEFINE d == now + gap
<1>1. d \in Nat
  BY Constants DEF Bounds
<1> HIDE DEF d
<1>2. /\ module' = module /\ Declared' = Declared
      /\ ledger' = EarlierLedger(d) /\ saved' = EarlierState(d) /\ rt' = Loaded(saved')
  BY DEF Start, Declared, d
<1>3. LedgerInv'
  <2>1. CASE ledger = NoLedger
    BY <1>2, <2>1 DEF EarlierLedger, LedgerInv
  <2>2. CASE ledger # NoLedger
    <3>1. ledger \in Ledgers /\ ledger.cooldown \in Times /\ module # NoContract
      BY <2>2 DEF StateInv, LedgerInv, Ledgers
    <3>2. ledger' = [ledger EXCEPT !.cooldown = Earlier(ledger.cooldown, d)]
      BY <1>2, <2>2, <3>1 DEF EarlierLedger, Ledgers
    <3>3. Earlier(ledger.cooldown, d) \in Times
      BY <1>1, <3>1, EarlierType
    <3>4. ledger' \in Ledgers
      BY <3>1, <3>2, <3>3 DEF Ledgers
    <3> QED
      BY <1>2, <3>1, <3>4 DEF LedgerInv
  <2> QED
    BY <2>1, <2>2
<1>4. SavedInv'
  <2>1. CASE saved = NoState
    BY <1>2, <2>1 DEF EarlierState, SavedInv
  <2>2. CASE saved # NoState
    <3>1. saved \in States /\ saved.cooldown \in Times /\ saved.contract \in Declared
      BY <2>2 DEF StateInv, SavedInv, States
    <3>2. saved' = [saved EXCEPT !.cooldown = Earlier(saved.cooldown, d)]
      BY <1>2, <2>2, <3>1 DEF EarlierState, States
    <3>3. Earlier(saved.cooldown, d) \in Times
      BY <1>1, <3>1, EarlierType
    <3>4. saved' \in States /\ saved'.contract = saved.contract
      BY <3>1, <3>2, <3>3 DEF States
    <3> QED
      BY <1>2, <3>1, <3>4 DEF SavedInv
  <2> QED
    BY <2>1, <2>2
<1>5. Ours(rt', Declared', runs')
  <2>1. NoContract \in Declared
    BY DEF Declared
  <2>2. Ours(Fresh, Declared, runs')
    BY <2>1, FreshOurs
  <2>3. CASE saved' = NoState
    BY <1>2, <2>2, <2>3 DEF Loaded
  <2>4. CASE saved' # NoState
    <3>1. saved' \in States /\ saved'.contract \in Declared
      BY <1>2, <1>4, <2>4 DEF SavedInv
    <3> QED
      BY <1>2, <2>4, <3>1, ResetOurs DEF Loaded, StateForStart
  <2> QED
    BY <2>3, <2>4
<1> QED
  BY <1>3, <1>4, <1>5 DEF StateInv

(* What describe makes known. *)
LEMMA KnownOurs ==
    ASSUME Bounds, StateInv, NEW l \in {ledger, NoLedger}
    PROVE  Ours(Known(l), Declared, runs)
<1> DEFINE s == [rt EXCEPT !.contract = module]
<1>1. rt \in States /\ module \in Contracts \cup {NoContract} /\ Ours(rt, Declared, runs)
      /\ module \in Declared
  BY Constants DEF StateInv, Ours, Bounds, Declared
<1>2. s \in States /\ Ours(s, Declared, runs)
  <2>1. s \in States
    BY <1>1 DEF States
  <2> QED
    BY <1>1, <2>1, SameStory DEF States
<1> HIDE DEF s
<1>3. CASE l = NoLedger
  BY <1>1, <1>2, <1>3 DEF Known, s
<1>4. CASE l # NoLedger
  <2>1. l \in Ledgers
    BY <1>4 DEF StateInv, LedgerInv
  <2>2. Applied(s, l) \in States
    BY <1>2, <2>1 DEF Applied, States, Ledgers
  <2>3. Ours(Applied(s, l), Declared, runs)
    BY <1>2, <2>2, SameStory DEF Applied, States, Ours
  <2> QED
    BY <1>1, <1>4, <2>3 DEF Known, s
<1> QED
  BY <1>3, <1>4

LEMMA RunnerState ==
    ASSUME Bounds, StateInv, Runner
    PROVE  StateInv'
<1>1. UNCHANGED <<module, Declared, runs>>
  BY DEF Runner, InitFails, Describe, EntryBegins, EntryEnds, Corrupt, SaveState, SaveLedger,
         worldVars, World, Declared
<1>2. /\ Ours(rt, Declared, runs) /\ rt \in States /\ rt.contract \in Declared
      /\ runs \in Nat /\ now \in 0..MaxTime /\ output \in BOOLEAN
  BY Constants DEF StateInv, Ours, Bounds
<1>3. ASSUME UNCHANGED <<ledger, saved>>, Ours(rt', Declared, runs)
      PROVE  StateInv'
  BY <1>1, <1>3 DEF StateInv, SavedInv, LedgerInv
<1>4. ASSUME NEW how \in Endings, InitFails(how)
      PROVE  StateInv'
  <2>1. output' = (output /\ how # "panic") /\ rt' = Ensured(rt, how, output', now, runs)
        /\ UNCHANGED <<ledger, saved>>
    BY <1>4 DEF InitFails, Fails, diskVars
  <2>2. output' \in BOOLEAN
    BY <2>1
  <2> QED
    BY <1>2, <1>3, <2>1, <2>2, Constants, EnsuredOurs
<1>5. CASE Describe
  <2>1. PICK l \in {ledger, NoLedger} : GateCloses(l) \/ GateOpens(l)
    BY <1>5 DEF Describe
  <2>2. UNCHANGED <<ledger, saved>>
    BY <1>5 DEF Describe, diskVars
  <2>3. Ours(Known(l), Declared, runs)
    BY KnownOurs
  <2>4. ChangedConditions \in Outcomes /\ ChangedConditions.status = "retryable"
    BY SynthesizedType DEF ChangedConditions, Status, HostReason
  <2>5. CASE GateCloses(l)
    BY <1>2, <1>3, <2>2, <2>3, <2>4, <2>5, UpdateOurs DEF GateCloses
  <2>6. CASE GateOpens(l)
    BY <1>3, <2>2, <2>3, <2>6 DEF GateOpens
  <2> QED
    BY <2>1, <2>5, <2>6
<1>6. CASE EntryBegins
  BY <1>2, <1>3, <1>6, ResetOurs DEF EntryBegins, diskVars
<1>7. ASSUME NEW how \in Endings, EntryEnds(how)
      PROVE  StateInv'
  BY <1>2, <1>3, <1>7, Constants, EnsuredOurs DEF EntryEnds, diskVars
<1>8. CASE Corrupt
  BY <1>2, <1>3, <1>8 DEF Corrupt, diskVars
<1>9. CASE SaveState
  <2>1. UNCHANGED <<rt, ledger>> /\ saved' \in {saved, rt}
    BY <1>9 DEF SaveState, sharedVars
  <2> QED
    BY <1>1, <1>2, <2>1 DEF StateInv, SavedInv, LedgerInv
<1>10. CASE SaveLedger
  <2>1. UNCHANGED <<rt, saved>>
    BY <1>10 DEF SaveLedger, sharedVars
  <2>2. CASE ledger' = ledger
    BY <1>1, <1>2, <1>3, <2>1, <2>2
  <2>3. CASE ledger' # ledger
    <3>1. PICK g \in Gated : ledger' = [gate |-> g, failures |-> rt.failures,
                                        cooldown |-> rt.cooldown, run |-> rt.run]
      BY <1>10, <2>3 DEF SaveLedger
    <3>2. g \in BOOLEAN
      BY <3>1 DEF Gated
    <3>3. module # NoContract
      BY <1>10, <2>3 DEF SaveLedger, Ledgered
    <3>4. ledger' \in Ledgers
      BY <1>2, <3>1, <3>2 DEF Ledgers, States
    <3> QED
      BY <1>1, <1>2, <2>1, <3>3, <3>4 DEF StateInv, SavedInv, LedgerInv
  <2> QED
    BY <2>2, <2>3
<1> QED
  BY <1>4, <1>5, <1>6, <1>7, <1>8, <1>9, <1>10 DEF Runner

LEMMA GuestState ==
    ASSUME Bounds, StateInv, Guest
    PROVE  StateInv'
<1>1. UNCHANGED <<module, Declared, runs, ledger>>
  BY DEF Guest, ReportOutcome, PublishArtifact, RequestFails, RegisterManifest, SaveEntries, Sleep, Announce,
         Awake, MayCall, worldVars, diskVars, Declared
<1>2. /\ Ours(rt, Declared, runs) /\ rt \in States /\ rt.contract \in Declared
      /\ runs \in Nat /\ now \in 0..MaxTime /\ now \in Nat
  BY Constants DEF StateInv, Ours, Bounds
<1>3. ASSUME saved' \in {saved, rt}, Ours(rt', Declared, runs)
      PROVE  StateInv'
  BY <1>1, <1>2, <1>3 DEF StateInv, SavedInv, LedgerInv
<1>4. ASSUME NEW o \in Reports, ReportOutcome(o)
      PROVE  StateInv'
  BY <1>2, <1>3, <1>4, ReportOurs DEF ReportOutcome
<1>5. CASE PublishArtifact
  BY <1>2, <1>3, <1>5, SmallOurs DEF PublishArtifact
<1>6. CASE RequestFails
  BY <1>2, <1>3, <1>6, SmallOurs DEF RequestFails
<1>7. CASE SaveEntries
  BY <1>2, <1>3, <1>7 DEF SaveEntries, sharedVars
<1>10. ASSUME NEW c \in Manifests, RegisterManifest(c)
       PROVE  StateInv'
  <2> DEFINE t == [rt EXCEPT !.contract = c]
  <2>1. c \in Contracts /\ c \in Declared
    BY Constants DEF Declared
  <2>2. t \in States /\ t.contract = c
    BY <1>2, <2>1 DEF States
  <2>3. Ours(t, Declared, runs)
    BY <1>2, <2>1, <2>2, SameStory DEF States
  <2> QED
    BY <1>3, <1>10, <2>3 DEF RegisterManifest
<1>8. ASSUME NEW d \in Naps, Sleep(d) \/ Announce(d)
      PROVE  StateInv'
  <2>1. now + d \in Nat
    BY <1>2, Constants
  <2>2. Ours(Slept(rt, now + d), Declared, runs)
    BY <1>2, <2>1, SmallOurs
  <2> QED
    BY <1>3, <1>8, <2>2 DEF Sleep, Announce
<1>9. CASE Awake
  BY <1>2, <1>3, <1>9 DEF Awake, sharedVars, diskVars
<1> QED
  BY <1>4, <1>5, <1>6, <1>7, <1>8, <1>9, <1>10 DEF Guest

LEMMA CommandState ==
    ASSUME Bounds, StateInv, Command \/ Kill \/ Tick
    PROVE  StateInv'
<1>1. UNCHANGED <<module, Declared, runs, ledger, saved>>
  BY DEF Command, Poll, Watch, WriteRecord, Exit, RecordFailure, Kill, Tick, worldVars, diskVars,
         World, Declared
<1>2. rt' = rt \/ rt' = Fresh
  BY DEF Command, Poll, Watch, WriteRecord, Exit, RecordFailure, Kill, Tick, Gone, sharedVars
<1>3. Ours(rt', Declared, runs)
  BY <1>2, FreshOurs DEF StateInv, Declared
<1> QED
  BY <1>1, <1>3 DEF StateInv, SavedInv, LedgerInv

LEMMA StateStep == Bounds /\ StateInv /\ [Next]_vars => StateInv'
<1>1. StateInv /\ UNCHANGED vars => StateInv'
  BY DEF vars, sharedVars, diskVars, worldVars, StateInv, SavedInv, LedgerInv, Declared
<1> QED
  BY <1>1, StartState, RunnerState, GuestState, CommandState DEF Next

-----------------------------------------------------------------------------
(* What the command finds and writes.  The runner and the module leave it. *)
CommandSame == UNCHANGED <<cli, found, unwritten, exit, record, runs>>

LEMMA OthersCommand ==
    ASSUME Runner \/ Guest \/ Tick \/ UNCHANGED vars
    PROVE  CommandSame
<1>1. CASE Runner
  BY <1>1 DEF Runner, InitFails, Describe, EntryBegins, EntryEnds, Corrupt, SaveState, SaveLedger,
              World, worldVars, cliVars, diskVars, CommandSame
<1>2. CASE Guest
  BY <1>2 DEF Guest, MayCall, ReportOutcome, PublishArtifact, RequestFails, RegisterManifest, SaveEntries,
              Sleep, Announce, Awake, worldVars, cliVars, diskVars, CommandSame
<1>3. CASE Tick
  BY <1>3 DEF Tick, cliVars, diskVars, CommandSame
<1>4. CASE UNCHANGED vars
  BY <1>4 DEF vars, cliVars, diskVars, worldVars, CommandSame
<1> QED
  BY <1>1, <1>2, <1>3, <1>4

LEMMA FoundStep == Bounds /\ StateInv /\ FoundInv /\ [Next]_vars => FoundInv'
<1> SUFFICES ASSUME Bounds, StateInv, FoundInv, [Next]_vars, cli' \in {"record", "exit"}
             PROVE  Sealed(found'.outcome, found'.decision, found'.action, Declared') /\ found'.run = runs'
  BY DEF FoundInv
<1>1. module' = module /\ Declared' = Declared
  BY Worldly
<1>2. CASE Poll
  <2>1. rt.outcome # NoOutcome
    BY <1>2 DEF Poll
  <2>2. runs' = runs /\ found' = [outcome |-> rt.outcome, decision |-> rt.decision,
                                  action |-> rt.action, described |-> Ledgered, run |-> rt.run]
    BY <1>2, <2>1 DEF Poll, worldVars
  <2>3. Sealed(rt.outcome, rt.decision, rt.action, Declared) /\ rt.run = runs
    BY <2>1 DEF StateInv, Ours, Story, Sealed
  <2> QED
    BY <1>1, <2>2, <2>3
<1>3. ASSUME UNCHANGED <<found, runs>>, cli \in {"record", "exit"}
      PROVE  Sealed(found'.outcome, found'.decision, found'.action, Declared') /\ found'.run = runs'
  <2>1. Sealed(found.outcome, found.decision, found.action, Declared) /\ found.run = runs
    BY <1>3 DEF FoundInv
  <2> QED
    BY <1>1, <1>3, <2>1
<1>4. CASE WriteRecord
  BY <1>3, <1>4 DEF WriteRecord, World
<1>5. CASE Runner \/ Guest \/ Tick \/ UNCHANGED vars
  BY <1>3, <1>5, OthersCommand DEF CommandSame
<1>6. CASE (\E gap \in Naps \cup {0} : Start(gap)) \/ Watch \/ Exit \/ RecordFailure \/ Kill
  BY <1>6 DEF Start, Watch, Exit, RecordFailure, Kill, Gone
<1> QED
  BY <1>2, <1>4, <1>5, <1>6 DEF Next, Command

LEMMA ErrorSealed ==
    ASSUME NEW c \in ErrorCategory, NEW D
    PROVE  /\ ErrorOutcome(c) \in Outcomes
           /\ Sealed(ErrorOutcome(c), Decision(ErrorOutcome(c), "host"), NoAction, D)
<1>1. ErrorOutcome(c) \in Outcomes /\ ErrorOutcome(c).status # "operator"
  BY SynthesizedType DEF ErrorOutcome, Status, HostReason, ErrorCategory
<1> QED
  BY <1>1 DEF Sealed, Rescue

LEMMA RecordFields ==
    ASSUME NEW o, NEW d, NEW a, NEW n
    PROVE  /\ Record(o, d, a, n).outcome = o /\ Record(o, d, a, n).decision = d
           /\ Record(o, d, a, n).action = a /\ Record(o, d, a, n).run = n
           /\ Record(o, d, a, n).exit = ExitCode(o)
  BY DEF Record

LEMMA ErrorRecordFields ==
    ASSUME NEW c, NEW n
    PROVE  /\ ErrorRecord(c, n).outcome = ErrorOutcome(c)
           /\ ErrorRecord(c, n).decision = Decision(ErrorOutcome(c), "host")
           /\ ErrorRecord(c, n).action = NoAction /\ ErrorRecord(c, n).run = n
  BY RecordFields DEF ErrorRecord

LEMMA RecordStep == Bounds /\ FoundInv /\ RecordInv /\ [Next]_vars => RecordInv'
<1> SUFFICES ASSUME Bounds, FoundInv, RecordInv, [Next]_vars
             PROVE  RecordInv'
  OBVIOUS
<1>1. module' = module /\ Declared' = Declared
  BY Worldly
<1>2. ASSUME record' = record, cli' # "exit" \/ (cli = "exit" /\ UNCHANGED <<found, runs>>)
      PROVE  RecordInv'
  BY <1>1, <1>2 DEF RecordInv
<1>3. CASE WriteRecord
  <2>1. cli = "record" /\ UNCHANGED <<found, runs>>
    BY <1>3 DEF WriteRecord, World
  <2>2. Sealed(found.outcome, found.decision, found.action, Declared)
    BY <2>1 DEF FoundInv
  <2>3. CASE record' = Result
    <3>1. Sealed(record'.outcome, record'.decision, record'.action, Declared')
      BY <1>1, <2>2, <2>3, RecordFields DEF Result
    <3> QED
      BY <2>1, <2>3, <3>1 DEF RecordInv, Result
  <2>4. CASE cli' = "fail" /\ record' = record
    BY <1>2, <2>4
  <2> QED
    BY <1>3, <2>3, <2>4 DEF WriteRecord, Written, NotWritten
<1>4. CASE RecordFailure
  <2>1. cli' = "off" /\ err \in ErrorCategory
    BY <1>4 DEF RecordFailure, Gone, Bounds
  <2>2. CASE record' = ErrorRecord(err, runs)
    BY <1>1, <2>1, <2>2, ErrorRecordFields, ErrorSealed DEF RecordInv
  <2>3. CASE record' = record
    BY <1>2, <2>1, <2>3
  <2> QED
    BY <1>4, <2>2, <2>3 DEF RecordFailure, Written, NotWritten
<1>5. CASE \E gap \in Naps \cup {0} : Start(gap)
  BY <1>5 DEF Start, RecordInv
<1>6. CASE Runner \/ Guest \/ Tick \/ UNCHANGED vars
  BY <1>2, <1>6, OthersCommand DEF CommandSame
<1>7. CASE Poll \/ Watch \/ Exit \/ Kill
  BY <1>2, <1>7 DEF Poll, Watch, Exit, Kill, Gone, diskVars
<1> QED
  BY <1>3, <1>4, <1>5, <1>6, <1>7 DEF Next, Command

(* Only the end of a process leaves the command off. *)
LEMMA RecordedStep ==
    Bounds /\ FoundInv /\ RecordInv /\ EveryRunIsRecorded /\ WrittenInv /\ [Next]_vars
        => EveryRunIsRecorded' /\ WrittenInv'
<1> SUFFICES ASSUME Bounds, FoundInv, RecordInv, EveryRunIsRecorded, WrittenInv, [Next]_vars
             PROVE  EveryRunIsRecorded' /\ WrittenInv'
  OBVIOUS
<1>1. CASE Exit
  <2>1. /\ record' = Record(found.outcome, found.decision, found.action, runs)
        /\ exit' = ExitFor(found.outcome) /\ runs' = runs /\ found.outcome \in Outcomes
        /\ unwritten' = FALSE /\ cli' = "off"
    BY <1>1 DEF Exit, Gone, diskVars, worldVars, RecordInv, FoundInv, Sealed, WrittenInv
  <2>2. /\ record'.run = runs' /\ record'.outcome = found.outcome
        /\ record'.exit = ExitCode(found.outcome)
    BY <2>1, RecordFields
  <2> QED
    BY <2>1, <2>2, ExitCodes DEF EveryRunIsRecorded, Borrowed, WrittenInv
<1>2. CASE RecordFailure
  <2>1. runs' = runs /\ err \in ErrorCategory /\ cli' = "off" /\ ~unwritten
    BY <1>2 DEF RecordFailure, Gone, World, Bounds, WrittenInv
  <2>2. CASE record' = ErrorRecord(err, runs) /\ exit' = CategoryExit(err) /\ unwritten' = unwritten
    <3>1. record'.run = runs' /\ record'.outcome = ErrorOutcome(err)
      BY <2>1, <2>2, ErrorRecordFields
    <3> QED
      BY <2>1, <2>2, <3>1 DEF EveryRunIsRecorded, WrittenInv
  <2>3. CASE exit' = CategoryExit("persistence_failure") /\ unwritten' = TRUE
    BY <2>1, <2>3 DEF EveryRunIsRecorded, WrittenInv, CategoryExit
  <2> QED
    BY <1>2, <2>2, <2>3 DEF RecordFailure, Written
<1>3. CASE Runner \/ Guest \/ Tick \/ UNCHANGED vars
  <2>1. CommandSame
    BY <1>3, OthersCommand
  <2> QED
    BY <2>1 DEF CommandSame, EveryRunIsRecorded, WrittenInv
<1>4. CASE Kill
  BY <1>4 DEF Kill, Gone, EveryRunIsRecorded, WrittenInv
<1>5. CASE (\E gap \in Naps \cup {0} : Start(gap)) \/ Poll \/ Watch \/ WriteRecord
  BY <1>5 DEF Start, Poll, Watch, WriteRecord, EveryRunIsRecorded, WrittenInv
<1> QED
  BY <1>1, <1>2, <1>3, <1>4, <1>5 DEF Next, Command

-----------------------------------------------------------------------------
(* The cooldown of the ledger: the runner waits for it unless a file failed. *)
LEMMA RetryStep == Bounds /\ StateInv /\ RetryInv /\ [Next]_vars => RetryInv'
<1> SUFFICES ASSUME Bounds, StateInv, RetryInv, [Next]_vars
             PROVE  RetryInv'
  OBVIOUS
<1>1. ASSUME stage' \notin {"cooldown", "entry"}
      PROVE  RetryInv'
  BY <1>1 DEF RetryInv, RetryWaits
<1>2. CASE Describe
  <2>1. PICK l \in {ledger, NoLedger} :
           (IF l = ledger THEN NoFault ELSE Fault) /\ (GateCloses(l) \/ GateOpens(l))
    BY <1>2 DEF Describe
  <2>2. ledger' = ledger
    BY <1>2 DEF Describe, diskVars
  <2>3. CASE GateCloses(l)
    BY <1>1, <2>3 DEF GateCloses
  <2>4. CASE GateOpens(l)
    <3>1. stage' = "cooldown" /\ wake' = Known(l).cooldown
      BY <2>4 DEF GateOpens
    <3>2. ASSUME faults' = 0, ledger # NoLedger
          PROVE  wake' = ledger.cooldown
      <4>1. faults \in Nat
        BY Constants DEF Bounds
      <4>2. l = ledger
        BY <2>1, <3>2, <4>1 DEF Fault
      <4>3. module # NoContract /\ rt \in States /\ module \in Contracts \cup {NoContract}
        BY <3>2, Constants DEF StateInv, LedgerInv, Ours, Bounds
      <4>4. Known(l).cooldown = ledger.cooldown
        BY <3>2, <4>2, <4>3 DEF Known, Applied, States
      <4> QED
        BY <3>1, <4>4
    <3> QED
      BY <2>2, <3>1, <3>2 DEF RetryInv, RetryWaits
  <2> QED
    BY <2>1, <2>3, <2>4
<1>3. CASE EntryBegins
  <2>1. stage = "cooldown" /\ stage' = "entry" /\ wake <= now /\ UNCHANGED <<ledger, now, faults>>
    BY <1>3 DEF EntryBegins, diskVars, worldVars
  <2> QED
    BY <2>1 DEF RetryInv, RetryWaits
<1>4. CASE Tick
  <2>1. now' = now + 1 /\ UNCHANGED <<stage, wake, ledger, faults>>
    BY <1>4 DEF Tick, runnerVars, diskVars
  <2>2. stage = "entry" /\ faults = 0 /\ ledger # NoLedger => ledger.cooldown <= now + 1
    <3>1. ledger # NoLedger => ledger.cooldown \in Int
      BY DEF StateInv, LedgerInv, Ledgers, Times, NoTime
    <3>2. now \in Int
      BY Constants DEF Bounds
    <3> QED
      BY <3>1, <3>2 DEF RetryInv, RetryWaits
  <2> QED
    BY <2>1, <2>2 DEF RetryInv, RetryWaits
<1>5. ASSUME UNCHANGED <<stage, now, ledger>>, stage = "cooldown" => wake' = wake,
             faults' = faults \/ Fault
      PROVE  RetryInv'
  <2>1. faults' = 0 => faults = 0
    BY <1>5, Constants DEF Fault, Bounds
  <2> QED
    BY <1>5, <2>1 DEF RetryInv, RetryWaits
<1>6. CASE Guest
  BY <1>5, <1>6 DEF Guest, MayCall, ReportOutcome, PublishArtifact, RequestFails, RegisterManifest, SaveEntries,
                    Sleep, Announce, Awake, diskVars, worldVars
<1>7. CASE Poll \/ Watch \/ WriteRecord
  BY <1>5, <1>7 DEF Poll, Watch, WriteRecord, runnerVars, diskVars, worldVars, World, NoFault,
                    Written, NotWritten
<1>8. CASE UNCHANGED vars
  BY <1>5, <1>8 DEF vars, runnerVars, diskVars, worldVars
<1>9. CASE (\E gap \in Naps \cup {0} : Start(gap)) \/ Exit \/ RecordFailure \/ Kill
  BY <1>1, <1>9 DEF Start, Exit, RecordFailure, Kill, Gone
<1>10. ASSUME NEW how \in Endings, InitFails(how) \/ EntryEnds(how)
       PROVE  RetryInv'
  BY <1>1, <1>10 DEF InitFails, Fails, EntryEnds
<1>11. CASE Corrupt \/ SaveState \/ SaveLedger
  BY <1>1, <1>11 DEF Corrupt, SaveState, SaveLedger
<1> QED
  BY <1>2, <1>3, <1>4, <1>6, <1>7, <1>8, <1>9, <1>10, <1>11 DEF Next, Runner, Command

-----------------------------------------------------------------------------
IInv == /\ Bounds /\ StateInv /\ FoundInv /\ RecordInv
        /\ EveryRunIsRecorded /\ WrittenInv /\ RetryInv

LEMMA InitInv == Init => IInv
<1> SUFFICES ASSUME Init PROVE IInv
  OBVIOUS
<1>1. /\ module \in Module /\ now = 0 /\ runs = 0 /\ faults = 0 /\ calls = 0
      /\ cli = "off" /\ stage = "off" /\ err = "none" /\ exit = 0 /\ budget = CommandDefault
      /\ unwritten = FALSE /\ wake = NoTime /\ deadline = NoTime /\ output = FALSE /\ rt = Fresh
  BY DEF Init
<1>4. 0 \in 0..MaxTime /\ 0 \in 0..MaxRuns /\ 0 \in 0..MaxEvents /\ CommandDefault \in Nat
  BY Constants
<1>5. NoTime \in Times
  BY DEF Times
<1>6. Bounds
  BY <1>1, <1>4, <1>5 DEF Bounds
<1>2. StateInv
  BY FreshOurs DEF Init, StateInv, SavedInv, LedgerInv, Declared
<1>3. FoundInv /\ RecordInv /\ EveryRunIsRecorded /\ WrittenInv /\ RetryInv
  BY DEF Init, FoundInv, RecordInv, EveryRunIsRecorded, WrittenInv, RetryInv, RetryWaits
<1> QED
  BY <1>6, <1>2, <1>3 DEF IInv

LEMMA InvStep == IInv /\ [Next]_vars => IInv'
  BY BoundsStep, StateStep, FoundStep, RecordStep, RecordedStep, RetryStep DEF IInv

LEMMA InvAlways == Spec => []IInv
  BY InitInv, InvStep, PTL DEF Spec

(* Every variable stays in its type, and the state the two threads share tells
   one story: an outcome comes with its decision, a rescue with its deadline. *)
THEOREM TypeCorrect == Spec => []TypeOK
<1>1. IInv => TypeOK
  <2> SUFFICES ASSUME IInv PROVE TypeOK
    OBVIOUS
  <2>1. Bounds /\ rt \in States /\ rt.contract \in Declared /\ Story(rt, Declared, runs)
    BY DEF IInv, StateInv, Ours
  <2>2. rt.phase \in Phase /\ rt.failures \in 0..MaxFailures
    BY <2>1 DEF States
  <2>3. rt.outcome # NoOutcome =>
           /\ rt.outcome \in Outcomes /\ rt.decision = Decision(rt.outcome, rt.by)
           /\ (rt.outcome.status = "operator") <=> rt.action # NoAction
    BY <2>1 DEF Story
  <2>4. rt.outcome # NoOutcome => (rt.outcome.status = "operator") = (rt.action # NoAction)
    BY <2>3
  <2> QED
    BY <2>1, <2>2, <2>3, <2>4 DEF Bounds, Story, TypeOK
<1> QED
  BY <1>1, InvAlways, PTL

(* poll_completion, load_runtime_state, reset_runtime_outcome_state: a completion
   is one of this run, never what an earlier run left in the state file, the
   ledger or the shared state. *)
THEOREM CompletionOwn == Spec => []CompletionIsOwn
<1>1. IInv => CompletionIsOwn
  BY DEF IInv, FoundInv, CompletionIsOwn
<1> QED
  BY <1>1, InvAlways, PTL

(* run_once, write_completion, record_failure: a run that ends by itself has left
   its own record, or exits with the code of a persistence failure; the exit code
   the record names is the one of the process, unless it tells of an error of the
   command or a reason code was borrowed. *)
THEOREM RunsRecorded == Spec => []EveryRunIsRecorded
<1>1. IInv => EveryRunIsRecorded
  BY DEF IInv
<1> QED
  BY <1>1, InvAlways, PTL

(* apply_to_runtime_state, wait_for_preflight_cooldown: an entry does not begin
   before the cooldown of the ledger is over, if no file fails. *)
THEOREM RetriesWait == Spec => []RetryWaits
<1>1. IInv => RetryWaits
  BY DEF IInv, RetryInv
<1> QED
  BY <1>1, InvAlways, PTL

(* A record whose window is over is explained as closed, at any time. *)
LEMMA ExpiredClosed ==
    ASSUME NEW r, NEW by, r.decision = Decision(r.outcome, by),
           NEW t, r.outcome.status = "operator", t > r.action.deadline
    PROVE  /\ Explained(r, t).status = r.action.expiry
           /\ Explained(r, t).decision.risk = "closed_safe"
<1>1. Expired(r, t)
  BY DEF Expired
<1>2. ExpiredDecision(r).risk = "closed_safe"
  BY DEF ExpiredDecision, Decision
<1> QED
  BY <1>1, <1>2 DEF Explained

(* resolve_operator_escalation, explain_analysis: a rescue that was asked for ends
   its window after a moment of the run, and whoever explains the record later is
   told that the attempt closed safely, as the outcome or else the contract in
   force says, whatever the module registers before, between and after. *)
THEOREM RescuesBounded == Spec => []RescueIsBounded
<1>1. IInv => RescueIsBounded
  <2> SUFFICES ASSUME IInv, record # NoRecord, record.outcome.status = "operator"
               PROVE  \E c \in Declared :
                        /\ Rescuable(record.outcome, c)
                        /\ record.action.deadline - Window(record.outcome, c) \in 0..MaxTime
                        /\ \A t \in 0..(3 * MaxTime) :
                              t > record.action.deadline =>
                                /\ Explained(record, t).status = OnExpiry(record.outcome, c)
                                /\ Explained(record, t).decision.risk = "closed_safe"
    BY DEF RescueIsBounded, OnExpiry
  <2>1. Sealed(record.outcome, record.decision, record.action, Declared)
    BY DEF IInv, RecordInv
  <2>2. PICK c \in Declared :
           /\ Rescuable(record.outcome, c)
           /\ record.action.deadline - Window(record.outcome, c) \in 0..MaxTime
           /\ record.action.expiry = OnExpiry(record.outcome, c)
    BY <2>1 DEF Sealed, Rescue
  <2>3. PICK by : record.decision = Decision(record.outcome, by)
    BY <2>1 DEF Sealed
  <2>4. ASSUME NEW t \in 0..(3 * MaxTime), t > record.action.deadline
        PROVE  /\ Explained(record, t).status = OnExpiry(record.outcome, c)
               /\ Explained(record, t).decision.risk = "closed_safe"
    BY <2>2, <2>3, <2>4, ExpiredClosed
  <2> QED
    BY <2>2, <2>4
<1> QED
  BY <1>1, InvAlways, PTL
=============================================================================
