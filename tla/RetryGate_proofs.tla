-------------------------- MODULE RetryGate_proofs --------------------------
(***************************************************************************)
(* Proofs about RetryGate for every set of runners, inputs and reasons and *)
(* every limit: the bound on repeated failures, the evidence behind a gate *)
(* and the gate's persistence.                                             *)
(***************************************************************************)
EXTENDS RetryGate, TLAPS

USE DEF Published, ChangedConditions, None

(* What each runner knows between its steps: it holds real inputs, a blocked
   one was blocked by the copy it read, and one that entered the guest was
   overridden or its copy did not block it. *)
RunnerInv ==
    \A r \in Runner :
        /\ pc[r] # "idle" => fp[r] \in Fingerprint
        /\ pc[r] = "blocked" => /\ outcome[r] = ChangedConditions
                                /\ ~override[r]
                                /\ GateActive(prior[r], fp[r])
        /\ pc[r] = "closing" => outcome[r] \in Outcome
        /\ pc[r] \in {"running", "closing"} =>
                override[r] \/ ~GateActive(prior[r], fp[r])

(* A well-formed record: a gate names real inputs, and after a failure the
   record has exactly the gate its streak calls for. *)
WellFormed(l) ==
    /\ l.gate = NoGate \/ l.gate.fp \in Fingerprint
    /\ l.last \in Reason =>
          /\ l.fp \in Fingerprint
          /\ l.gate = Tripped(l.streak, l.fp, l.last)

LedgerInv == WellFormed(ledger) /\ \A r \in Runner : WellFormed(prior[r])

(* The tail of undisturbed identical failures is either still counted by the
   ledger's streak or already behind a gate for the same inputs. *)
TailInv ==
    tail.n > 0 =>
        /\ tail.fp \in Fingerprint
        /\ \/ /\ tail.reason \in Reason
              /\ ledger.last = tail.reason
              /\ ledger.fp = tail.fp
              /\ tail.n <= ledger.streak
           \/ GateActive(ledger, tail.fp)

IInv == TypeOK /\ RunnerInv /\ LedgerInv /\ TailInv /\ RepeatBound

-----------------------------------------------------------------------------
(* The saturating counter stays in its width and never falls. *)
LEMMA SaturatedType ==
    ASSUME NEW n \in 0..MaxCount
    PROVE  /\ Saturated(n) \in 1..MaxCount
           /\ Saturated(n) = n + 1 \/ Saturated(n) = MaxCount
  BY LimitAssumption DEF Saturated

(* A save leaves a record of the right type. *)
LEMMA NextLedgerType ==
    ASSUME NEW p \in Ledger, NEW f \in Fingerprint, NEW o \in Outcome
    PROVE  NextLedger(p, f, o) \in Ledger
<1>1. CASE o = Published
  BY <1>1, LimitAssumption DEF NextLedger, Ledger, Gate, NoGate, Outcome
<1>2. CASE o = ChangedConditions
  <2>1. KeptGate(p, f) \in Gate
    BY DEF KeptGate, Gate, Ledger
  <2>2. QED
    BY <1>2, <2>1 DEF NextLedger, Ledger
<1>3. CASE o \in Reason
  <2>1. Streak(p, f, o) \in 0..MaxCount
    BY SaturatedType, LimitAssumption DEF Streak, Ledger
  <2>2. Tripped(Streak(p, f, o), f, o) \in Gate
    BY <1>3 DEF Tripped, Gate, NoGate, Outcome
  <2>3. o # Published /\ o # ChangedConditions
    BY <1>3, ReasonAssumption
  <2>4. QED
    BY <2>1, <2>2, <2>3 DEF NextLedger, Ledger
<1>4. QED
  BY <1>1, <1>2, <1>3 DEF Outcome

(* A save leaves a well-formed record when it had read one. *)
LEMMA NextLedgerWellFormed ==
    ASSUME NEW p \in Ledger, NEW f \in Fingerprint, NEW o \in Outcome,
           WellFormed(p)
    PROVE  WellFormed(NextLedger(p, f, o))
<1>1. CASE o = Published
  BY <1>1, ReasonAssumption DEF NextLedger, WellFormed
<1>2. CASE o = ChangedConditions
  BY <1>2, ReasonAssumption DEF NextLedger, WellFormed, KeptGate, NoGate
<1>3. CASE o \in Reason
  BY <1>3, ReasonAssumption DEF NextLedger, WellFormed, Tripped
<1>4. QED
  BY <1>1, <1>2, <1>3 DEF Outcome

-----------------------------------------------------------------------------
LEMMA InitIInv == Init => IInv
<1> SUFFICES ASSUME Init PROVE IInv
  OBVIOUS
<1> USE LimitAssumption, ReasonAssumption DEF Init
<1>1. EmptyLedger \in Ledger
  BY DEF EmptyLedger, Ledger, Gate, NoGate
<1>2. TypeOK
  BY <1>1 DEF TypeOK
<1>3. RunnerInv
  BY DEF RunnerInv
<1>4. LedgerInv
  BY DEF LedgerInv, WellFormed, EmptyLedger
<1>5. TailInv /\ RepeatBound
  BY DEF TailInv, RepeatBound
<1>6. QED
  BY <1>2, <1>3, <1>4, <1>5 DEF IInv

(* Steps that leave the ledger and the history alone and touch one runner. *)
LEMMA QuietStep ==
    ASSUME IInv, NEW r \in Runner,
           \/ \E f \in Fingerprint, o \in BOOLEAN : Describe(r, f, o)
           \/ Block(r)
           \/ Enter(r)
           \/ \E o \in Outcome : Return(r, o)
           \/ Lose(r)
    PROVE  IInv'
<1> USE DEF IInv, history
<1>1. EmptyLedger \in Ledger /\ WellFormed(EmptyLedger)
  BY LimitAssumption, ReasonAssumption
  DEF EmptyLedger, Ledger, Gate, NoGate, WellFormed
<1>2. UNCHANGED <<ledger, tail, evidence, asked>>
  BY DEF Describe, Block, Enter, Return, Lose
<1>3. TypeOK'
  <2>1. ASSUME NEW f \in Fingerprint, NEW o \in BOOLEAN, Describe(r, f, o)
        PROVE  TypeOK'
    BY <1>1, <2>1 DEF TypeOK, Describe
  <2>2. CASE Block(r)
    BY <2>2 DEF TypeOK, Block, Outcome
  <2>3. CASE Enter(r)
    BY <2>3 DEF TypeOK, Enter
  <2>4. ASSUME NEW o \in Outcome, Return(r, o) PROVE TypeOK'
    BY <2>4 DEF TypeOK, Return
  <2>5. CASE Lose(r)
    BY <1>1, <2>5 DEF TypeOK, Lose, Idle
  <2>6. QED
    BY <2>1, <2>2, <2>3, <2>4, <2>5
<1>4. RunnerInv'
  BY DEF TypeOK, RunnerInv, Describe, Block, Enter, Return, Lose, Idle
<1>5. LedgerInv'
  <2>1. \A s \in Runner : prior'[s] \in {prior[s], ledger, EmptyLedger}
    BY DEF TypeOK, Describe, Block, Enter, Return, Lose, Idle
  <2>2. QED
    BY <1>1, <1>2, <2>1 DEF LedgerInv
<1>6. TailInv' /\ RepeatBound'
  BY <1>2 DEF TailInv, RepeatBound
<1>7. QED
  BY <1>3, <1>4, <1>5, <1>6

LEMMA PersistType ==
    ASSUME TypeOK, RunnerInv, NEW r \in Runner, Persist(r)
    PROVE  TypeOK'
<1>1. EmptyLedger \in Ledger
  BY LimitAssumption DEF EmptyLedger, Ledger, Gate, NoGate
<1>2. fp[r] \in Fingerprint /\ outcome[r] \in Outcome
  BY DEF RunnerInv, Persist, Outcome
<1>3. ledger' \in Ledger
  BY <1>2, NextLedgerType DEF TypeOK, Persist
<1>4. tail' \in [reason : Reason \cup {None}, fp : Fingerprint \cup {None}, n : Nat]
  BY <1>2 DEF TypeOK, Persist, NextTail
<1>5. evidence' \in [Fingerprint -> [Reason -> 0..Limit]]
  BY <1>2, LimitAssumption DEF TypeOK, Persist, NextEvidence
<1>6. asked' \in SUBSET Fingerprint
  BY <1>2 DEF TypeOK, Persist
<1>7. QED
  BY <1>1, <1>3, <1>4, <1>5, <1>6 DEF TypeOK, Persist, Idle

(* The save: where the bound is really at stake. *)
LEMMA PersistTail ==
    ASSUME IInv, NEW r \in Runner, Persist(r)
    PROVE  TailInv' /\ RepeatBound'
<1> DEFINE p == prior[r]
           f == fp[r]
           o == outcome[r]
<1> USE DEF IInv
<1>1. /\ f \in Fingerprint /\ o \in Outcome /\ p \in Ledger
      /\ ledger' = NextLedger(p, f, o) /\ tail' = NextTail(r)
      /\ tail.n \in Nat /\ tail.n <= Limit
  BY DEF RunnerInv, Persist, TypeOK, RepeatBound, Outcome
<1>2. CASE pc[r] = "blocked" /\ Undisturbed(r)
  <2>1. tail' = tail /\ o = ChangedConditions /\ GateActive(ledger, f) /\ p = ledger
    BY <1>1, <1>2 DEF NextTail, RunnerInv, Undisturbed
  <2>2. ledger.gate # NoGate
    BY <1>1, <2>1, ReasonAssumption DEF GateActive, NoGate
  <2>3. ledger'.gate = ledger.gate
    BY <1>1, <2>1, <2>2 DEF NextLedger, KeptGate
  <2>4. ASSUME tail.n > 0 PROVE GateActive(ledger, tail.fp)
    <3>1. CASE GateActive(ledger, tail.fp)
      BY <3>1
    <3>2. CASE ledger.last \in Reason /\ ledger.fp = tail.fp
      BY <1>1, <2>1, <2>2, <3>2 DEF LedgerInv, WellFormed, Tripped, GateActive
    <3>3. QED
      BY <2>4, <3>1, <3>2 DEF TailInv
  <2>5. QED
    BY <1>1, <2>1, <2>3, <2>4 DEF TailInv, RepeatBound, GateActive
<1>3. CASE pc[r] = "closing" /\ o \in Reason
  <2>1. /\ o # Published /\ o # ChangedConditions
        /\ Streak(p, f, o) \in 1..MaxCount
    BY <1>1, <1>3, SaturatedType, LimitAssumption, ReasonAssumption
    DEF Streak, Ledger
  <2>2. /\ ledger'.last = o /\ ledger'.fp = f
        /\ ledger'.streak = Streak(p, f, o)
    BY <1>1, <2>1 DEF NextLedger
  <2>3. CASE /\ Undisturbed(r) /\ ~override[r]
             /\ tail.reason = o /\ tail.fp = f /\ tail.n > 0
    <3>1. p = ledger /\ ~GateActive(ledger, f)
      BY <1>3, <2>3 DEF RunnerInv, Undisturbed
    <3>2. ledger.last = o /\ ledger.fp = f /\ tail.n <= ledger.streak
      BY <2>3, <3>1 DEF TailInv
    <3>3. ledger.streak < Limit
      BY <1>1, <1>3, <3>1, <3>2, LimitAssumption
      DEF LedgerInv, WellFormed, Tripped, GateActive, Ledger
    <3>4. Streak(p, f, o) = ledger.streak + 1
      BY <1>1, <3>1, <3>2, <3>3, LimitAssumption DEF Streak, Saturated, Ledger
    <3>5. tail' = [reason |-> o, fp |-> f, n |-> tail.n + 1]
      BY <1>1, <1>3, <2>3 DEF NextTail
    <3>6. QED
      BY <1>1, <1>3, <2>2, <3>1, <3>2, <3>3, <3>4, <3>5, LimitAssumption
      DEF TailInv, RepeatBound, Ledger
  <2>4. CASE ~(/\ Undisturbed(r) /\ ~override[r]
               /\ tail.reason = o /\ tail.fp = f /\ tail.n > 0)
    <3>1. tail' = [reason |-> o, fp |-> f, n |-> 1]
      BY <1>1, <1>3, <2>4 DEF NextTail, TypeOK
    <3>2. QED
      BY <1>1, <1>3, <2>1, <2>2, <3>1, LimitAssumption DEF TailInv, RepeatBound
  <2>5. QED
    BY <2>3, <2>4
<1>4. CASE ~(pc[r] = "blocked" /\ Undisturbed(r)) /\ ~(pc[r] = "closing" /\ o \in Reason)
  <2>1. tail'.n = 0
    BY <1>1, <1>4 DEF NextTail, TypeOK
  <2>2. QED
    BY <2>1, LimitAssumption DEF TailInv, RepeatBound
<1>5. QED
  BY <1>2, <1>3, <1>4

LEMMA PersistRest ==
    ASSUME IInv, NEW r \in Runner, Persist(r)
    PROVE  RunnerInv' /\ LedgerInv'
<1> USE DEF IInv
<1>1. /\ fp[r] \in Fingerprint /\ outcome[r] \in Outcome /\ prior[r] \in Ledger
      /\ ledger' = NextLedger(prior[r], fp[r], outcome[r])
  BY DEF RunnerInv, Persist, TypeOK, Outcome
<1>2. WellFormed(ledger')
  BY <1>1, NextLedgerWellFormed DEF LedgerInv
<1>3. WellFormed(EmptyLedger)
  BY ReasonAssumption DEF EmptyLedger, WellFormed
<1>4. \A s \in Runner : prior'[s] \in {prior[s], EmptyLedger}
  BY DEF Persist, Idle, TypeOK
<1>5. LedgerInv'
  BY <1>2, <1>3, <1>4 DEF LedgerInv
<1>6. RunnerInv'
  BY DEF RunnerInv, Persist, Idle, TypeOK
<1>7. QED
  BY <1>5, <1>6

LEMMA StepIInv == IInv /\ [Next]_vars => IInv'
<1> SUFFICES ASSUME IInv, [Next]_vars PROVE IInv'
  OBVIOUS
<1>1. CASE UNCHANGED vars
  BY <1>1 DEF IInv, TypeOK, RunnerInv, LedgerInv, TailInv, RepeatBound,
              vars, run, history
<1>2. ASSUME NEW r \in Runner, Persist(r) PROVE IInv'
  <2>1. TypeOK'
    BY <1>2, PersistType DEF IInv
  <2>2. QED
    BY <1>2, <2>1, PersistTail, PersistRest DEF IInv
<1>3. QED
  BY <1>1, <1>2, QuietStep DEF Next

-----------------------------------------------------------------------------
(* The inductive invariant holds of every behaviour of the ledger. *)
THEOREM Inductive == Spec => []IInv
<1>1. QED
  BY InitIInv, StepIInv, PTL DEF Spec

(* Type correctness: the streak never leaves u32 and no runner computes a
   record out of inputs it does not have. *)
THEOREM TypeCorrect == Spec => []TypeOK
<1>1. IInv => TypeOK
  BY DEF IInv
<1>2. QED
  BY <1>1, Inductive, PTL

(* However many runners share the ledger and however long it lives, failures
   that repeat undisturbed never exceed the retry limit. *)
THEOREM RepeatBounded == Spec => []RepeatBound
<1>1. IInv => RepeatBound
  BY DEF IInv
<1>2. QED
  BY <1>1, Inductive, PTL

-----------------------------------------------------------------------------
(* No automatic attempt with unchanged inputs ever opens a gate. *)
THEOREM GatePersists == Spec => GateHolds
<1> DEFINE A == \A f \in Fingerprint : Lifted(f) =>
                  \E r \in Runner :
                     Saved(r) /\ (override[r] \/ fp[r] # f \/ prior[r] # ledger)
<1>1. IInv /\ [Next]_vars => [A]_vars
  <2> SUFFICES ASSUME IInv, Next, NEW f \in Fingerprint, Lifted(f)
               PROVE  \E r \in Runner :
                        Saved(r) /\ (override[r] \/ fp[r] # f \/ prior[r] # ledger)
    OBVIOUS
  <2>1. ledger' # ledger
    BY DEF Lifted
  <2>2. PICK r \in Runner : Persist(r)
    BY <2>1 DEF Next, Describe, Block, Enter, Return, Lose
  <2>3. Saved(r)
    BY <2>2 DEF Saved, Persist, Idle, IInv, TypeOK
  <2>4. SUFFICES ASSUME ~override[r], fp[r] = f, prior[r] = ledger
                 PROVE  FALSE
    BY <2>3
  <2>5. pc[r] = "blocked" /\ outcome[r] = ChangedConditions
    BY <2>2, <2>4 DEF Persist, IInv, RunnerInv, Lifted
  <2>6. ledger.gate # NoGate
    BY ReasonAssumption DEF Lifted, GateActive, NoGate
  <2>7. ledger'.gate = ledger.gate
    BY <2>2, <2>4, <2>5, <2>6 DEF Persist, NextLedger, KeptGate
  <2>8. QED
    BY <2>7 DEF Lifted, GateActive
<1>2. QED
  BY <1>1, Inductive, PTL DEF Spec, GateHolds

-----------------------------------------------------------------------------
(* The streak of a record is backed by recorded failures, and so is its gate. *)
Backed(l) ==
    /\ l.last \in Reason =>
          \/ l.streak <= evidence[l.fp][l.last]
          \/ evidence[l.fp][l.last] >= Limit
    /\ \/ l.gate = NoGate
       \/ l.gate.fp \in asked
       \/ l.gate.reason \in Reason /\ evidence[l.gate.fp][l.gate.reason] >= Limit

EvidenceInv == Backed(ledger) /\ \A r \in Runner : Backed(prior[r])

(* Evidence only accumulates. *)
LEMMA EvidenceGrows ==
    ASSUME IInv, [Next]_vars, NEW f \in Fingerprint, NEW o \in Reason
    PROVE  evidence[f][o] <= evidence'[f][o] /\ asked \subseteq asked'
<1>1. ASSUME NEW r \in Runner, Persist(r)
      PROVE  evidence[f][o] <= evidence'[f][o] /\ asked \subseteq asked'
  BY <1>1, LimitAssumption
  DEF Persist, NextEvidence, IInv, TypeOK, RunnerInv
<1>2. CASE UNCHANGED <<evidence, asked>>
  BY <1>2, LimitAssumption DEF IInv, TypeOK
<1>3. QED
  BY <1>1, <1>2 DEF Next, Describe, Block, Enter, Return, Lose, vars, history

(* A copy that was backed stays backed. *)
LEMMA BackedStable ==
    ASSUME IInv, [Next]_vars, NEW l \in Ledger, WellFormed(l), Backed(l),
           TypeOK'
    PROVE  Backed(l)'
<1>1. ASSUME NEW f \in Fingerprint, NEW o \in Reason
      PROVE  /\ evidence[f][o] <= evidence'[f][o]
             /\ evidence[f][o] \in Nat /\ evidence'[f][o] \in Nat
  BY EvidenceGrows, LimitAssumption DEF IInv, TypeOK
<1>2. asked \subseteq asked'
  <2>1. ASSUME NEW r \in Runner, Persist(r) PROVE asked \subseteq asked'
    BY <2>1 DEF Persist
  <2>2. QED
    BY <2>1 DEF Next, Describe, Block, Enter, Return, Lose, vars, history
<1>3. (l.last \in Reason => \/ l.streak <= evidence[l.fp][l.last]
                            \/ evidence[l.fp][l.last] >= Limit)'
  BY <1>1, LimitAssumption DEF Backed, WellFormed, Ledger
<1>4. QED
  BY <1>1, <1>2, <1>3, LimitAssumption DEF Backed, WellFormed

(* The record a save leaves behind is backed as well. *)
LEMMA BackedSave ==
    ASSUME IInv, TypeOK', EvidenceInv, NEW r \in Runner, Persist(r)
    PROVE  Backed(ledger)'
<1> DEFINE p == prior[r]
           f == fp[r]
           o == outcome[r]
<1>1. /\ f \in Fingerprint /\ o \in Outcome /\ p \in Ledger
      /\ WellFormed(p) /\ Backed(p)
      /\ ledger' = NextLedger(p, f, o) /\ evidence' = NextEvidence(r)
      /\ evidence \in [Fingerprint -> [Reason -> 0..Limit]]
  BY DEF IInv, RunnerInv, LedgerInv, EvidenceInv, Persist, TypeOK, Outcome
<1>2. CASE o = Published
  BY <1>1, <1>2, ReasonAssumption DEF NextLedger, Backed
<1>3. CASE o = ChangedConditions
  <2>1. /\ ledger'.last = o /\ ledger'.gate = KeptGate(p, f)
        /\ evidence' = evidence /\ o \notin Reason
    BY <1>1, <1>3, ReasonAssumption DEF NextLedger, NextEvidence
  <2>2. asked \subseteq asked'
    BY DEF Persist
  <2>3. CASE p.gate # NoGate
    BY <1>1, <2>1, <2>2, <2>3 DEF Backed, KeptGate
  <2>4. CASE p.gate = NoGate
    <3>1. pc[r] = "closing"
      BY <1>1, <2>4, ReasonAssumption
      DEF Persist, IInv, RunnerInv, GateActive, NoGate
    <3>2. f \in asked'
      BY <1>3, <3>1 DEF Persist
    <3>3. QED
      BY <2>1, <2>4, <3>2 DEF Backed, KeptGate
  <2>5. QED
    BY <2>3, <2>4
<1>4. CASE o \in Reason
  <2>1. o # Published /\ o # ChangedConditions
    BY <1>4, ReasonAssumption
  <2>2. /\ ledger'.last = o /\ ledger'.fp = f
        /\ ledger'.streak = Streak(p, f, o)
        /\ ledger'.gate = Tripped(Streak(p, f, o), f, o)
    BY <1>1, <2>1 DEF NextLedger
  <2>3. evidence'[f][o] = IF evidence[f][o] < Limit THEN evidence[f][o] + 1
                                                   ELSE evidence[f][o]
    BY <1>1, <1>4 DEF NextEvidence
  <2>4. evidence[f][o] \in 0..Limit
    BY <1>1, <1>4
  <2>5. Streak(p, f, o) <= evidence'[f][o] \/ evidence'[f][o] >= Limit
    BY <1>1, <1>4, <2>3, <2>4, LimitAssumption
    DEF Streak, Saturated, Backed, Ledger
  <2>6. Streak(p, f, o) \in Nat
    BY <1>1, SaturatedType, LimitAssumption DEF Streak, Ledger
  <2>7. QED
    BY <1>4, <2>2, <2>3, <2>4, <2>5, <2>6, LimitAssumption DEF Backed, Tripped
<1>5. QED
  BY <1>1, <1>2, <1>3, <1>4 DEF Outcome

(* A gate is closed only on evidence, in every copy anybody holds of it. *)
THEOREM GateBacked == Spec => []GateEvidence
<1>1. Init => EvidenceInv
  BY ReasonAssumption DEF Init, EvidenceInv, Backed, EmptyLedger
<1>2. IInv /\ IInv' /\ EvidenceInv /\ [Next]_vars => EvidenceInv'
  <2> SUFFICES ASSUME IInv, IInv', EvidenceInv, [Next]_vars PROVE EvidenceInv'
    OBVIOUS
  <2>1. ASSUME NEW l \in Ledger, WellFormed(l), Backed(l) PROVE Backed(l)'
    BY <2>1, BackedStable DEF IInv
  <2>2. Backed(EmptyLedger)'
    BY ReasonAssumption DEF Backed, EmptyLedger
  <2>3. Backed(ledger)'
    <3>1. CASE ledger' = ledger
      <4>1. ledger \in Ledger /\ WellFormed(ledger) /\ Backed(ledger)
        BY DEF IInv, TypeOK, LedgerInv, EvidenceInv
      <4>2. QED
        BY <2>1, <3>1, <4>1 DEF Backed
    <3>2. CASE \E r \in Runner : Persist(r)
      BY <3>2, BackedSave DEF IInv
    <3>3. QED
      BY <3>1, <3>2 DEF Next, Describe, Block, Enter, Return, Lose, vars
  <2>4. ASSUME NEW r \in Runner PROVE Backed(prior[r])'
    <3>1. prior'[r] \in {prior[r], ledger, EmptyLedger}
      BY DEF Next, Describe, Block, Enter, Return, Lose, Persist, Idle,
             IInv, TypeOK, vars, run
    <3>2. ASSUME NEW l \in {prior[r], ledger}
          PROVE  l \in Ledger /\ WellFormed(l) /\ Backed(l)
      BY DEF IInv, TypeOK, LedgerInv, EvidenceInv
    <3>3. ASSUME NEW l \in {prior[r], ledger}, prior'[r] = l
          PROVE  Backed(prior[r])'
      BY <2>1, <3>2, <3>3 DEF Backed
    <3>4. QED
      BY <2>2, <3>1, <3>3 DEF Backed
  <2>5. QED
    BY <2>3, <2>4 DEF EvidenceInv
<1>3. EvidenceInv => GateEvidence
  BY DEF EvidenceInv, Backed, GateEvidence, Copies
<1>4. QED
  BY <1>1, <1>2, <1>3, Inductive, PTL DEF Spec
=============================================================================
