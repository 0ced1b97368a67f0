----------------------------- MODULE RetryGate -----------------------------
(***************************************************************************)
(* The mission ledger (src/mission_ledger.rs) and the repeat-failure gate  *)
(* that the runner (src/controller/runner.rs) derives from it.             *)
(*                                                                         *)
(* Every attempt reads the ledger file of its module once, right after     *)
(* describe(), decides from that copy whether the gate closes the attempt, *)
(* and on its way out writes a whole new record computed from that same    *)
(* copy.  Nothing locks the file in between: a detached runner of an       *)
(* earlier attempt, another daemon mission or another process may save in  *)
(* the meantime, and a process may end before its runner gets to save.     *)
(***************************************************************************)
EXTENDS Naturals

CONSTANTS
    Runner,       \* runner threads that may be alive at the same time
    Fingerprint,  \* digests of module, params and declared environment
    Reason,       \* reason codes of failing outcomes
    Limit,        \* assurance.same_reason_retry_limit
    MaxCount      \* u32::MAX, where same_reason_streak saturates

Published == "published"                       \* an outcome that met the objective
ChangedConditions == "changed_conditions_required"
None == "none"

ASSUME LimitAssumption == /\ Limit \in Nat \ {0}
                          /\ MaxCount \in Nat
                          /\ Limit <= MaxCount
ASSUME ReasonAssumption == /\ Reason \cap {Published, ChangedConditions, None} = {}
                           /\ None \notin Fingerprint

Outcome == Reason \cup {Published, ChangedConditions}

(* The part of RepeatFailureGateRecord and MissionLedgerRecord that decides
   about retries.  A missing file behaves as the record EmptyLedger. *)
Gate == [reason : Outcome \cup {None}, fp : Fingerprint \cup {None}]
NoGate == [reason |-> None, fp |-> None]
Ledger == [last : Outcome \cup {None}, fp : Fingerprint \cup {None},
           streak : 0..MaxCount, gate : Gate]
EmptyLedger == [last |-> None, fp |-> None, streak |-> 0, gate |-> NoGate]

VARIABLES
    ledger,    \* the file state_dir/mission-ledger/<logical_id>.<hash>.json
    pc,        \* where each runner stands in run()
    fp,        \* describe_state.input_fingerprint
    override,  \* override_retry_gate
    prior,     \* describe_state.prior_ledger
    outcome,   \* runtime_state.last_outcome
    \* what the history variables remember of the failures in the ledger
    tail,      \* the latest run of identical, undisturbed failures
    evidence,  \* failures ever recorded, per fingerprint and reason
    asked      \* fingerprints whose module itself asked for changed conditions

run == <<pc, fp, override, prior, outcome>>
history == <<tail, evidence, asked>>
vars == <<ledger, run, history>>

----------------------------------------------------------------------------
(* Mutants, each a slip the operator after it could have been written with:
   a counter that does not saturate, a gate lost when a blocked attempt is
   saved, a streak that forgets to compare the inputs, an off-by-one. *)
UnboundedCount(n) == n + 1
DroppedGate(p, f) == NoGate
StreakOnReasonOnly(p, f, o) ==
    IF p.last = o THEN (IF p.streak < MaxCount THEN p.streak + 1 ELSE p.streak) ELSE 1
TrippedOneLate(s, f, o) == IF s > Limit THEN [reason |-> o, fp |-> f] ELSE NoGate

Saturated(n) == IF n < MaxCount THEN n + 1 ELSE n

GateActive(l, f) == l.gate.fp = f

(* ledger_retry_state: the record an attempt with outcome o on inputs f
   leaves behind when it had read the record p. *)
KeptGate(p, f) ==
    IF p.gate # NoGate THEN p.gate ELSE [reason |-> p.last, fp |-> f]

Streak(p, f, o) ==
    IF p.last = o /\ p.fp = f THEN Saturated(p.streak) ELSE 1

Tripped(s, f, o) == IF s >= Limit THEN [reason |-> o, fp |-> f] ELSE NoGate

NextLedger(p, f, o) ==
    CASE o = Published ->
            [last |-> o, fp |-> f, streak |-> 0, gate |-> NoGate]
      [] o = ChangedConditions ->
            [last |-> o, fp |-> f, streak |-> p.streak, gate |-> KeptGate(p, f)]
      [] OTHER ->
            [last |-> o, fp |-> f, streak |-> Streak(p, f, o),
             gate |-> Tripped(Streak(p, f, o), f, o)]

----------------------------------------------------------------------------
Init ==
    /\ ledger = EmptyLedger
    /\ pc = [r \in Runner |-> "idle"]
    /\ fp = [r \in Runner |-> None]
    /\ override = [r \in Runner |-> FALSE]
    /\ prior = [r \in Runner |-> EmptyLedger]
    /\ outcome = [r \in Runner |-> None]
    /\ tail = [reason |-> None, fp |-> None, n |-> 0]
    /\ evidence = [f \in Fingerprint |-> [o \in Reason |-> 0]]
    /\ asked = {}

Idle(r) ==
    /\ pc' = [pc EXCEPT ![r] = "idle"]
    /\ fp' = [fp EXCEPT ![r] = None]
    /\ override' = [override EXCEPT ![r] = FALSE]
    /\ prior' = [prior EXCEPT ![r] = EmptyLedger]
    /\ outcome' = [outcome EXCEPT ![r] = None]

(* describe_run_context: read the ledger.  An unreadable or undecodable file
   is swallowed (.ok().flatten()) and read as no ledger. *)
Describe(r, f, o) ==
    /\ pc[r] = "idle"
    /\ pc' = [pc EXCEPT ![r] = "described"]
    /\ fp' = [fp EXCEPT ![r] = f]
    /\ override' = [override EXCEPT ![r] = o]
    /\ \E l \in {ledger, EmptyLedger} : prior' = [prior EXCEPT ![r] = l]
    /\ UNCHANGED <<ledger, outcome, history>>

(* apply_repeat_failure_gate_if_needed, when the gate closes the attempt. *)
Block(r) ==
    /\ pc[r] = "described"
    /\ ~override[r]
    /\ GateActive(prior[r], fp[r])
    /\ pc' = [pc EXCEPT ![r] = "blocked"]
    /\ outcome' = [outcome EXCEPT ![r] = ChangedConditions]
    /\ UNCHANGED <<ledger, fp, override, prior, history>>

(* ... and when it lets the attempt call the module's entry point. *)
Enter(r) ==
    /\ pc[r] = "described"
    /\ override[r] \/ ~GateActive(prior[r], fp[r])
    /\ pc' = [pc EXCEPT ![r] = "running"]
    /\ UNCHANGED <<ledger, fp, override, prior, outcome, history>>

(* The entry point returns: outcome o is the module's last report or, when it
   reported nothing, what ensure_terminal_outcome synthesizes. *)
Return(r, o) ==
    /\ pc[r] = "running"
    /\ pc' = [pc EXCEPT ![r] = "closing"]
    /\ outcome' = [outcome EXCEPT ![r] = o]
    /\ UNCHANGED <<ledger, fp, override, prior, history>>

(* What the history variables make of a save by runner r. *)
Undisturbed(r) == ledger = prior[r]

NextTail(r) ==
    LET o == outcome[r]
    IN  CASE pc[r] = "blocked" /\ Undisturbed(r) -> tail
          [] pc[r] = "closing" /\ o \in Reason ->
                [reason |-> o, fp |-> fp[r],
                 n |-> IF /\ Undisturbed(r)
                          /\ ~override[r]
                          /\ tail.reason = o /\ tail.fp = fp[r]
                       THEN tail.n + 1 ELSE 1]
          [] OTHER -> [tail EXCEPT !.n = 0]

NextEvidence(r) ==
    IF outcome[r] \in Reason
    THEN [evidence EXCEPT ![fp[r]][outcome[r]] = IF @ < Limit THEN @ + 1 ELSE @]
    ELSE evidence

(* persist_runtime_and_ledger, which calls mission_ledger::save. *)
Persist(r) ==
    /\ pc[r] \in {"blocked", "closing"}
    /\ ledger' = NextLedger(prior[r], fp[r], outcome[r])
    /\ tail' = NextTail(r)
    /\ evidence' = NextEvidence(r)
    /\ asked' = IF pc[r] = "closing" /\ outcome[r] = ChangedConditions
                THEN asked \cup {fp[r]} ELSE asked
    /\ Idle(r)

(* The runner ends without saving: the process exits first, the host import
   panicked (finalize_run skips the save), the guest never comes back, or the
   write fails (only a diagnostic). *)
Lose(r) ==
    /\ pc[r] # "idle"
    /\ Idle(r)
    /\ UNCHANGED <<ledger, history>>

Next ==
    \E r \in Runner :
        \/ \E f \in Fingerprint, o \in BOOLEAN : Describe(r, f, o)
        \/ Block(r)
        \/ Enter(r)
        \/ \E o \in Outcome : Return(r, o)
        \/ Persist(r)
        \/ Lose(r)

Spec == Init /\ [][Next]_vars

----------------------------------------------------------------------------
(* Every variable stays in its type, the saturating streak included. *)
TypeOK ==
    /\ ledger \in Ledger
    /\ pc \in [Runner -> {"idle", "described", "blocked", "running", "closing"}]
    /\ fp \in [Runner -> Fingerprint \cup {None}]
    /\ override \in [Runner -> BOOLEAN]
    /\ prior \in [Runner -> Ledger]
    /\ outcome \in [Runner -> Outcome \cup {None}]
    /\ tail \in [reason : Reason \cup {None}, fp : Fingerprint \cup {None}, n : Nat]
    /\ evidence \in [Fingerprint -> [Reason -> 0..Limit]]
    /\ asked \in SUBSET Fingerprint

(* "Repeated identical failures with unchanged inputs trip a repeat-failure
   gate": failures that follow one another in the ledger with one reason and
   one fingerprint, none of them overridden and each saved over the very
   record it had read, never exceed the limit, whatever blocked attempts lie
   between them. *)
RepeatBound == tail.n <= Limit

(* A gate is never closed on thin evidence: whoever holds a copy of it, the
   failure it names was recorded at least Limit times under the fingerprint
   it blocks, or the module itself asked for changed conditions there. *)
Copies == {ledger} \cup {prior[r] : r \in Runner}
GateEvidence ==
    \A l \in Copies :
        \/ l.gate = NoGate
        \/ l.gate.fp \in asked
        \/ l.gate.reason \in Reason /\ evidence[l.gate.fp][l.gate.reason] >= Limit

(* A closed gate opens for its fingerprint only through an attempt that was
   overridden, ran with other inputs, or had read a ledger that has been
   replaced since: no automatic attempt with unchanged inputs opens it. *)
Lifted(f) == GateActive(ledger, f) /\ ~GateActive(ledger', f)
Saved(r) == pc[r] \in {"blocked", "closing"} /\ pc'[r] = "idle"
GateHolds ==
    [][\A f \in Fingerprint : Lifted(f) =>
          \E r \in Runner :
             Saved(r) /\ (override[r] \/ fp[r] # f \/ prior[r] # ledger)]_vars

(* docs/mission-assurance.md: "--override-retry-gate exists for one deliberate
   manual retry".  An overridden attempt that fails once more for the reason
   and the inputs the gate was closed for leaves the gate closed, so that the
   next automatic attempt is blocked again. *)
OverrideIsOneRetry ==
    [][\A r \in Runner :
          /\ Saved(r)
          /\ override[r]
          /\ prior[r] = ledger
          /\ GateActive(ledger, fp[r])
          /\ fp[r] \notin asked
          /\ outcome[r] = ledger.gate.reason
          /\ ledger' # ledger
          => GateActive(ledger', fp[r])]_vars
============================================================================
