---------------------------- MODULE OutcomeState ----------------------------
(***************************************************************************)
(* The runtime state of one mission: what outcome reports, failures, sleeps*)
(* and artifacts make of it, the decision the host takes on an outcome, and*)
(* the record that tells of it.  Pure functions of the state; Attempt says *)
(* who applies them and when.                                              *)
(*                                                                         *)
(* Times and durations share one unit.  Reason codes are abstracted to     *)
(* those the host treats apart, and messages are left out.                 *)
(***************************************************************************)
EXTENDS Integers, FiniteSetsExt

CONSTANTS
    Reason,        \* reason codes a module uses of its own
    DefaultRetry,  \* assurance.default_retry_after_ms
    MaxFailures    \* where the failure counter saturates (u32::MAX)

ASSUME OutcomeAssumption == DefaultRetry \in Nat /\ MaxFailures \in Nat \ {0}

NoTime == -1
Times == Nat \cup {NoTime}
Status == {"published", "retryable", "terminal", "operator"}

(* ErrorCategory, of the errors that can end the run command; those with the same
   exit code as another stand behind it.  What has no category is unexpected. *)
ErrorCategory == {"unexpected", "params_invalid", "state_corruption",
                  "persistence_failure", "timeout"}
HostReason == {"acquisition_timeout", "changed_conditions_required", "runtime_error",
               "published_output", "missing_outcome_report", "mission_protocol_error"}
              \cup ErrorCategory
Expiry == {"retryable", "terminal"}

NoOutcome == [status |-> "none"]
NoAction == [deadline |-> NoTime]
NoDecision == [policy |-> "none"]
NoContract == [persisted |-> FALSE]
NoStrategy == [kind |-> "none"]

(* What a module declares of itself: MissionModuleDescribe.  Its logical id, which
   names its ledger, is the one it describes itself with or another. *)
Strategies ==
    {NoStrategy}
    \cup [kind : {"fixed"}, base : Nat]
    \cup [kind : {"exponential", "jittered"}, base : Nat, max : Nat]
Contracts ==
    [id : {"own", "other"}, persisted : BOOLEAN, budget : Nat, window : Times,
     expiry : Expiry, strategy : Strategies]

(* MissionOutcome; window and expiry tighten the rescue contract. *)
Outcomes == [status : Status, reason : Reason \cup HostReason, retry : Times,
             window : Times, expiry : Expiry \cup {"none"}]

(* An outcome the host makes up itself. *)
Synthesized(status, reason) ==
    [status |-> status, reason |-> reason, retry |-> NoTime, window |-> NoTime,
     expiry |-> "none"]

ProtocolError == Synthesized("terminal", "mission_protocol_error")
ChangedConditions == Synthesized("retryable", "changed_conditions_required")

Fresh == [phase |-> "idle", failures |-> 0, cooldown |-> NoTime,
          outcome |-> NoOutcome, by |-> "none", decision |-> NoDecision,
          action |-> NoAction, contract |-> NoContract, run |-> 0]

----------------------------------------------------------------------------
(* compute_strategy_backoff_ms.  The factor saturates at 2^64, far above the 32
   bits of the maximum it is cut to. *)
Backoff(strategy, failures) ==
    CASE strategy.kind = "fixed" -> strategy.base
      [] strategy.kind = "exponential" ->
            Min({strategy.base * 2^Max({failures - 1, 0}), strategy.max})
      [] strategy.kind = "jittered" -> Max({strategy.base - strategy.max, 0})

(* resolved_retry_after_ms, for a retryable failure. *)
RetryAfter(o, contract, failures) ==
    CASE o.reason = "changed_conditions_required" -> NoTime
      [] o.reason # "changed_conditions_required" /\ o.retry # NoTime -> o.retry
      [] o.reason # "changed_conditions_required" /\ o.retry = NoTime ->
            IF \/ o.reason = "acquisition_timeout"
               \/ contract = NoContract \/ contract.strategy = NoStrategy
            THEN DefaultRetry
            ELSE Backoff(contract.strategy, failures)

(* resolve_operator_escalation: what the outcome says goes before what the
   module declares, but without a declared fallback there is no rescue. *)
Window(o, contract) == IF o.window # NoTime THEN o.window ELSE contract.window
Rescuable(o, contract) ==
    contract # NoContract /\ contract.window # NoTime /\ Window(o, contract) # 0
DeclaredExpiry(o, contract) == contract.expiry       \* mutant: the outcome's is ignored
OnExpiry(o, contract) == IF o.expiry # "none" THEN o.expiry ELSE contract.expiry
Escalation(o, contract, now) ==
    [deadline |-> now + Window(o, contract), expiry |-> OnExpiry(o, contract)]

(* category_for_outcome *)
Category(o) ==
    CASE o.reason = "acquisition_timeout" -> "timeout"
      [] o.reason # "acquisition_timeout" -> o.status

(* host_decision_for_outcome *)
Risk(o) ==
    CASE o.status = "published" -> "nominal"
      [] o.status = "retryable" ->
            IF o.reason = "changed_conditions_required"
            THEN "awaiting_changed_conditions" ELSE "degraded"
      [] o.status = "terminal" -> "closed_safe"
      [] o.status = "operator" -> "awaiting_operator"

Policy(o) ==
    CASE o.status = "published" -> "none"
      [] o.status = "retryable" ->
            IF o.reason = "changed_conditions_required"
            THEN "manual_only" ELSE "after_cooldown"
      [] o.status = "terminal" -> "manual_only"
      [] o.status = "operator" -> "operator_rescue"

Decision(o, by) ==
    [category |-> Category(o), synthesized |-> by = "host", risk |-> Risk(o),
     policy |-> Policy(o)]

----------------------------------------------------------------------------
(* update_mission_outcome_state, of an outcome that is no rescue or has one. *)
Failed(s) == [s EXCEPT !.phase = "failed", !.failures = Min({@ + 1, MaxFailures})]
Settled(s, o, by, run) ==
    [s EXCEPT !.outcome = o, !.by = by, !.decision = Decision(o, by), !.run = run]

Update(s, o, by, now, run) ==
    LET t == [s EXCEPT !.cooldown = NoTime, !.action = NoAction]
        f == Failed(t)
        after == RetryAfter(o, s.contract, f.failures)
        wake == IF after = NoTime THEN NoTime ELSE now + after
    IN  CASE o.status = "published" ->
                Settled([t EXCEPT !.phase = "publishing", !.failures = 0], o, by, run)
          [] o.status = "retryable" ->
                Settled([f EXCEPT !.cooldown = wake], o, by, run)
          [] o.status = "terminal" -> Settled(f, o, by, run)
          [] o.status = "operator" ->
                Settled([f EXCEPT !.action = Escalation(o, s.contract, now)], o, by, run)

(* mission_outcome_report; a report that cannot be decoded or asks for a rescue
   that was never declared becomes a failure of the protocol. *)
Report(s, o, now, run) ==
    IF o \in Outcomes /\ (o.status = "operator" => Rescuable(o, s.contract))
    THEN Update(s, o, "module", now, run)
    ELSE Update(s, ProtocolError, "host", now, run)

(* ensure_terminal_outcome: how the entry ended tells what is missing. *)
Missing(how, published) ==
    CASE how = "timeout" -> Synthesized("retryable", "acquisition_timeout")
      [] how \in {"error", "panic"} -> Synthesized("terminal", "runtime_error")
      [] how = "ok" /\ published -> Synthesized("published", "published_output")
      [] how = "ok" /\ ~published -> Synthesized("terminal", "missing_outcome_report")

Ensured(s, how, published, now, run) ==
    IF s.outcome # NoOutcome THEN s
    ELSE Update(s, Missing(how, published), "host", now, run)

(* is_valid_phase_transition, update_phase_state: an invalid change is only
   told, the phase stays. *)
Phase == {"idle", "fetching", "parsing", "publishing", "cooling_down", "failed"}
ValidPhase(p, q) ==
    \/ p = q
    \/ q \in {"failed", "cooling_down"}
    \/ p \in {"idle", "cooling_down", "failed"} /\ q = "fetching"
    \/ p \in {"idle", "fetching", "parsing"} /\ q = "publishing"
    \/ p \in {"cooling_down", "failed", "publishing"} /\ q = "idle"
    \/ p = "fetching" /\ q = "parsing"
InPhase(s, p) == IF ValidPhase(s.phase, p) THEN [s EXCEPT !.phase = p] ELSE s

(* artifact_publish of a published output *)
Published(s) == InPhase([s EXCEPT !.failures = 0], "publishing")

(* update_failure_state, for a network request that failed *)
NetworkFailed(s) == Failed(s)

(* update_sleep_state *)
Slept(s, wake) == [s EXCEPT !.phase = "cooling_down", !.cooldown = wake]

(* reset_runtime_outcome_state, and what a start resets besides.  A start keeps
   the statistics, the cooldown and the contract of the state file. *)
WithoutReport(s) ==                  \* mutant: what was asked of an operator stays
    [s EXCEPT !.outcome = NoOutcome, !.by = "none", !.decision = NoDecision, !.run = 0]
WithoutOutcome(s) ==
    [s EXCEPT !.outcome = NoOutcome, !.by = "none", !.decision = NoDecision,
              !.action = NoAction, !.run = 0]
Reset(s) == [WithoutOutcome(s) EXCEPT !.phase = "idle"]

----------------------------------------------------------------------------
(* The record file: host_decision_record and exit_code_for_outcome ... *)
ExitOf(status) ==
    CASE status = "published" -> 0
      [] status = "retryable" -> 75
      [] status = "terminal" -> 70
      [] status = "operator" -> 65
ExitCode(o) == IF o.reason = "acquisition_timeout" THEN 124 ELSE ExitOf(o.status)

Record(o, decision, action, run) ==
    [outcome |-> o, action |-> action, decision |-> decision, exit |-> ExitCode(o),
     run |-> run]

(* write_runtime_error, of an error of category c ... *)
ErrorOutcome(c) ==
    IF c = "timeout" THEN Synthesized("retryable", "acquisition_timeout")
                     ELSE Synthesized("terminal", c)
ErrorRecord(c, run) ==
    Record(ErrorOutcome(c), Decision(ErrorOutcome(c), "host"), NoAction, run)

(* ... and the exit code the process ends with. *)
CategoryExit(c) ==
    CASE c = "unexpected" -> 1
      [] c = "params_invalid" -> 64
      [] c = "state_corruption" -> 65
      [] c = "persistence_failure" -> 74
      [] c = "timeout" -> 124

(* ... and what explain makes of it later: operator_action_analysis. *)
Expired(record, now) ==
    record.outcome.status = "operator" /\ now > record.action.deadline

ExpiredDecision(record) ==
    LET status == record.action.expiry
    IN  [record.decision EXCEPT
            !.category = status, !.risk = "closed_safe",
            !.policy = IF status = "retryable" THEN "after_cooldown" ELSE "manual_only"]

Explained(record, now) ==
    IF Expired(record, now)
    THEN [status |-> record.action.expiry, decision |-> ExpiredDecision(record),
          exit |-> ExitOf(record.action.expiry)]
    ELSE [status |-> record.outcome.status, decision |-> record.decision,
          exit |-> record.exit]
=============================================================================
