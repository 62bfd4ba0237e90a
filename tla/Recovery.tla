------------------------------ MODULE Recovery ------------------------------
(***************************************************************************)
(* Managed recovery: when a task that makes no headway is given a changed  *)
(* approach, when it must ask for help and when it is blocked              *)
(* (core/recovery.py, core/recovery_runtime.py).  The host reports what it *)
(* observed - a handler's return, a refused repetition, a cut answer, an   *)
(* executed check - and the counters turn it into a decision that stands   *)
(* until it is consumed.  The runtime is rebuilt from its snapshot for     *)
(* every operation, so a restart of the process changes nothing here.      *)
(* Digests are model values.  Every observation carries the next sequence  *)
(* number, so steps is last_sequence too; where that reaches _MAX_COUNTER  *)
(* the task is blocked, and no counter gets past it.                       *)
(***************************************************************************)
EXTENDS RecoveryRules, FiniteSets

CONSTANTS
  Calls, Errors, Checks, Facts,   \* digests of what may be observed
  CutError,                       \* the error digest of a cut answer
  NoDigest,
  RepeatLimit,      \* repeat_call_limit and repeat_error_limit
  CheckLimit,       \* a check may fail this often: 2 in the code
  NoProgressLimit,  \* no_progress_limit
  PhaseBudget,      \* phase_step_budget
  MaxKeys,          \* _MAX_KEYS: digests of one kind on record
  MaxEvidence,      \* _MAX_EVIDENCE
  MaxCounter        \* _MAX_COUNTER: the last sequence number, 1 000 000

ASSUME DigestAssumption ==
  /\ CutError \in Errors
  /\ NoDigest \notin Calls \cup Errors \cup Checks \cup Facts
  /\ Checks \subseteq Facts      \* a passed check is evidence by its name
ASSUME LimitAssumption ==
  /\ RepeatLimit \in Nat \ {0, 1} /\ CheckLimit \in Nat \ {0, 1}
  /\ NoProgressLimit \in Nat \ {0} /\ PhaseBudget \in Nat \ {0}
  /\ MaxKeys \in Nat \ {0} /\ MaxEvidence \in Nat \ {0}
  /\ MaxCounter \in Nat
  /\ \A limit \in {RepeatLimit, NoProgressLimit, PhaseBudget} : limit <= MaxCounter

VARIABLES
  ctl,       \* the controller's state
  total,     \* total_interventions of the task
  pending,   \* the decision that has not been consumed, or NoDecision
  before,    \* recovery_before_stop: [ctl, total, pending]
  taken      \* history: interventions consumed

vars == <<ctl, total, pending, before, taken>>

NoDecision == [kind |-> "none", reason |-> "none", attempts |-> 0, at |-> 0]

Init ==
  /\ ctl = [status |-> "active", reason |-> "none", steps |-> 0, noProgress |-> 0,
            attempts |-> 0, help |-> 0,
            calls |-> [c \in Calls |-> 0], errors |-> [e \in Errors |-> 0],
            checks |-> [c \in Checks |-> 0], evidence |-> {}]
  /\ total = 0
  /\ pending = NoDecision
  /\ before = [ctl |-> ctl, total |-> 0, pending |-> NoDecision]
  /\ taken = 0

----------------------------------------------------------------------------
(* RecoveryController.observe.                                             *)

(* Mutant: a counter at its limit starts again.                            *)
CountAround(f, key, limit) ==
  IF key = NoDigest THEN f ELSE [f EXCEPT ![key] = IF @ < limit THEN @ + 1 ELSE 0]

Count(f, key, limit) ==
  IF key = NoDigest THEN f ELSE [f EXCEPT ![key] = IF @ < limit THEN @ + 1 ELSE limit]

OnRecord(f)    == {key \in DOMAIN f : f[key] > 0}
Crowded(f, key) == key # NoDigest /\ key \notin OnRecord(f) /\ Cardinality(OnRecord(f)) = MaxKeys
AtLimit(f, key, limit) == key # NoDigest /\ f[key] >= limit

IsNovel(fact) == fact # NoDigest /\ fact \notin ctl.evidence

(* The record after an observation, before a decision is drawn from it.    *)
(* New evidence refunds the attempts only within the budget and with no    *)
(* error and no failed check on record; a repeated call that brought new   *)
(* evidence does not count as a repetition.                                *)
Counted(o) ==
  LET novel   == IsNovel(o.fact)
      refunds == /\ novel /\ ctl.steps + 1 <= PhaseBudget
                 /\ OnRecord(ctl.checks) = {} /\ OnRecord(ctl.errors) = {}
      call    == IF novel THEN NoDigest ELSE o.call
      failed  == IF o.passed THEN NoDigest ELSE o.check
      calls   == IF refunds THEN [c \in Calls |-> 0] ELSE ctl.calls
      checks  == Count(ctl.checks, failed, CheckLimit)
  IN  [ctl EXCEPT
        !.steps      = @ + 1,
        !.noProgress = IF novel THEN 0 ELSE @ + 1,
        !.attempts   = IF refunds THEN 0 ELSE @,
        !.reason     = IF refunds THEN "none" ELSE @,
        !.evidence   = IF novel THEN @ \cup {o.fact} ELSE @,
        !.calls      = Count(calls, call, RepeatLimit),
        !.errors     = Count(@, o.error, RepeatLimit),
        !.checks     = IF o.passed THEN [checks EXCEPT ![o.check] = 0] ELSE checks]

AtLastSequence == ctl.steps + 1 = MaxCounter

OutOfCapacity(o) ==
  \/ AtLastSequence
  \/ IsNovel(o.fact) /\ Cardinality(ctl.evidence) = MaxEvidence
  \/ ~IsNovel(o.fact) /\ Crowded(ctl.calls, o.call)
  \/ Crowded(ctl.errors, o.error)
  \/ ~o.passed /\ Crowded(ctl.checks, o.check)

(* What is on the record by the time that is found out: the last sequence  *)
(* number before anything is counted, new evidence before the call.        *)
Overfull(o) ==
  LET uncounted == AtLastSequence \/ IsNovel(o.fact)
  IN  [ctl EXCEPT
        !.steps      = @ + 1,
        !.noProgress = IF uncounted THEN @ ELSE @ + 1,
        !.calls      = IF uncounted \/ Crowded(@, o.call) THEN @
                        ELSE Count(@, o.call, RepeatLimit)]

(* The first signal that holds, in the code's order.                       *)
ReasonOf(o, c) ==
  IF      c.steps > PhaseBudget                                     THEN "phase_budget"
  ELSE IF o.cut                                                     THEN "generation_repetition"
  ELSE IF ~o.passed /\ AtLimit(c.checks, o.check, CheckLimit)       THEN "repeated_check"
  ELSE IF AtLimit(c.errors, o.error, RepeatLimit)                   THEN "repeated_error"
  ELSE IF ~IsNovel(o.fact) /\ AtLimit(c.calls, o.call, RepeatLimit) THEN "repeated_call"
  ELSE IF c.noProgress >= NoProgressLimit                           THEN "no_progress"
  ELSE "none"

(* RecoveryRuntime.observe: a recover that the task-wide total no longer   *)
(* covers becomes a request for help, or a block.                          *)
Pend(kind, c, t) == [kind |-> kind, reason |-> c.reason, attempts |-> t, at |-> c.steps]

Continue(c) == ctl' = c /\ UNCHANGED <<total, pending>>

(* Mutant: the controller's attempts are the only budget.                  *)
RecoverRefunded(c) ==
  LET next == [c EXCEPT !.attempts = @ + 1]
  IN  /\ c.attempts < MaxAttempts
      /\ ctl' = next
      /\ total' = total + 1
      /\ pending' = Pend("recover", next, total + 1)

Recover(c) ==
  LET next == [c EXCEPT !.attempts = @ + 1]
  IN  /\ c.attempts < MaxAttempts /\ total < MaxAttempts
      /\ ctl' = next
      /\ total' = total + 1
      /\ pending' = Pend("recover", next, total + 1)

(* Mutant: the attempts are left as they are.                              *)
AskOrBlockEarly(c) ==
  LET helped == c.help < HelpLimit
      next   == [c EXCEPT !.help   = IF helped THEN @ + 1 ELSE @,
                          !.status = IF helped THEN "needs_help" ELSE "blocked"]
  IN  /\ ~(c.attempts < MaxAttempts /\ total < MaxAttempts)
      /\ ctl' = next
      /\ pending' = Pend(next.status, next, total)
      /\ UNCHANGED total

AskOrBlock(c) ==
  LET helped == c.help < HelpLimit
      next   == [c EXCEPT !.attempts = MaxAttempts,
                          !.help     = IF helped THEN @ + 1 ELSE @,
                          !.status   = IF helped THEN "needs_help" ELSE "blocked"]
  IN  /\ ~(c.attempts < MaxAttempts /\ total < MaxAttempts)
      /\ ctl' = next
      /\ pending' = Pend(next.status, next, total)
      /\ UNCHANGED total

(* Mutant: a full record ends the task as if it were stuck.                *)
BlockStuck(c) ==
  LET next == [c EXCEPT !.status = "blocked", !.reason = "no_progress"]
  IN  ctl' = next /\ pending' = Pend("blocked", next, total) /\ UNCHANGED total

BlockCapacity(c) ==
  LET next == [c EXCEPT !.status = "blocked", !.reason = "tracking_capacity"]
  IN  ctl' = next /\ pending' = Pend("blocked", next, total) /\ UNCHANGED total

Observe(o) ==
  LET c == Counted(o)
      reason == ReasonOf(o, c)
      noted  == [c EXCEPT !.reason = reason]
  IN  /\ pending = NoDecision
      /\ IF OutOfCapacity(o)
         THEN BlockCapacity(Overfull(o))
         ELSE IF reason = "none" THEN Continue(c)
              ELSE Recover(noted) \/ AskOrBlock(noted)
      /\ UNCHANGED <<before, taken>>

----------------------------------------------------------------------------
(* What the coordinator reports (core/task_checkpoints.py).                *)

Nothing == [call |-> NoDigest, error |-> NoDigest, fact |-> NoDigest,
            check |-> NoDigest, passed |-> FALSE, cut |-> FALSE]

(* finish_action: a handler returned, with an error, with evidence, or     *)
(* with neither; observe_guard_refusal reports the last.                   *)
HandlerReturned ==
  \E call \in Calls :
    \/ Observe([Nothing EXCEPT !.call = call])
    \/ \E error \in Errors \ {CutError} : Observe([Nothing EXCEPT !.call = call, !.error = error])
    \/ \E fact \in Facts \ Checks : Observe([Nothing EXCEPT !.call = call, !.fact = fact])

(* observe_generation_cut                                                  *)
AnswerCut == Observe([Nothing EXCEPT !.error = CutError, !.cut = TRUE])

(* execute_check                                                           *)
CheckExecuted ==
  \E name \in Checks :
    \/ Observe([Nothing EXCEPT !.check = name])
    \/ Observe([Nothing EXCEPT !.check = name, !.passed = TRUE, !.fact = name])

Saved == [ctl |-> ctl, total |-> total, pending |-> pending]

(* stop(): Stop overrules every decision and keeps what it overruled.      *)
Stop ==
  LET next == [ctl EXCEPT !.status = "stopped", !.reason = "stopped"]
  IN  /\ pending.kind # "stopped"
      /\ before' = Saved
      /\ ctl' = next
      /\ pending' = Pend("stopped", next, total)
      /\ UNCHANGED <<total, taken>>

(* resume_stopped: the owner goes on from where the Stop came.             *)
ResumeStopped ==
  /\ pending.kind = "stopped"
  /\ ctl' = before.ctl /\ total' = before.total /\ pending' = before.pending
  /\ UNCHANGED <<before, taken>>

(* prepare_recovery_intervention                                           *)
ConsumeIntervention ==
  /\ pending.kind = "recover"
  /\ pending' = NoDecision
  /\ taken' = taken + 1
  /\ UNCHANGED <<ctl, total, before>>

(* record_observation_failure: a result could not be kept.                 *)
BlockTracking ==
  /\ pending.kind \in {"none", "recover"}
  /\ BlockCapacity(ctl)
  /\ UNCHANGED <<before, taken>>

Next ==
  \/ HandlerReturned
  \/ AnswerCut
  \/ CheckExecuted
  \/ Stop
  \/ ResumeStopped
  \/ ConsumeIntervention
  \/ BlockTracking

Spec == Init /\ [][Next]_vars

----------------------------------------------------------------------------
(* The run's snapshot as the rules see it.                                 *)
ReasonKind(reason) ==
  CASE reason = "none" -> "none" [] reason = "stopped" -> "stopped"
    [] reason = "tracking_capacity" -> "capacity" [] OTHER -> "stuck"

Abstract(s) ==
  [status |-> s.ctl.status, reason |-> ReasonKind(s.ctl.reason), attempts |-> s.ctl.attempts,
   help |-> s.ctl.help, total |-> s.total, pending |-> s.pending.kind]

CounterLimits ==
  /\ ctl.steps <= MaxCounter
  /\ ctl.calls  \in [Calls -> 0..RepeatLimit]
  /\ ctl.errors \in [Errors -> 0..RepeatLimit]
  /\ ctl.checks \in [Checks -> 0..CheckLimit]
  /\ \A f \in {ctl.calls, ctl.errors, ctl.checks} : Cardinality(OnRecord(f)) <= MaxKeys
  /\ ctl.evidence \subseteq Facts /\ Cardinality(ctl.evidence) <= MaxEvidence

(* SAFETY: whatever was observed, decided, stopped and resumed, the saved  *)
(* snapshot - and the one kept for after a Stop - passes the checks both   *)
(* loaders make, so no legal history makes a run impossible to open again. *)
SnapshotReloads ==
  /\ CounterLimits
  /\ ctl.noProgress <= ctl.steps
  /\ \A s \in {Saved, before} :
       /\ Loads(Abstract(s))
       /\ s.pending # NoDecision =>
            /\ s.pending.reason = s.ctl.reason
            /\ s.pending.attempts = s.total
            /\ s.pending.at = s.ctl.steps

(* SAFETY: a task that gets nowhere is cut, and one that keeps finding     *)
(* something new is cut by its budget: neither new evidence nor a Stop and *)
(* resume buys observations past the phase budget, a longer run without    *)
(* evidence, or more changed-approach turns, than max_recovery_attempts    *)
(* allows for the whole task.                                              *)
BudgetsHold ==
  /\ ctl.steps <= PhaseBudget + MaxAttempts + 1
  /\ ctl.noProgress <= NoProgressLimit + MaxAttempts
  /\ taken <= MaxAttempts

(* SAFETY: progress does not hide debt.  No error is taken off the record, *)
(* and a failed check only once that same check has passed.               *)
DebtStays ==
  [][/\ \A e \in Errors : ctl'.errors[e] >= ctl.errors[e]
     /\ \A c \in Checks : ctl'.checks[c] >= ctl.checks[c] \/ c \in ctl'.evidence]_vars

(* REFINEMENT: every step changes the snapshot as RecoveryRules allows;    *)
(* ManagedTask relies on the rules alone.                                  *)
FollowsRules ==
  [][Abstract(Saved)' \in {Abstract(Saved)} \cup Steps(Abstract(Saved), Abstract(before))]_vars
=============================================================================
