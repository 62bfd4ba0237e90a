--------------------------- MODULE RecoveryRules ---------------------------
(***************************************************************************)
(* What the recovery of one managed task may decide: the decisions of      *)
(* core/recovery.py and the task-wide budget of core/recovery_runtime.py,  *)
(* without the counters that lead to a decision.  A snapshot is what the   *)
(* run's ledger keeps under managed["recovery"].  Recovery.tla has the     *)
(* counters and keeps to these rules; ManagedTask.tla builds on them.      *)
(***************************************************************************)
EXTENDS Naturals

CONSTANTS
  MaxAttempts,   \* max_recovery_attempts: interventions of one task
  HelpLimit      \* help_request_limit: help requests of one task

ASSUME PolicyAssumption == MaxAttempts \in 0..2 /\ HelpLimit \in 0..16

(* A decision stands until it is consumed or overruled; "stuck" stands for *)
(* every signal of the controller, "capacity" for a full or lost record.   *)
Decisions == {"recover", "needs_help", "blocked", "stopped"}
Reasons   == {"none", "stuck", "capacity", "stopped"}

Snapshots == [status   : {"active", "needs_help", "blocked", "stopped"},
              reason   : Reasons,
              attempts : 0..MaxAttempts,
              help     : 0..HelpLimit,
              total    : 0..MaxAttempts,
              pending  : Decisions \cup {"none"}]

FreshSnapshot == [status |-> "active", reason |-> "none", attempts |-> 0,
                  help |-> 0, total |-> 0, pending |-> "none"]

----------------------------------------------------------------------------
(* What the two loaders accept: RecoveryController.from_snapshot and the   *)
(* checks of RecoveryRuntime.__init__.  A snapshot they refuse makes the   *)
(* run unusable for good.                                                  *)

ControllerLoads(r) ==
  /\ r.status = "stopped" <=> r.reason = "stopped"
  /\ r.status \in {"needs_help", "blocked"} => r.reason # "none"
  /\ r.status = "needs_help" => r.help > 0
  /\ r.reason = "capacity" => r.status = "blocked"
  /\ r.status = "active" => r.help = 0
  /\ r.status \in {"needs_help", "blocked"} /\ r.reason # "capacity"
       => /\ r.attempts = MaxAttempts
          /\ r.status = "blocked" => r.help = HelpLimit

RuntimeLoads(r) ==
  /\ r.attempts <= r.total /\ r.total <= MaxAttempts
  /\ r.pending \in {"none", "recover"} <=> r.status = "active"
  /\ r.pending \notin {"none", "recover"} => r.pending = r.status

Loads(r) == ControllerLoads(r) /\ RuntimeLoads(r)

----------------------------------------------------------------------------
(* RecoveryRuntime.observe, for each kind of observation.                  *)

(* Evidence that is new to the task, with no error or failed check on the  *)
(* record, gives the controller its attempts back - never the task-wide    *)
(* total.                                                                  *)
Cleared(r) == [r EXCEPT !.attempts = 0, !.reason = "none"]

Terminal(r, status, reason) ==
  [r EXCEPT !.status = status, !.reason = reason, !.pending = status]

(* Out of attempts: help once it can be reserved, otherwise blocked.       *)
Exhausted(r) ==
  LET full == [r EXCEPT !.attempts = MaxAttempts]
  IN  IF r.help < HelpLimit
      THEN Terminal([full EXCEPT !.help = @ + 1], "needs_help", "stuck")
      ELSE Terminal(full, "blocked", "stuck")

Signal(r) ==
  IF r.attempts < MaxAttempts /\ r.total < MaxAttempts
  THEN [r EXCEPT !.attempts = @ + 1, !.total = @ + 1,
                 !.reason = "stuck", !.pending = "recover"]
  ELSE Exhausted(r)

AfterObserving(r) ==
  {r, Cleared(r), Signal(r), Terminal(r, "blocked", "capacity")}

AfterStop(r) == Terminal(r, "stopped", "stopped")

AfterBlock(r) ==
  IF r.pending \in {"none", "recover"} THEN Terminal(r, "blocked", "capacity") ELSE r

AfterIntervention(r) == [r EXCEPT !.pending = "none"]

(* One change of the saved snapshot: an observation while nothing is       *)
(* pending, Stop, a lost observation, the turn a pending intervention      *)
(* grants, or the snapshot of before the Stop put back by the owner.       *)
Steps(r, before) ==
  (IF r.pending = "none" THEN AfterObserving(r) ELSE {})
  \cup {AfterStop(r), AfterBlock(r)}
  \cup (IF r.pending = "recover" THEN {AfterIntervention(r)} ELSE {})
  \cup (IF r.pending = "stopped" THEN {before} ELSE {})
=============================================================================
