---------------------------- MODULE ManagedTask ----------------------------
(***************************************************************************)
(* One autonomous run with its managed task: the driver loop               *)
(* (core/loop.py) asks for turns, reviews the work and completes the task; *)
(* the coordinator (core/task_checkpoints.py) lets handlers in, keeps      *)
(* their receipts and the recovery decisions, and binds the completion to  *)
(* a review; the run's ledger (core/run_state.py) is all that survives the *)
(* process.  The SQLite task row is a projection of the ledger             *)
(* (memory/tasks.py), and the last step archives and resets the            *)
(* conversation (checked_task_boundary in backends/openai_compat.py).      *)
(*                                                                         *)
(* One step is what happens between two awaits, cut once more after every  *)
(* write of the ledger.  A write may be refused, may fail before or after  *)
(* its row is on the disk, may leave a part of a row, or may commit and    *)
(* raise all the same (the state.json snapshot that follows it).  The process may die    *)
(* between any two steps.                                                  *)
(*                                                                         *)
(* Left out: child delegations and the saved parent conversation, the      *)
(* assisted stages of a help request, and the phase runner.                *)
(***************************************************************************)
EXTENDS RecoveryRules, FiniteSets

CONSTANTS
  Actions,          \* handler calls, each by its action id
  MaxSteps,         \* max_iterations: turns of one invocation
  MaxInvocations,   \* bound: calls of run() for this task
  MaxFaults         \* bound: failing writes

VARIABLES
  ledger,   \* the state after the last complete row of ledger.jsonl
  torn,     \* a part of a row follows it: the run cannot be opened again
  row,      \* the task's row in SQLite: the checked receipt, or 0
  drv,      \* the driver: AutonomousLoop.run and its coordinator
  talk,     \* the conversation in the Engine's memory, beyond its head
  fate,     \* history: what became of each handler call, as the world knows it
  doubt,    \* history: a turn went out that nobody knows to have ended
  bounds    \* invocations and failing writes so far

vars == <<ledger, torn, row, drv, talk, fate, doubt, bounds>>

Talks    == {"head", "task", "later"}   \* later: what the owner said after the run
Outcomes == {"done", "halted", "need_input"}   \* halted: stopped, unverified, budget, error
Phases   == {"contract_needed", "contract_running", "ready", "worker_running", "review_pending"}

NoReceipt == [id |-> 0, revision |-> 0]
Running   == ledger.phase \in {"contract_running", "worker_running"}

(* A fresh coordinator, with nothing known to be wrong.                    *)
Driver(pc) == [pc |-> pc, accepting |-> TRUE, stopped |-> FALSE, failed |-> FALSE,
               dead |-> FALSE, note |-> FALSE, steps |-> 0, result |-> "done", acted |-> FALSE, mine |-> {}]

Init ==
  /\ ledger = [status |-> "running", phase |-> "contract_needed", uncertain |-> FALSE,
               managed |-> FALSE, unresolved |-> [a \in Actions |-> "none"],
               recent |-> FALSE, revision |-> 0, receipt |-> NoReceipt, completed |-> 0,
               boundary |-> "none", generation |-> 0, archive |-> {},
               recovery |-> FreshSnapshot, before |-> FreshSnapshot]
  /\ torn = FALSE
  /\ row = 0
  /\ drv = Driver("contract_due")
  /\ talk = "head"
  /\ fate = [a \in Actions |-> "new"]
  /\ doubt = FALSE
  /\ bounds = [invocations |-> 1, faults |-> 0]

(* Mutant: an intent without an outcome is not counted.                    *)
UnresolvedOutcomes == {a \in Actions : ledger.unresolved[a] \notin {"none", "intent"}}

Unresolved == {a \in Actions : ledger.unresolved[a] # "none"}
Inside     == {a \in Actions : fate[a] = "running"}

----------------------------------------------------------------------------
(* RunState.record: the ledger goes to "next" and the driver to "ok"; when *)
(* the write raises, to "raised".  A row too large is refused with nothing *)
(* written and the writer as it was; after a failed append nothing more is *)
(* written by this driver.                                                 *)
Refused(raised) ==
  /\ ~drv.dead
  /\ bounds.faults < MaxFaults
  /\ bounds' = [bounds EXCEPT !.faults = @ + 1]
  /\ drv' = raised
  /\ UNCHANGED <<ledger, torn>>

Record(next, ok, raised) ==
  /\ ~drv.dead
  /\ \/ ledger' = next /\ drv' = ok /\ UNCHANGED <<torn, bounds>>
     \/ Refused(raised)
     \/ /\ bounds.faults < MaxFaults
        /\ bounds' = [bounds EXCEPT !.faults = @ + 1]
        /\ \/ ledger' = next /\ drv' = raised /\ UNCHANGED torn
           \/ /\ drv' = [raised EXCEPT !.dead = TRUE]
              /\ \/ ledger' = next /\ UNCHANGED torn
                 \/ ledger' = ledger /\ torn' \in BOOLEAN

Goto(pc) == [drv EXCEPT !.pc = pc]
Failing  == [drv EXCEPT !.pc = "failing"]

(* ManagedTaskCoordinator._record: a raise closes admission for good.      *)
Shut(d) == [d EXCEPT !.failed = TRUE, !.accepting = FALSE]
Commit(next, ok) == Record(next, ok, Shut(Failing))

(* A write of the loop itself.                                             *)
Note(next, ok) == Record(next, ok, Failing)

(* Every change of the task retires the review it had.                     *)
Changed(s) == [s EXCEPT !.revision = @ + 1, !.receipt = NoReceipt]

----------------------------------------------------------------------------
(* HANDLERS, within a turn.                                                *)

(* Mutant: what settled without a known effect is forgotten.               *)
BaseAdmittedAnyway ==
  /\ drv.accepting /\ ~drv.stopped /\ ~drv.failed /\ ~drv.dead
  /\ ledger.recovery.pending = "none" /\ ledger.completed = 0

BaseAdmitted ==
  /\ drv.accepting /\ ~drv.stopped /\ ~drv.failed /\ ~drv.dead
  /\ ledger.recovery.pending = "none"
  /\ ledger.completed = 0
  /\ \A a \in Actions : ledger.unresolved[a] \in {"none", "intent"}

(* begin_action commits the intent; the handler is entered after that.     *)
BeginAction(a) ==
  /\ drv.pc = "turn" /\ BaseAdmitted
  /\ fate[a] = "new" /\ ledger.unresolved[a] = "none"
  /\ Record(Changed([ledger EXCEPT !.unresolved[a] = "intent"]),
            [drv EXCEPT !.mine = @ \cup {a}, !.acted = TRUE], Shut(drv))
  /\ fate' = IF drv'.failed THEN fate ELSE [fate EXCEPT ![a] = "running"]
  /\ UNCHANGED <<row, talk, doubt>>

(* finish_action.  A success, a refusal and an error the host proved to be *)
(* without effect are settled; any other error, and an interruption, stays *)
(* until the owner says what became of it.                                 *)
Dispositions == {"settled", "error", "interrupted"}

(* Mutant: an error of the handler is taken for a return without effect.   *)
EntryTrusting(d) == IF d = "interrupted" THEN d ELSE "none"

Entry(d) == IF d = "settled" THEN "none" ELSE d

FinishAction(a, d) ==
  LET observed == ledger.recovery.pending = "none"
      stops    == drv.stopped \/ d = "interrupted"
  IN  /\ ~drv.dead
      /\ fate' = [fate EXCEPT ![a] = IF d = "settled" THEN "known" ELSE "unknown"]
      /\ \E r \in IF ~observed THEN {ledger.recovery}
                  ELSE IF stops THEN {AfterStop(ledger.recovery)}
                  ELSE AfterObserving(ledger.recovery) :
           Record(Changed([ledger EXCEPT
                    !.unresolved[a] = Entry(d), !.recent = TRUE, !.recovery = r,
                    !.before = IF observed /\ stops THEN ledger.recovery ELSE @]),
                  drv, Shut(drv))
      /\ UNCHANGED <<row, talk, doubt>>

(* The result cannot be hashed, or the writer is gone: the handler's       *)
(* return leaves the intent as it is.                                      *)
ReturnUnrecorded(a) ==
  /\ fate' \in {[fate EXCEPT ![a] = "known"], [fate EXCEPT ![a] = "unknown"]}
  /\ UNCHANGED <<ledger, torn, row, drv, talk, doubt, bounds>>

HandlerReturns ==
  \E a \in Inside : ReturnUnrecorded(a) \/ \E d \in Dispositions : FinishAction(a, d)

(* observe_guard_refusal, observe_generation_cut: the model repeats itself *)
(* and the host says so.                                                   *)
ObserveRepetition ==
  /\ drv.pc = "turn" /\ BaseAdmitted
  /\ ledger.recent \/ (Unresolved = {} /\ ~ledger.uncertain)
  /\ \E r \in AfterObserving(ledger.recovery) :
       Record([ledger EXCEPT !.recovery = r, !.receipt = NoReceipt], drv, Shut(drv))
  /\ UNCHANGED <<row, talk, fate, doubt>>

(* record_observation_failure: a result could not be preserved.            *)
ObservationLost ==
  /\ drv.pc = "turn" /\ ~drv.failed
  /\ Record([ledger EXCEPT !.recovery = AfterBlock(ledger.recovery), !.receipt = NoReceipt],
            [drv EXCEPT !.accepting = FALSE], Shut(drv))
  /\ UNCHANGED <<row, talk, fate, doubt>>

----------------------------------------------------------------------------
(* THE LOOP.                                                               *)

Finish(result) == [drv EXCEPT !.pc = "finish", !.result = result]

(* The definition of done is negotiated, with no tools, and fixed.         *)
StartContract ==
  /\ drv.pc = "contract_due"
  /\ Note([ledger EXCEPT !.phase = "contract_running"], Goto("contract"))
  /\ talk' = IF drv'.pc = "contract" THEN "task" ELSE talk
  /\ doubt' = (doubt \/ drv'.pc = "contract")
  /\ UNCHANGED <<row, fate>>

EstablishContract ==
  /\ drv.pc = "contract"
  /\ Note([ledger EXCEPT !.phase = "ready"], Goto("attach"))
  /\ doubt' = (ledger' = ledger)
  /\ UNCHANGED <<row, talk, fate>>

(* attach, and what the loop does first with the task it finds.            *)
Attach ==
  /\ drv.pc = "attach"
  /\ LET next == IF ledger.completed # 0 THEN Goto("complete") ELSE Goto("loop")
     IN  IF ledger.managed
         THEN drv' = next /\ UNCHANGED <<ledger, torn, bounds>>
         ELSE Note([ledger EXCEPT !.managed = TRUE], next)
  /\ UNCHANGED <<row, talk, fate, doubt>>

(* A recovery decision comes first: an intervention is consumed, anything  *)
(* else ends the invocation.                                               *)
DecisionFirst ==
  /\ drv.pc = "loop" /\ ledger.recovery.pending # "none"
  /\ \/ /\ ledger.recovery.pending = "recover" /\ Unresolved = {}
        /\ \/ ~drv.failed /\ Commit([ledger EXCEPT !.recovery = AfterIntervention(@)],
                                    Goto("decided"))
           \/ drv.failed /\ drv' = Failing /\ UNCHANGED <<ledger, torn, bounds>>
     \/ /\ ledger.recovery.pending # "recover" \/ Unresolved # {}
        /\ drv' = Finish(IF ledger.recovery.pending = "stopped" THEN "halted" ELSE "need_input")
        /\ UNCHANGED <<ledger, torn, bounds>>
  /\ UNCHANGED <<row, talk, fate, doubt>>

RecoveryReady ==
  /\ drv.pc = "decided"
  /\ Note([ledger EXCEPT !.phase = "ready"], Goto("loop"))
  /\ UNCHANGED <<row, talk, fate, doubt>>

(* Mutant: only an intervention is thought of.                             *)
CalmUnlessRecover == drv.pc = "loop" /\ ledger.recovery.pending # "recover"

Calm == drv.pc = "loop" /\ ledger.recovery.pending = "none"

(* worker_started is written before admission opens and the turn begins;   *)
(* open_actions refuses a coordinator that lost a write.                   *)
StartTurn ==
  /\ Calm /\ ledger.phase # "review_pending" /\ drv.steps < MaxSteps
  /\ Note([ledger EXCEPT !.phase = "worker_running"],
          IF drv.failed \/ ledger.completed # 0 THEN Failing
          ELSE [drv EXCEPT !.pc = "turn", !.accepting = TRUE, !.acted = FALSE])
  /\ talk' = IF drv'.pc = "turn" THEN "task" ELSE talk
  /\ doubt' = (doubt \/ drv'.pc = "turn")
  /\ UNCHANGED <<row, fate>>

OutOfBudget ==
  /\ Calm /\ ledger.phase # "review_pending" /\ drv.steps = MaxSteps
  /\ drv' = Finish("halted")
  /\ UNCHANGED <<ledger, torn, row, talk, fate, doubt, bounds>>

(* The turn is over when its handlers are; a standing decision overrules   *)
(* what the worker says of its own state.                                  *)
EndTurn ==
  /\ drv.pc = "turn" /\ Inside = {}
  /\ \E said \in IF ledger.recovery.pending = "none"
                 THEN {"DONE", "CONTINUE", "NEED_INPUT", "nothing"} ELSE {"CONTINUE"} :
       LET after == [drv EXCEPT !.accepting = FALSE, !.steps = @ + 1]
       IN  Record([ledger EXCEPT !.uncertain = FALSE,
                     !.phase = IF said = "DONE" THEN "review_pending" ELSE "ready"],
                  CASE said = "NEED_INPUT" -> [after EXCEPT !.pc = "finish", !.result = "need_input"]
                    [] said = "nothing"    -> [after EXCEPT !.pc = "finish", !.result = "halted"]
                    [] OTHER               -> [after EXCEPT !.pc = "loop"],
                  [Failing EXCEPT !.accepting = FALSE])
  /\ doubt' = (ledger' = ledger)
  /\ UNCHANGED <<row, talk, fate>>

(* The worker's stream fails.                                              *)
TurnFails ==
  /\ drv.pc \in {"turn", "contract"} /\ Inside = {}
  /\ drv' = [Failing EXCEPT !.accepting = FALSE]
  /\ UNCHANGED <<ledger, torn, row, talk, fate, doubt, bounds>>

(* RunLimit: the invocation's budget ends.  A turn that showed no event    *)
(* did nothing, so its phase is taken back.                                *)
BudgetLimit ==
  /\ drv.pc \in {"turn", "contract", "loop", "contract_due"} /\ Inside = {}
  /\ \E seen \in BOOLEAN :
       LET unsure == Running /\ seen
       IN  /\ ~seen => ~drv.acted
           /\ Record([ledger EXCEPT !.uncertain = unsure,
                        !.phase = IF ~Running \/ unsure THEN @
                                  ELSE IF @ = "contract_running" THEN "contract_needed" ELSE "ready"],
                     [Finish("halted") EXCEPT !.accepting = FALSE], Driver("idle"))
           /\ doubt' = (doubt /\ seen)
  /\ UNCHANGED <<row, talk, fate>>

(* The independent review, once no handler's effect is unresolved.         *)
StartReview ==
  /\ Calm /\ ledger.phase = "review_pending"
  /\ drv' = IF Unresolved = {} THEN [drv EXCEPT !.pc = "review", !.accepting = FALSE]
            ELSE [Finish("need_input") EXCEPT !.accepting = FALSE]
  /\ UNCHANGED <<ledger, torn, row, talk, fate, doubt, bounds>>

Rejected ==
  /\ drv.pc = "review"
  /\ Note([ledger EXCEPT !.phase = "ready"], Goto("loop"))
  /\ UNCHANGED <<row, talk, fate, doubt>>

(* No verdict, or a file of the run that cannot be written.                *)
Unverified ==
  /\ drv.pc = "review"
  /\ drv' \in {Finish("halted"), Failing}
  /\ UNCHANGED <<ledger, torn, row, talk, fate, doubt, bounds>>

Verifiable ==
  /\ ~drv.stopped /\ ~drv.failed
  /\ Unresolved = {} /\ ~ledger.uncertain /\ ledger.recovery.pending = "none"

(* record_verification: a receipt for the task exactly as it stands.       *)
Passed ==
  /\ drv.pc = "review"
  /\ IF Verifiable
     THEN Commit([ledger EXCEPT !.receipt = [id |-> bounds.invocations, revision |-> ledger.revision]],
                 Goto("complete"))
     ELSE drv' = Failing /\ UNCHANGED <<ledger, torn, bounds>>
  /\ UNCHANGED <<row, talk, fate, doubt>>

----------------------------------------------------------------------------
(* COMPLETION: the ledger first, then the task row, then the reset.        *)

CheckedReceipt(id) ==
  /\ ledger.receipt.id = id /\ id # 0
  /\ ledger.receipt.revision = ledger.revision
  /\ ledger.recovery.pending = "none" /\ (drv.failed => ledger.completed # 0)
  /\ ~drv.stopped /\ Unresolved = {} /\ ~ledger.uncertain

Complete ==
  /\ drv.pc = "complete"
  /\ LET id == IF ledger.completed # 0 THEN ledger.completed ELSE ledger.receipt.id
     IN  IF ~CheckedReceipt(id)
         THEN drv' = Failing /\ UNCHANGED <<ledger, torn, bounds>>
         ELSE IF ledger.completed # 0
         THEN drv' = Goto("project") /\ UNCHANGED <<ledger, torn, bounds>>
         ELSE Commit([ledger EXCEPT !.completed = id], Goto("project"))
  /\ UNCHANGED <<row, talk, fate, doubt>>

(* tasks._complete_managed                                                 *)
Project ==
  /\ drv.pc = "project"
  /\ IF row \in {0, ledger.completed}
     THEN row' = ledger.completed /\ drv' = Goto("boundary")
     ELSE drv' = Failing /\ UNCHANGED row
  /\ UNCHANGED <<ledger, torn, talk, fate, doubt, bounds>>

Eligible == CheckedReceipt(ledger.completed) /\ row = ledger.completed

(* checked_task_boundary up to its await: an acknowledged reset is never   *)
(* done twice; an archive that is there already must hold what would be    *)
(* dropped.                                                                *)
PrepareBoundary ==
  /\ drv.pc = "boundary"
  /\ IF ~Eligible THEN drv' = Failing /\ UNCHANGED <<ledger, torn, bounds>>
     ELSE IF ledger.boundary = "acknowledged"
     THEN drv' = Finish("done") /\ UNCHANGED <<ledger, torn, bounds>>
     ELSE LET next == Goto(IF ledger.archive = {} THEN "archive" ELSE "compare")
          IN  IF ledger.boundary = "prepared"
              THEN drv' = next /\ UNCHANGED <<ledger, torn, bounds>>
              ELSE Commit([ledger EXCEPT !.boundary = "prepared"], next)
  /\ UNCHANGED <<row, talk, fate, doubt>>

(* Mutant: an archive that is there is taken for the right one.            *)
CompareArchiveByName ==
  /\ drv.pc = "compare"
  /\ drv' = Goto("reset")
  /\ UNCHANGED <<ledger, torn, row, talk, fate, doubt, bounds>>

CompareArchive ==
  /\ drv.pc = "compare"
  /\ drv' = IF talk \in ledger.archive \cup {"head"} THEN Goto("reset") ELSE Failing
  /\ UNCHANGED <<ledger, torn, row, talk, fate, doubt, bounds>>

Archive ==
  /\ drv.pc = "archive"
  /\ Note([ledger EXCEPT !.archive = {talk}], Goto("reset"))
  /\ UNCHANGED <<row, talk, fate, doubt>>

(* The conversation is replaced, the reset acknowledged, and the           *)
(* replacement undone if the acknowledgement raises.                       *)
Reset ==
  /\ drv.pc = "reset"
  /\ IF Eligible
     THEN /\ Commit([ledger EXCEPT !.boundary = "acknowledged", !.generation = @ + 1],
                    Finish("done"))
          /\ talk' = IF drv'.pc = "finish" THEN "head" ELSE talk
     ELSE drv' = Failing /\ UNCHANGED <<ledger, torn, bounds, talk>>
  /\ UNCHANGED <<row, fate, doubt>>

----------------------------------------------------------------------------
(* ENDINGS.                                                                *)

(* _finish writes the outcome; a driver without a writer only reports.     *)
(* What is refused there as too large is an error of run() like any other. *)
WriteOutcome ==
  /\ drv.pc = "finish"
  /\ \/ Record([ledger EXCEPT !.status = drv.result], Driver("idle"), Driver("idle"))
     \/ Refused(Failing)
  /\ UNCHANGED <<row, talk, fate, doubt>>

(* The exception path of run().                                            *)
HandleError ==
  /\ drv.pc = "failing" /\ Inside = {} /\ ~drv.dead
  /\ Record([ledger EXCEPT !.uncertain = Running], Finish("halted"), Driver("idle"))
  /\ UNCHANGED <<row, talk, fate, doubt>>

ReportStorageFailure ==
  /\ drv.dead /\ Inside = {}
  /\ drv' = Driver("idle")
  /\ UNCHANGED <<ledger, torn, row, talk, fate, doubt, bounds>>

(* Mutant: a second Stop overwrites what the first one kept.               *)
StoppableAgain == ledger.managed /\ ~drv.failed

Stoppable == ledger.managed /\ ~drv.failed /\ ledger.recovery.pending # "stopped"

(* The owner interrupts run() at an await: the coordinator records the     *)
(* Stop, and handlers that are inside still return.                        *)
Cancel ==
  /\ drv.pc \in {"contract", "loop", "turn", "review", "compare", "archive"} /\ ~drv.dead
  /\ LET stopped == [drv EXCEPT !.pc = "settling", !.stopped = TRUE, !.accepting = FALSE]
     IN  IF Stoppable
         THEN Record([ledger EXCEPT !.before = ledger.recovery,
                                    !.recovery = AfterStop(ledger.recovery)],
                     stopped, IF drv.pc = "turn" THEN Shut(stopped) ELSE Driver("idle"))
         ELSE drv' = stopped /\ UNCHANGED <<ledger, torn, bounds>>
  /\ UNCHANGED <<row, talk, fate, doubt>>

Interrupted ==
  /\ drv.pc = "settling" /\ Inside = {}
  /\ Record([ledger EXCEPT !.uncertain = Running], Finish("halted"), Driver("idle"))
  /\ UNCHANGED <<row, talk, fate, doubt>>

(* The process dies: a new one has a new conversation, and what the        *)
(* handlers inside had done by then is not known.                          *)
Crash ==
  /\ drv' = Driver("idle")
  /\ talk' = "head"
  /\ fate' = [a \in Actions |-> IF fate[a] = "running" THEN "unknown" ELSE fate[a]]
  /\ UNCHANGED <<ledger, torn, row, doubt, bounds>>

(* The owner goes on talking in an Engine whose run has ended.             *)
OwnerTalks ==
  /\ drv.pc = "idle" /\ talk # "later"
  /\ talk' = "later"
  /\ UNCHANGED <<ledger, torn, row, drv, fate, doubt, bounds>>

----------------------------------------------------------------------------
(* RESUMING, only by the run's id; a torn ledger is refused.               *)
Resume ==
  /\ drv.pc = "idle" /\ ~torn /\ bounds.invocations < MaxInvocations
  /\ bounds' = [bounds EXCEPT !.invocations = @ + 1]
  /\ \E note \in BOOLEAN : drv' = [Driver("claim") EXCEPT !.note = note]
  /\ UNCHANGED <<ledger, torn, row, talk, fate, doubt>>

(* reconcile_action: the owner reports what became of one action.          *)
ReconcileAction(a) ==
  /\ drv.pc = "claim" /\ ledger.managed /\ a \in Unresolved
  /\ Commit(Changed([ledger EXCEPT !.unresolved[a] = "none"]), drv)
  /\ fate' = IF ledger'.unresolved[a] = "none" THEN [fate EXCEPT ![a] = "reported"] ELSE fate
  /\ UNCHANGED <<row, talk, doubt>>

InDoubt == ledger.uncertain \/ Running

(* The order of the refusals is the code's.                                *)
Admit ==
  LET pending == ledger.recovery.pending
  IN  /\ drv.pc = "claim"
      /\ \/ /\ pending \notin {"none", "recover"} /\ ~(pending = "stopped" /\ drv.note)
            /\ drv' = Finish(IF pending = "stopped" THEN "halted" ELSE "need_input")
            /\ UNCHANGED <<ledger, torn, bounds>>
         \/ /\ pending \in {"none", "recover"} \/ (pending = "stopped" /\ drv.note)
            /\ IF Unresolved # {}
               THEN drv' = Finish("need_input") /\ UNCHANGED <<ledger, torn, bounds>>
               ELSE IF ledger.status = "done" /\ ~InDoubt /\ pending = "none"
               THEN /\ drv' = IF CheckedReceipt(ledger.completed) THEN Driver("idle") ELSE Failing
                    /\ UNCHANGED <<ledger, torn, bounds>>
               ELSE IF InDoubt /\ ~drv.note
               THEN drv' = Finish("need_input") /\ UNCHANGED <<ledger, torn, bounds>>
               ELSE IF ledger.status = "need_input" /\ ~drv.note
               THEN drv' = Driver("idle") /\ UNCHANGED <<ledger, torn, bounds>>
               ELSE Note([ledger EXCEPT !.status = "running"], Goto("requested"))
      /\ UNCHANGED <<row, talk, fate, doubt>>

ClearUncertainty ==
  /\ drv.pc = "requested"
  /\ IF InDoubt
     THEN Note([ledger EXCEPT !.uncertain = FALSE,
                  !.phase = CASE @ = "review_pending" -> @
                              [] @ \in {"contract_needed", "contract_running"} -> "contract_needed"
                              [] OTHER -> "ready"], Goto("cleared"))
     ELSE drv' = Goto("cleared") /\ UNCHANGED <<ledger, torn, bounds>>
  /\ doubt' = (doubt /\ ledger' = ledger)
  /\ UNCHANGED <<row, talk, fate>>

(* resume_stopped: the decision the Stop overruled is put back, with every *)
(* budget as it was.                                                       *)
ResumeStopped ==
  /\ drv.pc = "cleared"
  /\ LET next == Goto(IF ledger.phase = "contract_needed" THEN "contract_due" ELSE "attach")
     IN  IF ledger.recovery.pending = "stopped"
         THEN Commit([ledger EXCEPT !.recovery = ledger.before], next)
         ELSE drv' = next /\ UNCHANGED <<ledger, torn, bounds>>
  /\ UNCHANGED <<row, talk, fate, doubt>>

----------------------------------------------------------------------------
Next ==
  \/ \E a \in Actions : BeginAction(a) \/ ReconcileAction(a)
  \/ HandlerReturns
  \/ ObserveRepetition \/ ObservationLost
  \/ StartContract \/ EstablishContract \/ Attach
  \/ DecisionFirst \/ RecoveryReady \/ StartTurn \/ OutOfBudget \/ EndTurn \/ TurnFails \/ BudgetLimit
  \/ StartReview \/ Rejected \/ Unverified \/ Passed
  \/ Complete \/ Project \/ PrepareBoundary \/ CompareArchive \/ Archive \/ Reset
  \/ WriteOutcome \/ HandleError \/ ReportStorageFailure
  \/ Cancel \/ Interrupted \/ Crash \/ OwnerTalks
  \/ Resume \/ Admit \/ ClearUncertainty \/ ResumeStopped

Spec == Init /\ [][Next]_vars

----------------------------------------------------------------------------
TypeOK ==
  /\ ledger \in [status : {"running"} \cup Outcomes, phase : Phases,
                 uncertain : BOOLEAN, managed : BOOLEAN,
                 unresolved : [Actions -> {"none", "intent", "error", "interrupted"}],
                 recent : BOOLEAN, revision : Nat, receipt : [id : Nat, revision : Nat],
                 completed : Nat, boundary : {"none", "prepared", "acknowledged"},
                 generation : {0, 1}, archive : SUBSET Talks,
                 recovery : Snapshots, before : Snapshots]
  /\ torn \in BOOLEAN /\ row \in Nat /\ talk \in Talks /\ doubt \in BOOLEAN
  /\ fate \in [Actions -> {"new", "running", "known", "unknown", "reported"}]
  /\ drv.mine \subseteq Actions

(* SAFETY: whatever failed or died in between, the ledger names every      *)
(* handler call whose effect is not known (NoEffectForgotten in            *)
(* WorkerJournal is the same promise for a delegated worker), and a run    *)
(* whose last turn nobody saw end says so: it is uncertain, or in a        *)
(* running phase.                                                          *)
NothingForgotten ==
  /\ TypeOK
  /\ \A a \in Actions : fate[a] \in {"running", "unknown"} => ledger.unresolved[a] # "none"
  /\ doubt => InDoubt

(* SAFETY: the recovery state on the ledger can always be loaded again,    *)
(* and putting back what a Stop overruled never changes a budget, which    *)
(* resume_stopped would refuse.                                            *)
RecoveryUsable ==
  /\ Loads(ledger.recovery) /\ Loads(ledger.before)
  /\ ledger.recovery.pending = "stopped" =>
       /\ ledger.before.pending # "stopped"
       /\ \A f \in {"attempts", "help", "total"} : ledger.before[f] = ledger.recovery[f]

(* SAFETY: no handler is let in beside an effect that is not known, but    *)
(* for one of this invocation whose return could not be recorded.          *)
UnknownEffectsFirst ==
  [][\A a \in Actions : fate[a] = "new" /\ fate'[a] = "running" =>
       \A b \in Actions : fate[b] = "unknown" =>
         b \in drv.mine /\ ledger.unresolved[b] = "intent"]_vars

(* SAFETY: once a Stop is on the ledger no handler is let in and no turn   *)
(* begins, until the owner resumes with a note and every action and every  *)
(* cut turn is accounted for.                                              *)
StopHolds ==
  [][ledger.recovery.pending = "stopped" =>
       /\ \A a \in Actions : fate'[a] = "running" => fate[a] = "running"
       /\ ledger'.phase = "worker_running" => ledger.phase = "worker_running"
       /\ ledger'.recovery.pending # "stopped" => drv.note /\ Unresolved = {} /\ ~InDoubt]_vars

(* SAFETY: the reset drops no conversation that the archive on the ledger  *)
(* does not hold.                                                          *)
OriginalsArchived ==
  [][drv.pc = "reset" /\ talk' # talk => talk \in ledger.archive]_vars

(* REFINEMENT: the run keeps the promise of CheckedTask - the ledger's     *)
(* receipt, the task row and the acknowledged reset come in this order,    *)
(* each once, and after the first nothing more is done for the task.       *)
Stage ==
  IF ledger.boundary = "acknowledged" THEN "reset"
  ELSE IF row # 0 THEN "projected"
  ELSE IF ledger.completed # 0 THEN "checked" ELSE "open"

Owed == {a \in Actions : fate[a] \in {"running", "unknown"}}

Task == INSTANCE CheckedTask WITH stage <- Stage, owed <- Owed

ChecksTheTask == Task!Spec
=============================================================================
