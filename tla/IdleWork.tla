------------------------------ MODULE IdleWork ------------------------------
(***************************************************************************)
(* Optional work (memory filing) that runs between an owner's turns and    *)
(* yields to them: IdleWorkQueue (dream/core/idle_work.py).  One asyncio   *)
(* loop runs the queue's worker task, the task of the job it awaits, the   *)
(* turn that joins the worker before its own requests, and close().  What  *)
(* a task does between two awaits is one step here.                        *)
(*                                                                         *)
(* asyncio delivers a cancellation to what the cancelled task awaits: a    *)
(* turn cancelled while it joins the worker cancels the worker, and that   *)
(* the job.  A job may clean up before it ends, and may even swallow the   *)
(* cancellation and return.                                                *)
(***************************************************************************)
EXTENDS Naturals, Sequences

CONSTANTS
  Jobs,         \* jobs to be queued
  NoJob,
  MaxPending    \* max_pending: jobs waiting at most

ASSUME NoJobAssumption == NoJob \notin Jobs
ASSUME MaxPendingAssumption == MaxPending \in Nat \ {0}

VARIABLES
  pending,      \* _pending
  status,       \* what became of each job
  worker,       \* the task in _worker: not begun, in its grace sleep, on a job
  asked,        \* has that task been asked to cancel?
  ended,        \* how the last worker task ended
  current,      \* the job the worker awaits (_running)
  job,          \* what that job's task does
  foreground,   \* _foreground
  turn,         \* the turn: joins or waits for the worker, then is at work
  stopped,      \* has the turn been cancelled while it joined?
  closed,       \* _closed
  closing       \* close(): joining the worker, or returned

vars == <<pending, status, worker, asked, ended, current, job, foreground,
          turn, stopped, closed, closing>>

workerVars == <<worker, asked, ended, current, job>>
turnVars == <<foreground, turn, stopped>>
closeVars == <<closed, closing>>

Over == {"completed", "interrupted", "failed", "dropped"}

Init ==
  /\ pending = <<>>
  /\ status = [j \in Jobs |-> "unborn"]
  /\ worker = "none" /\ asked = FALSE /\ ended = "normally"
  /\ current = NoJob /\ job = "none"
  /\ foreground = FALSE /\ turn = "idle" /\ stopped = FALSE
  /\ closed = FALSE /\ closing = "no"

-----------------------------------------------------------------------------
(* Starting, cancelling and ending the worker. *)

May(queued, busy) == queued # <<>> /\ ~busy /\ ~closed

\* _start_worker, for the queue and the foreground flag as they come out.
StartWorker(queued, busy) ==
  worker' = IF worker = "none" /\ May(queued, busy) THEN "new" ELSE worker

\* Task.cancel() on the worker.  It reaches a job that still runs; a job that
\* has ended but was not looked at yet counts as cancelled.
CancelWorker ==
  /\ asked' = TRUE
  /\ job' = IF worker # "busy" THEN job
            ELSE IF job \in {"active", "cleaning"} THEN "cleaning" ELSE "cancelled"
  /\ UNCHANGED <<worker, ended, current>>

\* Mutant: the worker's finally does not look at the queue again.
EndWorkerForGood(how) ==
  /\ ended' = how /\ asked' = FALSE
  /\ current' = NoJob /\ job' = "none"
  /\ worker' = "none"

\* The worker's finally: whatever ended it, pending work gets a new one.
EndWorker(how) ==
  /\ ended' = how /\ asked' = FALSE
  /\ current' = NoJob /\ job' = "none"
  /\ worker' = IF May(pending, foreground) THEN "new" ELSE "none"

-----------------------------------------------------------------------------
(* The worker. *)

Begin ==
  /\ worker = "new" /\ ~asked
  /\ worker' = "grace"
  /\ UNCHANGED <<pending, status, asked, ended, current, job, turnVars, closeVars>>

\* Cancelled before its first step or in its sleep.
EndUnused ==
  /\ worker \in {"new", "grace"} /\ asked
  /\ EndWorker("cancelled")
  /\ UNCHANGED <<pending, status, turnVars, closeVars>>

\* The next job, if there is one and the worker may go on; outcome is what
\* the job before it came to.
GoOn(outcome) ==
  IF May(pending, foreground)
  THEN /\ pending' = Tail(pending)
       /\ status' = [outcome EXCEPT ![Head(pending)] = "running"]
       /\ worker' = "busy" /\ current' = Head(pending) /\ job' = "active"
       /\ UNCHANGED <<asked, ended>>
  ELSE /\ EndWorker("normally")
       /\ status' = outcome /\ UNCHANGED pending

GraceOver ==
  /\ worker = "grace" /\ ~asked
  /\ GoOn(status)
  /\ UNCHANGED <<turnVars, closeVars>>

\* A job ends on its own, after its cleanup, or by its own check that a turn
\* has begun (_foreground_pause), which raises CancelledError too.
JobEnds ==
  /\ job \in {"active", "cleaning"}
  /\ job' \in {"returned", "raised", "cancelled"}
  /\ UNCHANGED <<pending, status, worker, asked, ended, current, turnVars, closeVars>>

Outcome(word) == [status EXCEPT ![current] = word]

\* Mutant: a cancelled job goes back to the head of the queue.
InterruptedAgain ==
  /\ worker = "busy"
  /\ job = "cancelled" \/ (job = "returned" /\ asked)
  /\ status' = Outcome("queued") /\ pending' = <<current>> \o pending
  /\ EndWorker(IF job = "cancelled" THEN "cancelled" ELSE "normally")
  /\ UNCHANGED <<turnVars, closeVars>>

\* The job was cancelled, or returned although the worker was.
Interrupted ==
  /\ worker = "busy"
  /\ job = "cancelled" \/ (job = "returned" /\ asked)
  /\ status' = Outcome("interrupted")
  /\ EndWorker(IF job = "cancelled" THEN "cancelled" ELSE "normally")
  /\ UNCHANGED <<pending, turnVars, closeVars>>

Completed ==
  /\ worker = "busy" /\ job = "returned" /\ ~asked
  /\ GoOn(Outcome("completed"))
  /\ UNCHANGED <<turnVars, closeVars>>

Failed ==
  /\ worker = "busy" /\ job = "raised"
  /\ GoOn(Outcome("failed"))
  /\ UNCHANGED <<turnVars, closeVars>>

-----------------------------------------------------------------------------
(* Work arrives. *)

\* enqueue: the newest job is dropped when the queue is full or closed.
Enqueue(j) ==
  /\ status[j] = "unborn"
  /\ IF closed \/ Len(pending) >= MaxPending
     THEN /\ status' = [status EXCEPT ![j] = "dropped"]
          /\ UNCHANGED <<pending, worker>>
     ELSE /\ status' = [status EXCEPT ![j] = "queued"]
          /\ pending' = Append(pending, j)
          /\ StartWorker(Append(pending, j), foreground)
  /\ UNCHANGED <<asked, ended, current, job, turnVars, closeVars>>

-----------------------------------------------------------------------------
(* The turn. *)

\* Mutant: with no job running, the timer is left to find out by itself.
ForegroundStartedLax(cancelRunning) ==
  /\ turn = "idle"
  /\ foreground' = TRUE /\ stopped' = FALSE
  /\ IF ~cancelRunning
     THEN turn' = (IF current # NoJob THEN "waiting" ELSE "working") /\ UNCHANGED workerVars
     ELSE IF worker = "none" THEN turn' = "working" /\ UNCHANGED workerVars
     ELSE turn' = "joining" /\ CancelWorker
  /\ UNCHANGED <<pending, status, closeVars>>

\* foreground_started.  Without cancelRunning (requests of this backend are
\* coordinated) a running job is waited for; a sleeping worker is cancelled.
ForegroundStarted(cancelRunning) ==
  /\ turn = "idle"
  /\ foreground' = TRUE /\ stopped' = FALSE
  /\ IF worker = "none" THEN turn' = "working" /\ UNCHANGED workerVars
     ELSE IF ~cancelRunning /\ current # NoJob
     THEN turn' = "waiting" /\ UNCHANGED workerVars
     ELSE turn' = "joining" /\ CancelWorker
  /\ UNCHANGED <<pending, status, closeVars>>

Joining == turn \in {"joining", "waiting"}

\* Mutant: any CancelledError that comes out of the worker goes on to the turn.
JoinedStrict ==
  /\ Joining /\ worker = "none"
  /\ turn' = IF ended = "cancelled" THEN "idle" ELSE "working"
  /\ UNCHANGED <<pending, status, workerVars, foreground, stopped, closeVars>>

\* The worker is gone.  Only the CancelledError it ends in tells a cancelled
\* turn of its own cancellation.
Joined ==
  /\ Joining /\ worker = "none"
  /\ turn' = IF ended = "cancelled" /\ stopped THEN "idle" ELSE "working"
  /\ UNCHANGED <<pending, status, workerVars, foreground, stopped, closeVars>>

\* The turn is cancelled while it joins.
StopTurn ==
  /\ Joining /\ ~stopped
  /\ stopped' = TRUE
  /\ IF worker = "none" THEN turn' = "idle" /\ UNCHANGED workerVars
                        ELSE CancelWorker /\ UNCHANGED turn
  /\ UNCHANGED <<pending, status, foreground, closeVars>>

\* Only a completed turn lets the queue go on (Engine.ask).
TurnEnds(completed) ==
  /\ turn = "working"
  /\ turn' = "idle" /\ stopped' = FALSE
  /\ foreground' = ~completed
  /\ StartWorker(pending, ~completed)
  /\ UNCHANGED <<pending, status, asked, ended, current, job, closeVars>>

-----------------------------------------------------------------------------
(* Shutdown. *)

\* Mutant: close drops the queue and cancels, but does not wait.
CloseAtOnce ==
  /\ ~closed
  /\ closed' = TRUE
  /\ status' = [j \in Jobs |-> IF status[j] = "queued" THEN "dropped" ELSE status[j]]
  /\ pending' = <<>>
  /\ closing' = "done"
  /\ IF worker = "none" THEN UNCHANGED workerVars ELSE CancelWorker
  /\ UNCHANGED turnVars

Close ==
  /\ ~closed
  /\ closed' = TRUE
  /\ status' = [j \in Jobs |-> IF status[j] = "queued" THEN "dropped" ELSE status[j]]
  /\ pending' = <<>>
  /\ IF worker = "none" THEN closing' = "done" /\ UNCHANGED workerVars
                        ELSE closing' = "joining" /\ CancelWorker
  /\ UNCHANGED turnVars

CloseJoined ==
  /\ closing = "joining" /\ worker = "none"
  /\ closing' = "done"
  /\ UNCHANGED <<pending, status, workerVars, turnVars, closed>>

-----------------------------------------------------------------------------
Worker == Begin \/ EndUnused \/ GraceOver \/ Interrupted \/ Completed \/ Failed

Next ==
  \/ Worker \/ JobEnds
  \/ \E j \in Jobs : Enqueue(j)
  \/ \E c \in BOOLEAN : ForegroundStarted(c) \/ TurnEnds(c)
  \/ Joined \/ StopTurn
  \/ Close \/ CloseJoined

\* The loop runs every task that can run.  A job ends: each of its requests
\* has a timeout, and a cancelled one must end ("Factories must be cancellable
\* async work").
Fairness == WF_vars(Worker) /\ WF_vars(JobEnds) /\ WF_vars(Joined) /\ WF_vars(CloseJoined)

Spec == Init /\ [][Next]_vars /\ Fairness

-----------------------------------------------------------------------------
(* Properties. *)

\* Types, the bound of the queue, and the agreement of the queue, the worker
\* and the status of each job.
TypeOK ==
  /\ status \in [Jobs -> {"unborn", "queued", "running"} \cup Over]
  /\ Len(pending) <= MaxPending
  /\ \A i \in DOMAIN pending : status[pending[i]] = "queued"
  /\ \A j \in Jobs : status[j] = "queued" => \E i \in DOMAIN pending : pending[i] = j
  /\ \A j \in Jobs : status[j] = "running" <=> j = current
  /\ worker \in {"none", "new", "grace", "busy"}
  /\ worker = "busy" <=> current # NoJob
  /\ job \in {"none", "active", "cleaning", "returned", "raised", "cancelled"}
  /\ job = "none" <=> current = NoJob
  /\ asked \in BOOLEAN /\ ended \in {"normally", "cancelled"}
  /\ foreground \in BOOLEAN /\ stopped \in BOOLEAN /\ closed \in BOOLEAN
  /\ turn \in {"idle", "joining", "waiting", "working"}
  /\ closing \in {"no", "joining", "done"}

\* "Yields completely before foreground requests": while a turn is at work
\* there is no job, and no worker that could start one; queue, worker and the
\* status of the jobs agree all along.
ForegroundAlone == TypeOK /\ (turn = "working" => worker = "none")

\* Once close() has returned there is no worker and no pending job, and the
\* turns that go on do not bring one back.
ClosedIsQuiet == closing = "done" => worker = "none" /\ pending = <<>>

\* "Interrupted jobs are never replayed": what has begun does not begin again,
\* and what is over stays as it is.
NeverReplayedStep ==
  \A j \in Jobs :
    /\ status[j] = "running" => status'[j] \in {"running"} \cup Over
    /\ status[j] \in Over => status'[j] = status[j]
NeverReplayed == [][NeverReplayedStep]_vars

\* A turn that nobody stops gets to work: no job keeps it waiting for ever, and
\* the cancellation of a job or of the worker is not taken for its own.
ForegroundProceeds == Joining ~> turn = "working" \/ stopped

\* Once turns leave the queue alone, every queued job is run or dropped, also
\* when jobs before it fail or cancel themselves.
QueueDrains ==
  <>[](~foreground) => \A j \in Jobs : [](status[j] = "queued" => <>(status[j] \in Over))

\* "Propagate cancellation of the caller itself, not just the worker"
\* (idle_work.py): a turn cancelled while it joins does not go to work.  The
\* code breaks this.
CancelHonoured == turn = "working" => ~stopped
=============================================================================
