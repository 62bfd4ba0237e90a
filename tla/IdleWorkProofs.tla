--------------------------- MODULE IdleWorkProofs ---------------------------
(***************************************************************************)
(* Proofs about IdleWork for every set of jobs and every bound of the      *)
(* queue.                                                                  *)
(*                                                                         *)
(* IdleInv is inductive.  Agree relates the queue, the statuses and the    *)
(* job the worker is on, as one step of _worker or enqueue changes all     *)
(* three; that no job is queued twice is what keeps a job that was taken   *)
(* from being taken again.  A turn that has begun has set the foreground   *)
(* flag, which is why no worker starts behind its back.                    *)
(***************************************************************************)
EXTENDS IdleWork, TLAPS

Statuses == {"unborn", "queued", "running"} \cup Over

Agree(q, s, c) ==
  /\ q \in Seq(Jobs) /\ Len(q) <= MaxPending
  /\ s \in [Jobs -> Statuses]
  /\ c \in Jobs \cup {NoJob}
  /\ \A i, k \in DOMAIN q : q[i] = q[k] => i = k
  /\ \A i \in DOMAIN q : s[q[i]] = "queued"
  /\ \A j \in Jobs : s[j] = "queued" => \E i \in DOMAIN q : q[i] = j
  /\ \A j \in Jobs : s[j] = "running" <=> j = c

WorkerAgrees ==
  /\ worker \in {"none", "new", "grace", "busy"}
  /\ worker = "busy" <=> current # NoJob
  /\ job \in {"none", "active", "cleaning", "returned", "raised", "cancelled"}
  /\ job = "none" <=> current = NoJob
  /\ asked \in BOOLEAN /\ ended \in {"normally", "cancelled"}

TurnYields ==
  /\ foreground \in BOOLEAN /\ stopped \in BOOLEAN
  /\ turn \in {"idle", "joining", "waiting", "working"}
  /\ turn # "idle" => foreground
  /\ turn = "working" => worker = "none"

Closes ==
  /\ closed \in BOOLEAN /\ closing \in {"no", "joining", "done"}
  /\ closed => pending = <<>>
  /\ closing # "no" => closed
  /\ closing = "done" => worker = "none"

IdleInv == Agree(pending, status, current) /\ WorkerAgrees /\ TurnYields /\ Closes

----------------------------------------------------------------------------
(* The queue, the statuses and the current job.                            *)

LEMMA QueueOne ==
  ASSUME NEW q, NEW s, NEW c, Agree(q, s, c), NEW j \in Jobs, s[j] = "unborn",
         Len(q) < MaxPending
  PROVE  Agree(Append(q, j), [s EXCEPT ![j] = "queued"], c)
<1> DEFINE q2 == Append(q, j)
           s2 == [s EXCEPT ![j] = "queued"]
<1>1. /\ q2 \in Seq(Jobs) /\ Len(q2) = Len(q) + 1 /\ Len(q) \in Nat
      /\ DOMAIN q = 1..Len(q) /\ DOMAIN q2 = 1..(Len(q) + 1)
      /\ \A i \in DOMAIN q : q2[i] = q[i] /\ q[i] \in Jobs
      /\ q2[Len(q) + 1] = j
  BY DEF Agree
<1>2. /\ s2 \in [Jobs -> Statuses] /\ s2[j] = "queued"
      /\ \A k \in Jobs : k # j => s2[k] = s[k]
  BY DEF Agree, Statuses
<1>3. \A i \in DOMAIN q : q[i] # j
  BY DEF Agree
<1> HIDE DEF q2, s2
<1>4. Len(q2) <= MaxPending
  BY <1>1, MaxPendingAssumption
<1>5. \A i, k \in DOMAIN q2 : q2[i] = q2[k] => i = k
  BY <1>1, <1>3 DEF Agree
<1>6. \A i \in DOMAIN q2 : s2[q2[i]] = "queued"
  BY <1>1, <1>2, <1>3 DEF Agree
<1>7. \A k \in Jobs : s2[k] = "queued" => \E i \in DOMAIN q2 : q2[i] = k
  BY <1>1, <1>2 DEF Agree
<1>8. \A k \in Jobs : s2[k] = "running" <=> k = c
  BY <1>2 DEF Agree
<1> QED BY <1>1, <1>2, <1>4, <1>5, <1>6, <1>7, <1>8 DEF Agree, q2, s2

LEMMA DropOne ==
  ASSUME NEW q, NEW s, NEW c, Agree(q, s, c), NEW j \in Jobs, s[j] = "unborn"
  PROVE  Agree(q, [s EXCEPT ![j] = "dropped"], c)
<1>1. \A i \in DOMAIN q : q[i] \in Jobs /\ q[i] # j
  BY DEF Agree
<1> QED BY <1>1 DEF Agree, Statuses, Over

LEMMA SettleOne ==
  ASSUME NEW q, NEW s, NEW c \in Jobs, Agree(q, s, c), NEW word \in Over
  PROVE  Agree(q, [s EXCEPT ![c] = word], NoJob)
<1>1. \A i \in DOMAIN q : q[i] \in Jobs /\ q[i] # c
  BY DEF Agree
<1>2. word # "queued" /\ word # "running" /\ word \in Statuses
  BY DEF Over, Statuses
<1> QED BY <1>1, <1>2, NoJobAssumption DEF Agree

LEMMA TakeOne ==
  ASSUME NEW q, NEW s, Agree(q, s, NoJob), q # <<>>
  PROVE  /\ Agree(Tail(q), [s EXCEPT ![Head(q)] = "running"], Head(q))
         /\ Head(q) \in Jobs /\ s[Head(q)] = "queued"
<1> DEFINE q2 == Tail(q)
           h  == Head(q)
           s2 == [s EXCEPT ![h] = "running"]
<1>1. /\ q \in Seq(Jobs) /\ Len(q) \in Nat /\ Len(q) > 0 /\ DOMAIN q = 1..Len(q)
      /\ h = q[1] /\ h \in Jobs
      /\ q2 \in Seq(Jobs) /\ Len(q2) = Len(q) - 1 /\ DOMAIN q2 = 1..(Len(q) - 1)
      /\ \A i \in 1..(Len(q) - 1) : q2[i] = q[i + 1]
      /\ \A i \in DOMAIN q : q[i] \in Jobs
  BY DEF Agree
<1> HIDE DEF q2, h
<1>2. /\ s2 \in [Jobs -> Statuses] /\ s2[h] = "running"
      /\ \A k \in Jobs : k # h => s2[k] = s[k]
  BY <1>1 DEF Agree, Statuses
<1> HIDE DEF s2
<1>3. Len(q2) <= MaxPending
  BY <1>1, MaxPendingAssumption DEF Agree
<1>4. \A i \in DOMAIN q2 : q2[i] = q[i + 1] /\ i + 1 \in DOMAIN q /\ q2[i] # h /\ q2[i] \in Jobs
  BY <1>1 DEF Agree
<1>5. \A i, k \in DOMAIN q2 : q2[i] = q2[k] => i = k
  BY <1>1, <1>4 DEF Agree
<1>6. \A i \in DOMAIN q2 : s2[q2[i]] = "queued"
  BY <1>2, <1>4 DEF Agree
<1>7. \A k \in Jobs : s2[k] = "queued" => \E i \in DOMAIN q2 : q2[i] = k
  <2> SUFFICES ASSUME NEW k \in Jobs, s2[k] = "queued" PROVE \E i \in DOMAIN q2 : q2[i] = k
    OBVIOUS
  <2>1. k # h /\ s[k] = "queued"
    BY <1>2
  <2>2. PICK n \in DOMAIN q : q[n] = k
    BY <2>1 DEF Agree
  <2>3. n - 1 \in DOMAIN q2 /\ q2[n - 1] = k
    BY <1>1, <2>1, <2>2
  <2> QED BY <2>3
<1>8. \A k \in Jobs : s2[k] = "running" <=> k = h
  <2> SUFFICES ASSUME NEW k \in Jobs PROVE s2[k] = "running" <=> k = h
    OBVIOUS
  <2>1. k # NoJob /\ s[k] # "running"
    BY NoJobAssumption DEF Agree
  <2> QED BY <1>2, <2>1
<1>9. Agree(q2, s2, h)
  BY <1>1, <1>2, <1>3, <1>5, <1>6, <1>7, <1>8 DEF Agree
<1>10. s[h] = "queued"
  <2>1. 1 \in DOMAIN q
    BY <1>1
  <2> QED BY <1>1, <2>1 DEF Agree
<1> QED BY <1>1, <1>9, <1>10 DEF q2, s2, h

LEMMA DropAll ==
  ASSUME NEW q, NEW s, NEW c, Agree(q, s, c)
  PROVE  Agree(<<>>, [j \in Jobs |-> IF s[j] = "queued" THEN "dropped" ELSE s[j]], c)
<1> DEFINE s2 == [j \in Jobs |-> IF s[j] = "queued" THEN "dropped" ELSE s[j]]
<1>1. s2 \in [Jobs -> Statuses]
  BY DEF Agree, Statuses, Over
<1>2. \A j \in Jobs : s2[j] # "queued" /\ (s2[j] = "running" <=> s[j] = "running")
  OBVIOUS
<1>3. <<>> \in Seq(Jobs) /\ Len(<<>>) = 0 /\ DOMAIN <<>> = {}
  OBVIOUS
<1> HIDE DEF s2
<1>4. Agree(<<>>, s2, c)
  BY <1>1, <1>2, <1>3, MaxPendingAssumption DEF Agree
<1> QED BY <1>4 DEF s2

----------------------------------------------------------------------------
(* The worker's steps.                                                     *)

LEMMA EndKeeps ==
  ASSUME IdleInv, worker # "none", NEW how \in {"normally", "cancelled"}, EndWorker(how),
         UNCHANGED <<pending, turnVars, closeVars>>, Agree(pending, status', NoJob)
  PROVE  IdleInv'
<1>1. /\ pending' = pending /\ foreground' = foreground /\ turn' = turn /\ stopped' = stopped
      /\ closed' = closed /\ closing' = closing
      /\ ended' = how /\ asked' = FALSE /\ current' = NoJob /\ job' = "none"
      /\ worker' \in {"none", "new"}
      /\ worker' = "new" => ~foreground /\ ~closed
  BY DEF EndWorker, May, turnVars, closeVars
<1>2. Agree(pending, status, current)'
  BY <1>1
<1>3. WorkerAgrees'
  BY <1>1 DEF WorkerAgrees
<1>4. TurnYields'
  BY <1>1 DEF IdleInv, TurnYields
<1>5. Closes'
  BY <1>1 DEF IdleInv, Closes
<1> QED BY <1>2, <1>3, <1>4, <1>5 DEF IdleInv

LEMMA GoOnKeeps ==
  ASSUME IdleInv, worker # "none", NEW outcome, Agree(pending, outcome, NoJob),
         GoOn(outcome), UNCHANGED <<turnVars, closeVars>>
  PROVE  IdleInv'
<1>1. CASE May(pending, foreground)
  <2> DEFINE q == Tail(pending)  h == Head(pending)
             s == [outcome EXCEPT ![h] = "running"]
  <2>1. /\ pending' = q /\ status' = s /\ worker' = "busy" /\ current' = h /\ job' = "active"
        /\ asked' = asked /\ ended' = ended
        /\ foreground' = foreground /\ turn' = turn /\ stopped' = stopped
        /\ closed' = closed /\ closing' = closing
        /\ pending # <<>> /\ ~foreground /\ ~closed
    BY <1>1 DEF GoOn, May, turnVars, closeVars
  <2>2. Agree(q, s, h) /\ h \in Jobs
    BY <2>1, TakeOne
  <2> HIDE DEF q, h, s
  <2>3. Agree(pending, status, current)'
    BY <2>1, <2>2
  <2>4. WorkerAgrees'
    BY <2>1, <2>2, NoJobAssumption DEF IdleInv, WorkerAgrees
  <2>5. TurnYields' /\ Closes'
    BY <2>1 DEF IdleInv, TurnYields, Closes
  <2> QED BY <2>3, <2>4, <2>5 DEF IdleInv
<1>2. CASE ~May(pending, foreground)
  <2>1. EndWorker("normally") /\ status' = outcome /\ pending' = pending
    BY <1>2 DEF GoOn
  <2>2. Agree(pending, status', NoJob)
    BY <2>1
  <2> QED BY <2>1, <2>2, EndKeeps
<1> QED BY <1>1, <1>2

LEMMA WorkerKeeps ==
  ASSUME IdleInv, Worker
  PROVE  IdleInv'
<1>1. /\ Agree(pending, status, current)
      /\ worker = "busy" => current \in Jobs
      /\ worker # "busy" => current = NoJob
  BY DEF IdleInv, WorkerAgrees, Agree
<1>2. CASE Begin
  <2>1. /\ worker = "new" /\ worker' = "grace"
        /\ UNCHANGED <<pending, status, asked, ended, current, job, foreground, turn,
                       stopped, closed, closing>>
    BY <1>2 DEF Begin, turnVars, closeVars
  <2>2. Agree(pending, status, current)'
    BY <1>1, <2>1
  <2> QED BY <2>1, <2>2 DEF IdleInv, WorkerAgrees, TurnYields, Closes
<1>3. CASE EndUnused
  <2>1. worker \in {"new", "grace"} /\ EndWorker("cancelled") /\ status' = status
    BY <1>3 DEF EndUnused
  <2>2. Agree(pending, status', NoJob)
    BY <1>1, <2>1
  <2> QED BY <1>3, <2>1, <2>2, EndKeeps DEF EndUnused
<1>4. CASE GraceOver
  <2>1. PICK outcome : outcome = status
    OBVIOUS
  <2>2. worker # "none" /\ GoOn(outcome) /\ Agree(pending, outcome, NoJob)
    BY <1>1, <1>4, <2>1 DEF GraceOver
  <2> QED BY <1>4, <2>2, GoOnKeeps DEF GraceOver
<1>5. CASE Interrupted
  <2>1. PICK how \in {"normally", "cancelled"} : EndWorker(how)
    BY <1>5 DEF Interrupted
  <2>2. Agree(pending, [status EXCEPT ![current] = "interrupted"], NoJob)
    BY <1>1, <1>5, SettleOne DEF Interrupted, Over
  <2>3. Agree(pending, status', NoJob)
    BY <1>5, <2>2 DEF Interrupted, Outcome
  <2> QED BY <1>5, <2>1, <2>3, EndKeeps DEF Interrupted
<1>6. CASE Completed
  <2>1. PICK outcome : outcome = [status EXCEPT ![current] = "completed"]
    OBVIOUS
  <2>2. Agree(pending, outcome, NoJob)
    BY <1>1, <1>6, <2>1, SettleOne DEF Completed, Over
  <2>3. worker # "none" /\ GoOn(outcome)
    BY <1>6, <2>1 DEF Completed, Outcome
  <2> QED BY <1>6, <2>2, <2>3, GoOnKeeps DEF Completed
<1>7. CASE Failed
  <2>1. PICK outcome : outcome = [status EXCEPT ![current] = "failed"]
    OBVIOUS
  <2>2. Agree(pending, outcome, NoJob)
    BY <1>1, <1>7, <2>1, SettleOne DEF Failed, Over
  <2>3. worker # "none" /\ GoOn(outcome)
    BY <1>7, <2>1 DEF Failed, Outcome
  <2> QED BY <1>7, <2>2, <2>3, GoOnKeeps DEF Failed
<1> QED BY <1>2, <1>3, <1>4, <1>5, <1>6, <1>7 DEF Worker

----------------------------------------------------------------------------
(* Jobs, turns and shutdown.                                               *)

\* What task.cancel() leaves alone.
LEMMA CancelKeeps ==
  ASSUME IdleInv, CancelWorker \/ UNCHANGED workerVars, UNCHANGED <<pending, status>>
  PROVE  Agree(pending, status, current)' /\ WorkerAgrees' /\ worker' = worker
<1>1. /\ worker' = worker /\ current' = current /\ ended' = ended /\ asked' \in BOOLEAN
      /\ pending' = pending /\ status' = status
  BY DEF CancelWorker, workerVars, IdleInv, WorkerAgrees
<1>2. /\ job' \in {"none", "active", "cleaning", "returned", "raised", "cancelled"}
      /\ job' = "none" <=> current = NoJob
  BY DEF CancelWorker, workerVars, IdleInv, WorkerAgrees
<1>3. Agree(pending, status, current)'
  BY <1>1 DEF IdleInv
<1>4. WorkerAgrees'
  BY <1>1, <1>2 DEF IdleInv, WorkerAgrees
<1> QED BY <1>1, <1>3, <1>4

LEMMA EnqueueKeeps ==
  ASSUME IdleInv, NEW j \in Jobs, Enqueue(j)
  PROVE  IdleInv'
<1>1. /\ asked' = asked /\ ended' = ended /\ current' = current /\ job' = job
      /\ foreground' = foreground /\ turn' = turn /\ stopped' = stopped
      /\ closed' = closed /\ closing' = closing /\ status[j] = "unborn"
      /\ Agree(pending, status, current)
  BY DEF Enqueue, turnVars, closeVars, IdleInv
<1>2. CASE closed \/ Len(pending) >= MaxPending
  <2>1. status' = [status EXCEPT ![j] = "dropped"] /\ pending' = pending /\ worker' = worker
    BY <1>2 DEF Enqueue
  <2>2. Agree(pending, status, current)'
    BY <1>1, <2>1, DropOne
  <2> QED BY <1>1, <2>1, <2>2 DEF IdleInv, WorkerAgrees, TurnYields, Closes
<1>3. CASE ~(closed \/ Len(pending) >= MaxPending)
  <2>1. /\ status' = [status EXCEPT ![j] = "queued"] /\ pending' = Append(pending, j)
        /\ worker' = worker \/ (worker = "none" /\ worker' = "new" /\ ~foreground)
        /\ ~closed
    BY <1>3 DEF Enqueue, StartWorker, May
  <2>2. Len(pending) < MaxPending
    BY <1>1, <1>3, MaxPendingAssumption DEF Agree
  <2>3. Agree(pending, status, current)'
    BY <1>1, <2>1, <2>2, QueueOne
  <2>4. WorkerAgrees'
    BY <1>1, <2>1 DEF IdleInv, WorkerAgrees
  <2>5. TurnYields' /\ Closes'
    BY <1>1, <2>1 DEF IdleInv, TurnYields, Closes
  <2> QED BY <2>3, <2>4, <2>5 DEF IdleInv
<1> QED BY <1>2, <1>3

LEMMA TurnKeeps ==
  ASSUME IdleInv,
         \/ \E c \in BOOLEAN : ForegroundStarted(c) \/ TurnEnds(c)
         \/ Joined \/ StopTurn
  PROVE  IdleInv'
<1>1. ASSUME NEW c \in BOOLEAN, ForegroundStarted(c) PROVE IdleInv'
  <2>1. /\ CancelWorker \/ UNCHANGED workerVars
        /\ foreground' = TRUE /\ stopped' = FALSE
        /\ turn' \in {"joining", "waiting", "working"}
        /\ turn' = "working" => worker = "none"
        /\ UNCHANGED <<pending, status>> /\ UNCHANGED closeVars
    BY <1>1 DEF ForegroundStarted
  <2>2. Agree(pending, status, current)' /\ WorkerAgrees' /\ worker' = worker
    BY <2>1, CancelKeeps
  <2>3. TurnYields' /\ Closes'
    BY <2>1, <2>2 DEF IdleInv, TurnYields, Closes, closeVars
  <2> QED BY <2>2, <2>3 DEF IdleInv
<1>2. ASSUME NEW c \in BOOLEAN, TurnEnds(c) PROVE IdleInv'
  <2>1. /\ turn = "working" /\ turn' = "idle" /\ stopped' = FALSE /\ foreground' = ~c
        /\ worker' = worker \/ (worker = "none" /\ worker' = "new" /\ ~closed)
        /\ UNCHANGED <<pending, status, asked, ended, current, job, closed, closing>>
    BY <1>2 DEF TurnEnds, StartWorker, May, closeVars
  <2>2. Agree(pending, status, current)'
    BY <2>1 DEF IdleInv
  <2>3. WorkerAgrees'
    BY <2>1 DEF IdleInv, WorkerAgrees
  <2>4. TurnYields'
    BY <2>1 DEF TurnYields
  <2>5. Closes'
    BY <2>1 DEF IdleInv, Closes
  <2> QED BY <2>2, <2>3, <2>4, <2>5 DEF IdleInv
<1>3. CASE Joined
  <2>1. /\ turn # "idle" /\ worker = "none" /\ turn' \in {"idle", "working"}
        /\ UNCHANGED <<pending, status, worker, asked, ended, current, job, foreground,
                       stopped, closed, closing>>
    BY <1>3 DEF Joined, Joining, workerVars, closeVars
  <2>2. Agree(pending, status, current)'
    BY <2>1 DEF IdleInv
  <2> QED BY <2>1, <2>2 DEF IdleInv, WorkerAgrees, TurnYields, Closes
<1>4. CASE StopTurn
  <2>1. /\ CancelWorker \/ UNCHANGED workerVars
        /\ turn \in {"joining", "waiting"} /\ turn' \in {"idle", turn}
        /\ stopped' = TRUE /\ foreground' = foreground
        /\ UNCHANGED <<pending, status>> /\ UNCHANGED closeVars
    BY <1>4 DEF StopTurn, Joining
  <2>2. Agree(pending, status, current)' /\ WorkerAgrees' /\ worker' = worker
    BY <2>1, CancelKeeps
  <2>3. TurnYields' /\ Closes'
    BY <2>1, <2>2 DEF IdleInv, TurnYields, Closes, closeVars
  <2> QED BY <2>2, <2>3 DEF IdleInv
<1> QED BY <1>1, <1>2, <1>3, <1>4

LEMMA CloseKeeps ==
  ASSUME IdleInv, Close \/ CloseJoined
  PROVE  IdleInv'
<1>1. CASE Close
  <2>1. /\ closed' = TRUE /\ pending' = <<>>
        /\ status' = [j \in Jobs |-> IF status[j] = "queued" THEN "dropped" ELSE status[j]]
        /\ closing' \in {"joining", "done"}
        /\ closing' = "done" => worker = "none"
        /\ foreground' = foreground /\ turn' = turn /\ stopped' = stopped
        /\ worker' = worker /\ current' = current /\ ended' = ended
    BY <1>1 DEF Close, CancelWorker, workerVars, turnVars
  <2>2. /\ asked' \in BOOLEAN
        /\ job' \in {"none", "active", "cleaning", "returned", "raised", "cancelled"}
        /\ job' = "none" <=> current = NoJob
    BY <1>1 DEF Close, CancelWorker, workerVars, IdleInv, WorkerAgrees
  <2>3. Agree(pending, status, current)'
    BY <2>1, DropAll DEF IdleInv
  <2>4. WorkerAgrees'
    BY <2>1, <2>2 DEF IdleInv, WorkerAgrees
  <2>5. TurnYields' /\ Closes'
    BY <2>1 DEF IdleInv, TurnYields, Closes
  <2> QED BY <2>3, <2>4, <2>5 DEF IdleInv
<1>2. CASE CloseJoined
  <2>1. /\ closing = "joining" /\ worker = "none" /\ closing' = "done"
        /\ UNCHANGED <<pending, status, worker, asked, ended, current, job, foreground,
                       turn, stopped, closed>>
    BY <1>2 DEF CloseJoined, workerVars, turnVars
  <2>2. Agree(pending, status, current)'
    BY <2>1 DEF IdleInv
  <2> QED BY <2>1, <2>2 DEF IdleInv, WorkerAgrees, TurnYields, Closes
<1> QED BY <1>1, <1>2

LEMMA Beginning ==
  ASSUME Init
  PROVE  IdleInv
<1>1. Agree(pending, status, current)
  BY MaxPendingAssumption, NoJobAssumption DEF Init, Agree, Statuses
<1> QED BY <1>1 DEF Init, IdleInv, WorkerAgrees, TurnYields, Closes

LEMMA Inductive ==
  ASSUME IdleInv, [Next]_vars
  PROVE  IdleInv'
<1>1. CASE Worker
  BY <1>1, WorkerKeeps
<1>2. CASE JobEnds
  <2>1. /\ job' \in {"returned", "raised", "cancelled"} /\ job # "none"
        /\ UNCHANGED <<pending, status, worker, asked, ended, current, foreground, turn,
                       stopped, closed, closing>>
    BY <1>2 DEF JobEnds, turnVars, closeVars
  <2>2. Agree(pending, status, current)'
    BY <2>1 DEF IdleInv
  <2> QED BY <2>1, <2>2 DEF IdleInv, WorkerAgrees, TurnYields, Closes
<1>3. ASSUME NEW j \in Jobs, Enqueue(j) PROVE IdleInv'
  BY <1>3, EnqueueKeeps
<1>4. CASE \/ \E c \in BOOLEAN : ForegroundStarted(c) \/ TurnEnds(c)
           \/ Joined \/ StopTurn
  BY <1>4, TurnKeeps
<1>5. CASE Close \/ CloseJoined
  BY <1>5, CloseKeeps
<1>6. CASE UNCHANGED vars
  <2>1. UNCHANGED <<pending, status, worker, asked, ended, current, job, foreground, turn,
                    stopped, closed, closing>>
    BY <1>6 DEF vars
  <2>2. Agree(pending, status, current)'
    BY <2>1 DEF IdleInv
  <2> QED BY <2>1, <2>2 DEF IdleInv, WorkerAgrees, TurnYields, Closes
<1> QED BY <1>1, <1>2, <1>3, <1>4, <1>5, <1>6 DEF Next

(* In every reachable state queue, statuses and worker agree, and a turn   *)
(* that has begun holds the queue back.                                    *)
THEOREM IdleInvariant == Spec => []IdleInv
<1>1. Init => IdleInv
  BY Beginning
<1>2. IdleInv /\ [Next]_vars => IdleInv'
  BY Inductive
<1> QED BY <1>1, <1>2, PTL DEF Spec

(* "Yields completely before foreground requests": while a turn is at work *)
(* there is neither a job nor a worker that could start one.               *)
THEOREM TurnsAreAlone == Spec => []ForegroundAlone
<1>1. IdleInv => ForegroundAlone
  <2> SUFFICES ASSUME IdleInv PROVE ForegroundAlone
    OBVIOUS
  <2>1. TypeOK
    BY DEF IdleInv, Agree, WorkerAgrees, TurnYields, Closes, TypeOK, Statuses
  <2> QED BY <2>1 DEF ForegroundAlone, IdleInv, TurnYields
<1> QED BY <1>1, IdleInvariant, PTL

(* Once close() has returned, nothing brings a worker or a job back.       *)
THEOREM ClosedStaysQuiet == Spec => []ClosedIsQuiet
<1>1. IdleInv => ClosedIsQuiet
  BY DEF IdleInv, Closes, ClosedIsQuiet
<1> QED BY <1>1, IdleInvariant, PTL

(* "Interrupted jobs are never replayed": a job that has begun ends or     *)
(* goes on, and one that is over stays as it is.                           *)
THEOREM NothingIsReplayed == Spec => NeverReplayed
<1>1. ASSUME IdleInv, [Next]_vars PROVE NeverReplayedStep
  <2>1. /\ Agree(pending, status, current) /\ status \in [Jobs -> Statuses]
        /\ worker = "busy" => current \in Jobs /\ status[current] = "running"
        /\ current # NoJob => worker = "busy"
    BY <1>1, NoJobAssumption DEF IdleInv, WorkerAgrees, Agree
  <2>2. ASSUME status' = status PROVE NeverReplayedStep
    BY <2>2 DEF NeverReplayedStep
  <2>3. ASSUME NEW outcome, Agree(pending, outcome, NoJob), GoOn(outcome),
               \A j \in Jobs : status[j] = "running" => outcome[j] \in Over,
               \A j \in Jobs : status[j] \in Over => outcome[j] = status[j]
        PROVE  NeverReplayedStep
    <3>1. CASE May(pending, foreground)
      <4>1. status' = [outcome EXCEPT ![Head(pending)] = "running"] /\ pending # <<>>
        BY <2>3, <3>1 DEF GoOn, May
      <4>2. Head(pending) \in Jobs /\ outcome[Head(pending)] = "queued"
        BY <2>3, <4>1, TakeOne
      <4>3. outcome \in [Jobs -> Statuses]
        BY <2>3 DEF Agree
      <4> QED BY <2>3, <4>1, <4>2, <4>3 DEF NeverReplayedStep, Over
    <3>2. CASE ~May(pending, foreground)
      <4>1. status' = outcome
        BY <2>3, <3>2 DEF GoOn
      <4> QED BY <2>3, <4>1 DEF NeverReplayedStep
    <3> QED BY <3>1, <3>2
  <2>4. ASSUME NEW word \in Over, worker = "busy", NEW outcome,
               outcome = [status EXCEPT ![current] = word]
        PROVE  /\ Agree(pending, outcome, NoJob)
               /\ \A j \in Jobs : status[j] = "running" => outcome[j] \in Over
               /\ \A j \in Jobs : status[j] \in Over => outcome[j] = status[j]
    <3>1. Agree(pending, outcome, NoJob)
      BY <2>1, <2>4, SettleOne
    <3>2. \A j \in Jobs : status[j] = "running" => j = current
      BY <2>1 DEF Agree
    <3> QED BY <2>1, <2>4, <3>1, <3>2 DEF Over
  <2>5. CASE Worker
    <3>1. CASE Begin \/ EndUnused
      BY <2>2, <3>1 DEF Begin, EndUnused
    <3>2. CASE GraceOver
      <4>1. PICK outcome : outcome = status
        OBVIOUS
      <4>2. worker = "grace" /\ GoOn(outcome)
        BY <3>2, <4>1 DEF GraceOver
      <4>3. current = NoJob
        BY <2>1, <4>2
      <4>4. Agree(pending, outcome, NoJob) /\ \A j \in Jobs : status[j] # "running"
        BY <2>1, <4>1, <4>3, NoJobAssumption DEF Agree
      <4> QED BY <2>3, <4>1, <4>2, <4>4
    <3>3. CASE Interrupted
      <4>1. PICK outcome : outcome = [status EXCEPT ![current] = "interrupted"]
        OBVIOUS
      <4>2. worker = "busy" /\ status' = outcome
        BY <3>3, <4>1 DEF Interrupted, Outcome
      <4>3. /\ \A j \in Jobs : status[j] = "running" => outcome[j] \in Over
            /\ \A j \in Jobs : status[j] \in Over => outcome[j] = status[j]
        BY ZenonT(40), <2>4, <4>1, <4>2 DEF Over
      <4> QED BY <4>2, <4>3 DEF NeverReplayedStep
    <3>4. CASE Completed
      <4>1. PICK outcome : outcome = [status EXCEPT ![current] = "completed"]
        OBVIOUS
      <4>2. worker = "busy" /\ GoOn(outcome)
        BY <3>4, <4>1 DEF Completed, Outcome
      <4> QED BY <2>3, <2>4, <4>1, <4>2 DEF Over
    <3>5. CASE Failed
      <4>1. PICK outcome : outcome = [status EXCEPT ![current] = "failed"]
        OBVIOUS
      <4>2. worker = "busy" /\ GoOn(outcome)
        BY <3>5, <4>1 DEF Failed, Outcome
      <4> QED BY <2>3, <2>4, <4>1, <4>2 DEF Over
    <3> QED BY <2>5, <3>1, <3>2, <3>3, <3>4, <3>5 DEF Worker
  <2>6. ASSUME NEW j \in Jobs, Enqueue(j) PROVE NeverReplayedStep
    <3>1. status[j] = "unborn" /\ \E word \in Statuses : status' = [status EXCEPT ![j] = word]
      BY <2>6 DEF Enqueue, Statuses, Over
    <3> QED BY <2>1, <3>1 DEF NeverReplayedStep, Over
  <2>7. CASE Close
    <3>1. status' = [j \in Jobs |-> IF status[j] = "queued" THEN "dropped" ELSE status[j]]
      BY <2>7 DEF Close
    <3> QED BY <3>1 DEF NeverReplayedStep, Over
  <2>8. CASE JobEnds \/ Joined \/ StopTurn \/ CloseJoined
    BY <2>2, <2>8 DEF JobEnds, Joined, StopTurn, CloseJoined
  <2>9. ASSUME NEW c \in BOOLEAN, ForegroundStarted(c) \/ TurnEnds(c)
        PROVE  NeverReplayedStep
    BY <2>2, <2>9 DEF ForegroundStarted, TurnEnds
  <2>10. CASE UNCHANGED vars
    BY <2>2, <2>10 DEF vars
  <2> QED BY <1>1, <2>5, <2>6, <2>7, <2>8, <2>9, <2>10 DEF Next
<1>2. IdleInv /\ [Next]_vars => NeverReplayedStep
  BY <1>1
<1> QED BY <1>2, IdleInvariant, PTL DEF Spec, NeverReplayed
=============================================================================
