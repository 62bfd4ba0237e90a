--------------------------- MODULE InferenceLease ---------------------------
(***************************************************************************)
(* The per-(endpoint, model) lease that lets separate Dream processes      *)
(* share one local inference engine                                        *)
(* (dream/core/inference_coordination.py), with the request path that uses *)
(* it (_request_coordination and what it calls in                          *)
(* dream/core/backends/openai_compat.py).                                  *)
(*                                                                         *)
(* A lease has numbered slots.  A slot is a kernel file lock, released by  *)
(* the kernel when its holder dies, and a JSON record on disk, which       *)
(* outlives everybody.  A request takes a slot, writes "running" with its  *)
(* own id, is sent, and writes "idle" when its reply was complete and      *)
(* "uncertain" when it was cut off: a closed connection does not show that *)
(* the engine stopped computing.  A record that is not idle fences its     *)
(* slot until the engine is seen idle, the user says it is, or the engine  *)
(* was restarted after its dead owner's record was written.                *)
(*                                                                         *)
(* Time is abstracted to epoch, the number of engine starts: a record      *)
(* keeps the epoch it was written in and "the server started after the     *)
(* record" is a comparison of epochs.  Waiting (120 s for a live request,  *)
(* DREAM_LEASE_WAIT_S for a cut-off one) is counted in passes, at most     *)
(* Patience of them.                                                       *)
(***************************************************************************)
EXTENDS Naturals, FiniteSets

CONSTANTS
  Clients,          \* Dream processes, each with at most one request at a time
  Requests,         \* request ids (uuid4, never reused); bounds the requests
  MaxSlots,         \* the most slots any client opens
  MaxEpoch,         \* bound on the number of engine starts
  Patience,         \* passes a waiting request makes before it gives up
  NoClient,
  NoRequest

ASSUME NoneAssumption == NoClient \notin Clients /\ NoRequest \notin Requests
ASSUME BoundAssumption == /\ MaxSlots \in Nat \ {0}
                          /\ MaxEpoch \in Nat
                          /\ Patience \in Nat

VARIABLES
  lock,       \* lock[s]: the client whose open descriptor holds s's file lock
  record,     \* record[s]: the slot's JSON record on disk
  alive,      \* is there a process with this client's pid?
  pc,         \* where the client's request is
  capacity,   \* the number of slots the client's coordinator opens
  slot,       \* the slot the claim looks at, then the slot it holds
  busy,       \* the claim met a slot held by a live request
  mine,       \* the id of the client's own request
  sought,     \* ids of left-over records the client wants to clear
  waits,      \* passes this claim waited for a live request
  polls,      \* passes since the first refusal; the deadline is past Patience
  named,      \* ids ever written in a record
  up,         \* is the engine process running?
  epoch,      \* how often it was started
  work,       \* work[r]: what the engine did with request r
  crossed     \* history: requests that had a record but were not sent yet when
              \* an engine started, so their records are older than it

diskVars == <<lock, record>>
claimVars == <<capacity, busy, waits, polls>>
engineVars == <<up, epoch, work, crossed>>
vars == <<lock, record, alive, pc, capacity, slot, busy, mine, sought, waits,
          polls, named, up, epoch, work, crossed>>

Slots == 0 .. MaxSlots - 1

IdleRecord == [state |-> "idle", id |-> NoRequest, pid |-> NoClient, at |-> 0]

Record(state, r, c) == [state |-> state, id |-> r, pid |-> c, at |-> epoch]

\* What a record may hold: idle, or a request's id, pid and time of writing.
Records == [state : {"running", "uncertain"}, id : Requests, pid : Clients,
            at : 0 .. MaxEpoch] \cup {IdleRecord}

\* A request that holds no slot and has nothing of its own on disk.
Waiting == {"claim", "refused", "settle", "probe", "clear"}
\* A request that holds a slot and whose record names it.
Unsent == {"sweep", "ask", "sweepclear", "ready"}
Recorded == Unsent \cup {"sent", "clean", "cut"}
Holding == Recorded \cup {"granted"}

-----------------------------------------------------------------------------
(* Reading records: left_over, _stale_lease, status.                       *)

\* Mutant: every "running" record counts as left over.
LeftOverIfRunning(s) == record[s].state # "idle"

LeftOver(s) == \/ record[s].state = "uncertain"
               \/ record[s].state = "running" /\ ~alive[record[s].pid]

\* Mutant: a dead owner is enough, whenever the engine was started.
StaleIfOwnerGone(s) == record[s].state # "idle" /\ ~alive[record[s].pid] /\ up

\* The owner's process is gone and the engine was started after the record.
StaleLease(s) == /\ record[s].state # "idle"
                 /\ ~alive[record[s].pid]
                 /\ up
                 /\ epoch > record[s].at

Opened(c) == 0 .. capacity[c] - 1

\* The record status() shows when it is one _lease_unsettled accepts: the
\* first uncertain one, else the first one a gone owner left running.
Ranked(c) ==
  LET uncertain == {s \in Opened(c) : record[s].state = "uncertain"}
      orphaned  == {s \in Opened(c) : LeftOver(s)}
      first(S)  == {record[s].id : s \in {i \in S : \A j \in S : i <= j}}
  IN  IF uncertain # {} THEN first(uncertain) ELSE first(orphaned)

\* Mutant: an engine that answers counts as idle.
EngineAnswers == up

EngineIdle == up /\ \A r \in Requests : work[r] # "running"

-----------------------------------------------------------------------------
(* Ends of a request: whatever it holds, closing the descriptor frees it.  *)

Forget(c) == /\ pc' = [pc EXCEPT ![c] = "idle"]
             /\ slot' = [slot EXCEPT ![c] = 0]
             /\ busy' = [busy EXCEPT ![c] = FALSE]
             /\ mine' = [mine EXCEPT ![c] = NoRequest]
             /\ sought' = [sought EXCEPT ![c] = {}]
             /\ waits' = [waits EXCEPT ![c] = 0]
             /\ polls' = [polls EXCEPT ![c] = 0]
             /\ capacity' = [capacity EXCEPT ![c] = 1]

Unlock(c) == lock' = [s \in Slots |-> IF lock[s] = c THEN NoClient ELSE lock[s]]

\* _write: the record is replaced as a whole.  An OSError may come before the
\* replacement (the record is unchanged) or after it (the fsync of the folder).
Write(s, new) == record' = [record EXCEPT ![s] = new]
WriteMayFail(s, new) == Write(s, new) \/ record' = record

Goto(c, label) == pc' = [pc EXCEPT ![c] = label]

-----------------------------------------------------------------------------
(* Taking a slot: EndpointCoordinator.request and _claim.                  *)

\* The ids bound the requests: one begins only while an id is left for it.
IdLeft == Cardinality(named)
            + Cardinality({c \in Clients : pc[c] \in Waiting \cup {"granted"}})
            < Cardinality(Requests)

Begin(c, n) ==
  /\ alive[c] /\ pc[c] = "idle" /\ IdLeft
  /\ Goto(c, "claim")
  /\ capacity' = [capacity EXCEPT ![c] = n]
  /\ UNCHANGED <<diskVars, alive, slot, busy, mine, sought, waits, polls, named, engineVars>>

\* The slot is locked by a live request: look at the next one.
SkipBusy(c) ==
  /\ pc[c] = "claim" /\ slot[c] < capacity[c]
  /\ lock[slot[c]] # NoClient
  /\ busy' = [busy EXCEPT ![c] = TRUE]
  /\ slot' = [slot EXCEPT ![c] = @ + 1]
  /\ UNCHANGED <<diskVars, alive, pc, capacity, mine, sought, waits, polls,
                 named, engineVars>>

\* The slot is free but a left-over record fences it: look at the next one.
SkipFenced(c) ==
  /\ pc[c] = "claim" /\ slot[c] < capacity[c]
  /\ lock[slot[c]] = NoClient
  /\ record[slot[c]].state # "idle" /\ ~StaleLease(slot[c])
  /\ slot' = [slot EXCEPT ![c] = @ + 1]
  /\ UNCHANGED <<diskVars, alive, pc, claimVars, mine, sought, named, engineVars>>

\* Mutant: the file lock is not looked at.
TakeSlotUnlocked(c) ==
  /\ pc[c] = "claim" /\ slot[c] < capacity[c]
  /\ record[slot[c]].state = "idle" \/ StaleLease(slot[c])
  /\ lock' = [lock EXCEPT ![slot[c]] = c]
  /\ Write(slot[c], IdleRecord)
  /\ Goto(c, "granted")
  /\ UNCHANGED <<alive, claimVars, slot, mine, sought, named, engineVars>>

\* The slot is free and idle, or is made idle because its record is stale.
TakeSlot(c) ==
  /\ pc[c] = "claim" /\ slot[c] < capacity[c]
  /\ lock[slot[c]] = NoClient
  /\ record[slot[c]].state = "idle" \/ StaleLease(slot[c])
  /\ lock' = [lock EXCEPT ![slot[c]] = c]
  /\ Write(slot[c], IdleRecord)
  /\ Goto(c, "granted")
  /\ UNCHANGED <<alive, claimVars, slot, mine, sought, named, engineVars>>

\* No slot was free.  While a live request holds one, wait and look again from
\* slot 0; with nothing but fences the request is refused.
WaitForLive(c) ==
  /\ pc[c] = "claim" /\ slot[c] = capacity[c] /\ busy[c]
  /\ waits[c] < Patience
  /\ slot' = [slot EXCEPT ![c] = 0]
  /\ busy' = [busy EXCEPT ![c] = FALSE]
  /\ waits' = [waits EXCEPT ![c] = @ + 1]
  /\ UNCHANGED <<diskVars, alive, pc, capacity, mine, sought, polls, named,
                 engineVars>>

TimedOut(c) ==
  /\ pc[c] = "claim" /\ slot[c] = capacity[c] /\ busy[c]
  /\ waits[c] >= Patience
  /\ Forget(c)
  /\ UNCHANGED <<diskVars, alive, named, engineVars>>

Refuse(c) ==
  /\ pc[c] = "claim" /\ slot[c] = capacity[c] /\ ~busy[c]
  /\ Goto(c, "refused")
  /\ UNCHANGED <<diskVars, alive, claimVars, slot, mine, sought, named, engineVars>>

\* request() writes its "running" record; nothing is sent if that fails, but
\* the record may have been replaced all the same.
WriteRunning(c, r) ==
  /\ pc[c] = "granted" /\ r \in Requests \ named
  /\ Write(slot[c], Record("running", r, c))
  /\ mine' = [mine EXCEPT ![c] = r]
  /\ named' = named \cup {r}
  /\ Goto(c, IF capacity[c] > 1 THEN "sweep" ELSE "ready")
  /\ UNCHANGED <<lock, alive, claimVars, slot, sought, engineVars>>

WriteRunningFails(c, r) ==
  /\ pc[c] = "granted" /\ r \in Requests \ named
  /\ WriteMayFail(slot[c], Record("running", r, c))
  /\ named' = named \cup {r}
  /\ Forget(c) /\ Unlock(c)
  /\ UNCHANGED <<alive, engineVars>>

-----------------------------------------------------------------------------
(* Refused: settle the left-over record (_enter_lease, _settle_lease).     *)

\* The refusal stands when no left-over record explains it, or when a second
\* cut-off record came after the deadline.
RefusalStands(c) ==
  /\ pc[c] = "refused"
  /\ Ranked(c) = {} \/ polls[c] > Patience
  /\ Forget(c)
  /\ UNCHANGED <<diskVars, alive, named, engineVars>>

StartSettling(c) ==
  /\ pc[c] = "refused"
  /\ Ranked(c) # {} /\ polls[c] <= Patience
  /\ Goto(c, "settle")
  /\ polls' = [polls EXCEPT ![c] = IF @ = 0 THEN 1 ELSE @]
  /\ UNCHANGED <<diskVars, alive, capacity, slot, busy, mine, sought, waits,
                 named, engineVars>>

\* The claim starts over: a new request() with a wait of its own, under the
\* deadline set at the first refusal.
ClaimAgain(c) ==
  /\ Goto(c, "claim")
  /\ polls' = [polls EXCEPT ![c] = IF @ > Patience THEN @ ELSE @ + 1]
  /\ slot' = [slot EXCEPT ![c] = 0]
  /\ waits' = [waits EXCEPT ![c] = 0]
  /\ sought' = [sought EXCEPT ![c] = {}]

ReadLeftOver(c) ==
  /\ pc[c] = "settle"
  /\ \/ /\ Ranked(c) = {}
        /\ ClaimAgain(c)
     \/ /\ Ranked(c) # {}
        /\ sought' = [sought EXCEPT ![c] = Ranked(c)]
        /\ Goto(c, "probe")
        /\ UNCHANGED <<slot, waits, polls>>
  /\ UNCHANGED <<diskVars, alive, capacity, busy, mine, named, engineVars>>

\* Poll again, unless the deadline has passed: then the refusal stands.
PollAgain(c) ==
  \/ /\ polls[c] <= Patience
     /\ Goto(c, "settle")
     /\ polls' = [polls EXCEPT ![c] = @ + 1]
     /\ sought' = [sought EXCEPT ![c] = {}]
     /\ UNCHANGED <<capacity, slot, busy, mine, waits>>
  \/ /\ polls[c] > Patience
     /\ Forget(c)

\* Mutant: an engine that does not answer is asked again, with no deadline.
ProbeUntilUp(c) ==
  /\ pc[c] = "probe"
  /\ \/ /\ EngineIdle
        /\ Goto(c, "clear")
        /\ UNCHANGED <<claimVars, slot, mine, sought>>
     \/ /\ ~EngineIdle
        /\ Goto(c, "settle")
        /\ sought' = [sought EXCEPT ![c] = {}]
        /\ UNCHANGED <<claimVars, slot, mine>>
  /\ UNCHANGED <<diskVars, alive, named, engineVars>>

\* _engine_activity: only the engine's own report of nothing in flight counts.
Probe(c) ==
  /\ pc[c] = "probe"
  /\ \/ /\ EngineIdle
        /\ Goto(c, "clear")
        /\ UNCHANGED <<claimVars, slot, mine, sought>>
     \/ /\ up /\ ~EngineIdle
        /\ PollAgain(c)
     \/ /\ ~up
        /\ Forget(c)
  /\ UNCHANGED <<diskVars, alive, named, engineVars>>

\* reconcile finds r's slot among those this client opens, takes its lock
\* without waiting, and needs the record to name r still.
Reconcilable(c, r) == {s \in Opened(c) : /\ lock[s] = NoClient
                                         /\ record[s].state # "idle"
                                         /\ record[s].id = r}

ClearLeftOver(c) ==
  /\ pc[c] = "clear"
  /\ \E r \in sought[c] : \E s \in Reconcilable(c, r) : Write(s, IdleRecord)
  /\ ClaimAgain(c)
  /\ UNCHANGED <<lock, alive, capacity, busy, mine, named, engineVars>>

LeftOverChanged(c) ==
  /\ pc[c] = "clear"
  /\ \A r \in sought[c] : Reconcilable(c, r) = {}
  /\ PollAgain(c)
  /\ UNCHANGED <<diskVars, alive, named, engineVars>>

\* A Stop by the user, or state that cannot be read, ends a request that holds
\* nothing yet.
GiveUp(c) ==
  /\ pc[c] \in Waiting
  /\ Forget(c)
  /\ UNCHANGED <<diskVars, alive, named, engineVars>>

-----------------------------------------------------------------------------
(* With several slots: clear what other slots left over before sending     *)
(* (_settle_left_over_slots).                                              *)

Sweep(c) ==
  /\ pc[c] = "sweep"
  /\ LET fenced == {record[s].id : s \in {i \in Opened(c) : LeftOver(i)}}
     IN  /\ sought' = [sought EXCEPT ![c] = fenced]
         /\ Goto(c, IF fenced = {} THEN "ready" ELSE "ask")
  /\ UNCHANGED <<diskVars, alive, claimVars, slot, mine, named, engineVars>>

Ask(c) ==
  /\ pc[c] = "ask"
  /\ \/ /\ EngineIdle
        /\ Goto(c, "sweepclear")
        /\ UNCHANGED sought
     \/ /\ ~EngineIdle
        /\ Goto(c, "ready")
        /\ sought' = [sought EXCEPT ![c] = {}]
  /\ UNCHANGED <<diskVars, alive, claimVars, slot, mine, named, engineVars>>

SweepClear(c) ==
  /\ pc[c] = "sweepclear"
  /\ \/ /\ sought[c] = {}
        /\ Goto(c, "ready")
        /\ UNCHANGED <<record, sought>>
     \/ \E r \in sought[c] :
           /\ \/ \E s \in Reconcilable(c, r) : Write(s, IdleRecord)
              \/ Reconcilable(c, r) = {} /\ UNCHANGED record
           /\ sought' = [sought EXCEPT ![c] = @ \ {r}]
           /\ UNCHANGED pc
  /\ UNCHANGED <<lock, alive, claimVars, slot, mine, named, engineVars>>

\* A failure or a Stop here sent nothing: the request ends clean.
SweepFails(c) ==
  /\ pc[c] \in {"sweep", "ask", "sweepclear"}
  /\ Goto(c, "clean")
  /\ sought' = [sought EXCEPT ![c] = {}]
  /\ UNCHANGED <<diskVars, alive, claimVars, slot, mine, named, engineVars>>

-----------------------------------------------------------------------------
(* Sending, and the end of the request (_request_coordination,             *)
(* _stream_with_retry, _stream_uncoordinated, _post_retry).                *)

\* Attempts that reach no engine change nothing and are tried again; this is
\* the one the engine takes.
Send(c) ==
  /\ pc[c] = "ready" /\ up
  /\ Goto(c, "sent")
  /\ work' = [work EXCEPT ![mine[c]] = "running"]
  /\ UNCHANGED <<diskVars, alive, claimVars, slot, mine, sought, named, up,
                 epoch, crossed>>

\* The attempts are used up, or the engine refused the request outright.
Rejected(c) ==
  /\ pc[c] = "ready"
  /\ Goto(c, "clean")
  /\ UNCHANGED <<diskVars, alive, claimVars, slot, mine, sought, named,
                 engineVars>>

\* The reply came with its completion signal, or was an explicit error.
Complete(c) ==
  /\ pc[c] = "sent" /\ work[mine[c]] = "returned"
  /\ Goto(c, "clean")
  /\ UNCHANGED <<diskVars, alive, claimVars, slot, mine, sought, named,
                 engineVars>>

\* A Stop, a lost connection, a 408 or 5xx, a stream with no completion signal.
CutOff(c) ==
  /\ pc[c] \in {"ready", "sent"}
  /\ Goto(c, "cut")
  /\ UNCHANGED <<diskVars, alive, claimVars, slot, mine, sought, named,
                 engineVars>>

\* Leaving request(): the last record is written, then the descriptor closed.
\* The record stays as it was when the write fails.
ExitClean(c) ==
  /\ pc[c] = "clean"
  /\ WriteMayFail(slot[c], IdleRecord)
  /\ Forget(c) /\ Unlock(c)
  /\ UNCHANGED <<alive, named, engineVars>>

\* Mutant: a cut-off request leaves its slot idle, as a completed one does.
ExitCutIdle(c) ==
  /\ pc[c] = "cut"
  /\ WriteMayFail(slot[c], IdleRecord)
  /\ Forget(c) /\ Unlock(c)
  /\ UNCHANGED <<alive, named, engineVars>>

ExitCut(c) ==
  /\ pc[c] = "cut"
  /\ WriteMayFail(slot[c], Record("uncertain", mine[c], c))
  /\ Forget(c) /\ Unlock(c)
  /\ UNCHANGED <<alive, named, engineVars>>

-----------------------------------------------------------------------------
(* The user, the processes, the engine.                                    *)

\* Controls: the user has checked that the engine is not working on the
\* request the record names, and confirms it (reconcile_local_request).
Controls(s) ==
  /\ lock[s] = NoClient
  /\ record[s].state # "idle" /\ work[record[s].id] # "running"
  /\ Write(s, IdleRecord)
  /\ UNCHANGED <<lock, alive, pc, slot, claimVars, mine, sought, named,
                 engineVars>>

\* The process dies; the kernel releases its locks, the records stay.
Crash(c) ==
  /\ alive[c]
  /\ alive' = [alive EXCEPT ![c] = FALSE]
  /\ Forget(c) /\ Unlock(c)
  /\ UNCHANGED <<record, named, engineVars>>

\* A new process gets the same pid.
Restart(c) ==
  /\ ~alive[c]
  /\ alive' = [alive EXCEPT ![c] = TRUE]
  /\ UNCHANGED <<diskVars, pc, slot, claimVars, mine, sought, named,
                 engineVars>>

\* The engine answers, whether or not anybody still listens.
Return(r) ==
  /\ work[r] = "running"
  /\ work' = [work EXCEPT ![r] = "returned"]
  /\ UNCHANGED <<diskVars, alive, pc, slot, claimVars, mine, sought, named, up,
                 epoch, crossed>>

\* The engine process ends, and every generation with it.
EngineStop ==
  /\ up
  /\ up' = FALSE
  /\ work' = [r \in Requests |-> IF work[r] = "running" THEN "lost"
                                                        ELSE work[r]]
  /\ UNCHANGED <<diskVars, alive, pc, slot, claimVars, mine, sought, named,
                 epoch, crossed>>

\* Nothing keeps an engine from starting between a request's record and its
\* sending: such a request crosses the start.
EngineStart ==
  /\ ~up /\ epoch < MaxEpoch
  /\ up' = TRUE
  /\ epoch' = epoch + 1
  /\ crossed' = crossed \cup {mine[c] : c \in {d \in Clients : pc[d] \in Unsent}}
  /\ UNCHANGED <<diskVars, alive, pc, slot, claimVars, mine, sought, named,
                 work>>

-----------------------------------------------------------------------------
(* The specification.                                                      *)

Init ==
  /\ lock = [s \in Slots |-> NoClient]
  /\ record = [s \in Slots |-> IdleRecord]
  /\ alive = [c \in Clients |-> TRUE]
  /\ pc = [c \in Clients |-> "idle"]
  /\ capacity = [c \in Clients |-> 1]
  /\ slot = [c \in Clients |-> 0]
  /\ busy = [c \in Clients |-> FALSE]
  /\ mine = [c \in Clients |-> NoRequest]
  /\ sought = [c \in Clients |-> {}]
  /\ waits = [c \in Clients |-> 0]
  /\ polls = [c \in Clients |-> 0]
  /\ named = {}
  /\ up = TRUE
  /\ epoch = 0
  /\ work = [r \in Requests |-> "none"]
  /\ crossed = {}

Claiming(c) ==
  \/ SkipBusy(c) \/ SkipFenced(c) \/ TakeSlot(c)
  \/ WaitForLive(c) \/ TimedOut(c) \/ Refuse(c)
  \/ \E r \in Requests : WriteRunning(c, r) \/ WriteRunningFails(c, r)

Settling(c) ==
  \/ RefusalStands(c) \/ StartSettling(c) \/ ReadLeftOver(c)
  \/ Probe(c) \/ ClearLeftOver(c) \/ LeftOverChanged(c)

Sweeping(c) == Sweep(c) \/ Ask(c) \/ SweepClear(c)

Running(c) == Send(c) \/ Rejected(c) \/ Complete(c) \/ ExitClean(c) \/ ExitCut(c)

\* What a request does by itself, without a Stop or a failure.
Step(c) == Claiming(c) \/ Settling(c) \/ Sweeping(c) \/ Running(c)

Next ==
  \/ \E c \in Clients :
        \/ \E n \in 1 .. MaxSlots : Begin(c, n)
        \/ Step(c)
        \/ GiveUp(c) \/ SweepFails(c) \/ CutOff(c)
        \/ Crash(c) \/ Restart(c)
  \/ \E s \in Slots : Controls(s)
  \/ \E r \in Requests : Return(r)
  \/ EngineStop \/ EngineStart

Spec == Init /\ [][Next]_vars

\* The engine process is gone, and with it the connection.
ConnectionBreaks(c) == pc[c] = "sent" /\ work[mine[c]] = "lost" /\ CutOff(c)

\* A request keeps running its own code, the engine returns from every
\* generation it is not stopped in, and a connection to an engine that is gone
\* breaks.  Nothing is assumed of Stops, crashes, restarts or the user.
Fairness ==
  /\ \A c \in Clients : /\ WF_vars(Step(c))
                        /\ WF_vars(ConnectionBreaks(c))
  /\ \A r \in Requests : WF_vars(Return(r))

FairSpec == Spec /\ Fairness

-----------------------------------------------------------------------------
(* Properties.                                                             *)

TypeOK ==
  /\ lock \in [Slots -> Clients \cup {NoClient}]
  /\ record \in [Slots -> Records]
  /\ alive \in [Clients -> BOOLEAN]
  /\ pc \in [Clients -> {"idle"} \cup Waiting \cup Holding]
  /\ capacity \in [Clients -> 1 .. MaxSlots]
  /\ slot \in [Clients -> 0 .. MaxSlots]
  /\ busy \in [Clients -> BOOLEAN]
  /\ mine \in [Clients -> Requests \cup {NoRequest}]
  /\ sought \in [Clients -> SUBSET Requests]
  /\ waits \in [Clients -> 0 .. Patience]
  /\ polls \in [Clients -> 0 .. Patience + 1]
  /\ named \in SUBSET Requests
  /\ up \in BOOLEAN
  /\ epoch \in 0 .. MaxEpoch
  /\ work \in [Requests -> {"none", "running", "returned", "lost"}]
  /\ crossed \in SUBSET Requests

\* Every generation the engine is working on is fenced: some slot's record
\* still names it, through cut-offs, crashes of its owner, restarts of Dream,
\* failed record writes and every way a record is cleared.  This is what the
\* "persisted uncertainty" of inference_coordination.py is for.  A request that
\* crossed an engine start is fenced only while it is at work in its process:
\* once that has died, its record looks stale.
Fence ==
  \A r \in Requests :
    work[r] = "running" /\ (r \in crossed => \E c \in Clients : mine[c] = r) =>
      \E s \in Slots : record[s].state # "idle" /\ record[s].id = r

\* While a request runs, the record of the slot it holds is its own: no other
\* process's claim, sweep, settling or Controls replaces it.
LiveRecordStands ==
  \A c \in Clients : pc[c] \in Recorded =>
    /\ lock[slot[c]] = c
    /\ record[slot[c]] = [record[slot[c]] EXCEPT !.state = "running",
                                                 !.id = mine[c], !.pid = c]

\* A record somebody has decided to clear once the engine is idle belongs to
\* a request that is over for its owner: it can no longer be sent between the
\* engine's report and the clearing.
SoughtNeverSent ==
  \A c, d \in Clients : mine[d] \notin sought[c]

\* A step that removes a request's record never leaves the engine working on
\* that request, but for one: a claim may take a stale record whose request
\* crossed an engine start.  Settling, sweeping, Controls and the ends of
\* requests never do it, to no request.
ClearedOnlyWhenOver ==
  [][\A s \in Slots :
       record[s].state # "idle" /\ record'[s].id # record[s].id
         => \/ work'[record[s].id] # "running"
            \/ record[s].id \in crossed /\ StaleLease(s)]_vars

\* "When the owner is dead AND the server is a newer process than the record,
\* nothing can be in flight" (tests/test_stale_coordination.py): the premise
\* of the stale-owner check that clears a record without asking anybody.
StaleIsOver ==
  \A s \in Slots : StaleLease(s) => work[record[s].id] # "running"

\* As much of it as the code keeps: the premise is right about every request
\* that did not cross an engine start.
StaleIsOverUnlessCrossed ==
  \A s \in Slots : StaleLease(s) /\ record[s].id \notin crossed =>
    work[record[s].id] # "running"

\* The parts of the inductive invariant behind Fence, LiveRecordStands and
\* SoughtNeverSent.  A file lock is held exactly by the request at its slot.
LocksHeld ==
  /\ \A c \in Clients : pc[c] # "idle" => alive[c]
  /\ \A c \in Clients : pc[c] \in Holding => slot[c] \in Slots /\ lock[slot[c]] = c
  /\ \A s \in Slots : lock[s] # NoClient =>
       pc[lock[s]] \in Holding /\ slot[lock[s]] = s

\* Each request in its slot stands behind its own record, and only there.
OwnRecords ==
  /\ \A c \in Clients : pc[c] = "granted" => record[slot[c]].state = "idle"
  /\ \A c \in Clients : pc[c] \in Recorded =>
       /\ record[slot[c]].state = "running"
       /\ record[slot[c]].id = mine[c]
       /\ record[slot[c]].pid = c
  /\ \A c \in Clients : pc[c] \notin Recorded => mine[c] = NoRequest

\* An id is written once, to one slot, before the engine sees it.
NamesUnique ==
  /\ \A s \in Slots : record[s].state # "idle" => record[s].id \in named
  /\ \A s, t \in Slots :
       record[s].state # "idle" /\ record[t].state # "idle"
         /\ record[s].id = record[t].id => s = t
  /\ \A r \in Requests : work[r] # "none" => r \in named
  /\ crossed \subseteq named

\* A generation's fence was written since the engine started, so the
\* stale-owner check never takes it, unless its request crossed that start; a
\* request still to be sent is as recent, or has crossed.
FenceIsFresh ==
  /\ \A r \in Requests : work[r] = "running" => up
  /\ \A r \in Requests \ crossed : work[r] = "running" =>
       \E s \in Slots : /\ record[s].state # "idle"
                        /\ record[s].id = r
                        /\ record[s].at = epoch
  /\ \A c \in Clients : pc[c] \in Unsent =>
       /\ work[mine[c]] = "none"
       /\ mine[c] \in crossed \/ record[slot[c]].at = epoch
  /\ \A c \in Clients : pc[c] = "clean" => work[mine[c]] # "running"

\* What a client wants to clear is over for its owner, and once the engine was
\* seen idle, over for the engine.
SoughtIsOver ==
  /\ \A c, d \in Clients : mine[d] \notin sought[c]
  /\ \A c \in Clients : sought[c] \subseteq named
  /\ \A c \in Clients : pc[c] \in {"clear", "sweepclear"} =>
       \A r \in sought[c] : work[r] # "running"

LeaseInv == /\ TypeOK /\ LocksHeld /\ OwnRecords /\ NamesUnique
            /\ FenceIsFresh /\ SoughtIsOver

\* The lease implements EngineLanes: a slot is a lane, and what the engine is
\* working on is in the lane whose record names it.  A request that crossed an
\* engine start keeps its lane until its record is taken as stale: the promise
\* counts it as over from then on, whatever the engine still does.
InFlight == {r \in Requests : work[r] = "running"}
InLane == [s \in Slots |-> {r \in InFlight : record[s].id = r}]
GivenUp == {r \in InFlight \cap crossed : \A s \in Slots : record[s].id # r}
Over == {r \in Requests : work[r] \in {"returned", "lost"}} \cup GivenUp

Lanes == INSTANCE EngineLanes
           WITH Lanes <- Slots, lane <- InLane, over <- Over

OneRequestPerLane == Lanes!Spec

\* Every request ends: it is served, refused, given up or cut off, and no
\* cycle of clients waiting for each other's slots or settling each other's
\* records keeps it from ending.
EveryRequestEnds ==
  \A c \in Clients : pc[c] # "idle" ~> pc[c] = "idle"
=============================================================================
