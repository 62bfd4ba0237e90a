------------------------ MODULE InferenceLeaseProofs ------------------------
(***************************************************************************)
(* Proofs about the inference lease, for any number of clients, requests,  *)
(* slots, engine starts and passes.                                        *)
(***************************************************************************)
EXTENDS InferenceLease, TLAPS

LEMMA SlotsInNat == Slots \subseteq Nat /\ 0 \in Slots
  BY BoundAssumption DEF Slots

LEMMA IdleIsRecord == IdleRecord \in Records
  BY DEF Records

LEMMA RecordIsRecord ==
  ASSUME TypeOK, NEW c \in Clients, NEW r \in Requests,
         NEW state \in {"running", "uncertain"}
  PROVE  Record(state, r, c) \in Records
  BY DEF Records, Record, TypeOK

LEMMA LeftOverIsRequest ==
  ASSUME TypeOK, NEW s \in Slots, record[s].state # "idle"
  PROVE  /\ record[s].id \in Requests
         /\ record[s].pid \in Clients
         /\ record[s].at \in 0 .. MaxEpoch
         /\ record[s].state \in {"running", "uncertain"}
  BY DEF TypeOK, Records, IdleRecord

LEMMA OpenedInSlots ==
  ASSUME TypeOK, NEW c \in Clients
  PROVE  Opened(c) \subseteq Slots
  BY BoundAssumption DEF TypeOK, Opened, Slots

LEMMA RankedIsRequests ==
  ASSUME TypeOK, NEW c \in Clients
  PROVE  Ranked(c) \subseteq {record[s].id : s \in {i \in Opened(c) : LeftOver(i)}}
  BY DEF Ranked, LeftOver

LEMMA LeftOverIds ==
  ASSUME TypeOK, NEW c \in Clients
  PROVE  {record[s].id : s \in {i \in Opened(c) : LeftOver(i)}} \subseteq Requests
  BY OpenedInSlots, LeftOverIsRequest DEF LeftOver

(***************************************************************************)
(* Type correctness, one lemma per group of actions.                       *)
(***************************************************************************)

LEMMA TypeInit == Init => TypeOK
  BY BoundAssumption, IdleIsRecord DEF Init, TypeOK, Waiting, Holding, Recorded, Unsent

LEMMA TypeForget ==
  ASSUME TypeOK, NEW c \in Clients, Forget(c)
  PROVE  /\ pc' \in [Clients -> {"idle"} \cup Waiting \cup Holding]
         /\ capacity' \in [Clients -> 1 .. MaxSlots]
         /\ slot' \in [Clients -> 0 .. MaxSlots]
         /\ busy' \in [Clients -> BOOLEAN]
         /\ mine' \in [Clients -> Requests \cup {NoRequest}]
         /\ sought' \in [Clients -> SUBSET Requests]
         /\ waits' \in [Clients -> 0 .. Patience]
         /\ polls' \in [Clients -> 0 .. Patience + 1]
  BY BoundAssumption DEF TypeOK, Forget

LEMMA TypeUnlock ==
  ASSUME TypeOK, NEW c \in Clients, Unlock(c)
  PROVE  lock' \in [Slots -> Clients \cup {NoClient}]
  BY DEF TypeOK, Unlock

LEMMA TypeClaiming ==
  ASSUME TypeOK, NEW c \in Clients, Claiming(c)
  PROVE  TypeOK'
<1> USE BoundAssumption DEF TypeOK, Waiting, Holding, Recorded, Unsent, Goto,
      engineVars, diskVars, claimVars
<1>1. CASE SkipBusy(c)
  BY <1>1 DEF SkipBusy
<1>2. CASE SkipFenced(c)
  BY <1>2 DEF SkipFenced
<1>3. CASE TakeSlot(c)
  BY <1>3, IdleIsRecord DEF TakeSlot, Write
<1>4. CASE WaitForLive(c)
  BY <1>4 DEF WaitForLive
<1>5. CASE TimedOut(c)
  BY <1>5, TypeForget DEF TimedOut
<1>6. CASE Refuse(c)
  BY <1>6 DEF Refuse
<1>7. ASSUME NEW r \in Requests, WriteRunning(c, r) PROVE TypeOK'
  BY <1>7, RecordIsRecord DEF WriteRunning, Write
<1>8. ASSUME NEW r \in Requests, WriteRunningFails(c, r) PROVE TypeOK'
  BY SMTT(30), <1>8, RecordIsRecord, TypeForget, TypeUnlock DEF WriteRunningFails, WriteMayFail, Write
<1>9. QED
  BY <1>1, <1>2, <1>3, <1>4, <1>5, <1>6, <1>7, <1>8 DEF Claiming

LEMMA TypeClaimAgain ==
  ASSUME TypeOK, NEW c \in Clients, ClaimAgain(c)
  PROVE  /\ pc' \in [Clients -> {"idle"} \cup Waiting \cup Holding]
         /\ slot' \in [Clients -> 0 .. MaxSlots]
         /\ sought' \in [Clients -> SUBSET Requests]
         /\ waits' \in [Clients -> 0 .. Patience]
         /\ polls' \in [Clients -> 0 .. Patience + 1]
<1>1. polls' \in [Clients -> 0 .. Patience + 1]
  <2>1. (IF polls[c] > Patience THEN polls[c] ELSE polls[c] + 1) \in 0 .. Patience + 1
    BY BoundAssumption DEF TypeOK
  <2>2. QED
    BY <2>1 DEF TypeOK, ClaimAgain
<1>2. QED
  BY <1>1, BoundAssumption DEF TypeOK, ClaimAgain, Goto, Waiting

LEMMA TypeSettling ==
  ASSUME TypeOK, NEW c \in Clients, Settling(c)
  PROVE  TypeOK'
<1> USE BoundAssumption DEF TypeOK, Waiting, Holding, Recorded, Unsent, Goto,
      engineVars, diskVars, claimVars
<1>1. ASSUME PollAgain(c), UNCHANGED <<diskVars, alive, named, engineVars>>
      PROVE  TypeOK'
  BY <1>1, TypeForget DEF PollAgain
<1>2. CASE RefusalStands(c)
  BY <1>2, TypeForget DEF RefusalStands
<1>3. CASE StartSettling(c)
  BY <1>3 DEF StartSettling
<1>4. CASE ReadLeftOver(c)
  <2>1. CASE ClaimAgain(c)
    BY <1>4, <2>1, TypeClaimAgain DEF ReadLeftOver
  <2>2. CASE Ranked(c) # {}
    BY <1>4, <2>2, RankedIsRequests, LeftOverIds DEF ReadLeftOver
  <2>3. QED
    BY <1>4, <2>1, <2>2 DEF ReadLeftOver
<1>5. CASE Probe(c)
  <2>1. CASE EngineIdle /\ Goto(c, "clear") /\ UNCHANGED <<claimVars, slot, mine, sought>>
    BY <1>5, <2>1 DEF Probe
  <2>2. CASE PollAgain(c)
    BY <1>1, <1>5, <2>2 DEF Probe
  <2>3. CASE Forget(c)
    BY <1>5, <2>3, TypeForget DEF Probe
  <2>4. QED
    BY <1>5, <2>1, <2>2, <2>3 DEF Probe
<1>6. CASE ClearLeftOver(c)
  BY <1>6, IdleIsRecord, TypeClaimAgain DEF ClearLeftOver, Write
<1>7. CASE LeftOverChanged(c)
  BY <1>1, <1>7 DEF LeftOverChanged
<1>8. QED
  BY <1>2, <1>3, <1>4, <1>5, <1>6, <1>7 DEF Settling

LEMMA TypeSweeping ==
  ASSUME TypeOK, NEW c \in Clients, Sweeping(c) \/ SweepFails(c)
  PROVE  TypeOK'
<1> USE DEF TypeOK, Waiting, Holding, Recorded, Unsent, Goto,
      engineVars, diskVars, claimVars
<1>1. CASE Sweep(c)
  BY <1>1, LeftOverIds DEF Sweep
<1>2. CASE Ask(c)
  BY <1>2 DEF Ask
<1>3. CASE SweepClear(c)
  BY <1>3, IdleIsRecord DEF SweepClear, Write
<1>4. CASE SweepFails(c)
  BY <1>4 DEF SweepFails
<1>5. QED
  BY <1>1, <1>2, <1>3, <1>4 DEF Sweeping

\* A request that holds a slot has an id, for its record can be written again.
LEMMA TypeRunning ==
  ASSUME TypeOK, NEW c \in Clients, Running(c) \/ CutOff(c),
         pc[c] \in Recorded => mine[c] \in Requests
  PROVE  TypeOK'
<1> USE DEF TypeOK, Waiting, Holding, Recorded, Unsent, Goto,
      engineVars, diskVars, claimVars
<1>1. CASE Send(c)
  BY <1>1 DEF Send
<1>2. CASE Rejected(c)
  BY <1>2 DEF Rejected
<1>3. CASE Complete(c)
  BY <1>3 DEF Complete
<1>4. CASE ExitClean(c)
  BY SMTT(30), <1>4, IdleIsRecord, TypeForget, TypeUnlock DEF ExitClean, WriteMayFail, Write
<1>5. CASE ExitCut(c)
  <2>1. Record("uncertain", mine[c], c) \in Records
    BY <1>5, RecordIsRecord DEF ExitCut
  <2>2. record' \in [Slots -> Records]
    BY <1>5, <2>1 DEF ExitCut, WriteMayFail, Write
  <2>3. QED
    BY <1>5, <2>2, TypeForget, TypeUnlock DEF ExitCut
<1>6. CASE CutOff(c)
  BY <1>6 DEF CutOff
<1>7. QED
  BY <1>1, <1>2, <1>3, <1>4, <1>5, <1>6 DEF Running

LEMMA TypeEnvironment ==
  ASSUME TypeOK,
         \A c \in Clients : pc[c] \in Unsent => mine[c] \in Requests,
         \/ \E c \in Clients : \/ \E n \in 1 .. MaxSlots : Begin(c, n)
                               \/ GiveUp(c) \/ Crash(c) \/ Restart(c)
         \/ \E s \in Slots : Controls(s)
         \/ \E r \in Requests : Return(r)
         \/ EngineStop \/ EngineStart
  PROVE  TypeOK'
<1> USE BoundAssumption DEF TypeOK, Waiting, Holding, Recorded, Unsent, Goto,
      engineVars, diskVars, claimVars
<1>1. ASSUME NEW c \in Clients, NEW n \in 1 .. MaxSlots, Begin(c, n) PROVE TypeOK'
  BY <1>1 DEF Begin
<1>2. ASSUME NEW c \in Clients, GiveUp(c) PROVE TypeOK'
  BY <1>2, TypeForget DEF GiveUp
<1>3. ASSUME NEW c \in Clients, Crash(c) PROVE TypeOK'
  BY <1>3, TypeForget, TypeUnlock DEF Crash
<1>4. ASSUME NEW c \in Clients, Restart(c) PROVE TypeOK'
  BY <1>4 DEF Restart
<1>5. ASSUME NEW s \in Slots, Controls(s) PROVE TypeOK'
  BY <1>5, IdleIsRecord DEF Controls, Write
<1>6. ASSUME NEW r \in Requests, Return(r) PROVE TypeOK'
  BY <1>6 DEF Return
<1>7. CASE EngineStop
  BY <1>7 DEF EngineStop
<1>8. CASE EngineStart
  <2>1. crossed' \in SUBSET Requests
    BY <1>8 DEF EngineStart
  <2>2. QED
    BY <1>8, <2>1 DEF EngineStart
<1>9. QED
  BY <1>1, <1>2, <1>3, <1>4, <1>5, <1>6, <1>7, <1>8

(***************************************************************************)
(* Steps that keep every request at its place: nobody takes or leaves a    *)
(* slot, and at most one left-over record is cleared.                      *)
(***************************************************************************)
ClearsAtMostOne ==
  \/ record' = record
  \/ \E s \in Slots : /\ lock[s] = NoClient /\ record[s].state # "idle"
                      /\ work[record[s].id] # "running"
                      /\ record' = [record EXCEPT ![s] = IdleRecord]

KeepsPlace(c) ==
  /\ pc'[c] \in Recorded <=> pc[c] \in Recorded
  /\ pc'[c] = "granted" <=> pc[c] = "granted"
  /\ pc[c] \in Holding => slot'[c] = slot[c]
  /\ pc'[c] # "idle" => alive[c]
  /\ pc'[c] \in Unsent => pc[c] \in Unsent
  /\ pc'[c] = "clean" => pc[c] = "clean" \/ work[mine[c]] # "running"

KeepsPlaces ==
  /\ \A c \in Clients : KeepsPlace(c)
  /\ ClearsAtMostOne
  /\ UNCHANGED <<lock, mine, alive, named, engineVars>>

LEMMA KeepsPlacesInv ==
  ASSUME LeaseInv, TypeOK', KeepsPlaces
  PROVE  LocksHeld' /\ OwnRecords' /\ NamesUnique' /\ FenceIsFresh'
<1> USE NoneAssumption DEF LeaseInv
<1>1. LocksHeld'
  BY DEF LocksHeld, KeepsPlaces, KeepsPlace, Holding, TypeOK
<1>2. ASSUME NEW c \in Clients, pc[c] \in Holding
      PROVE  record'[slot[c]] = record[slot[c]]
  BY <1>2 DEF LocksHeld, KeepsPlaces, ClearsAtMostOne, TypeOK
<1>3. OwnRecords'
  BY <1>2 DEF OwnRecords, KeepsPlaces, KeepsPlace, Holding, TypeOK
<1>4. ASSUME NEW s \in Slots, record'[s].state # "idle"
      PROVE  record'[s] = record[s]
  BY <1>4 DEF KeepsPlaces, ClearsAtMostOne, TypeOK, IdleRecord
<1>5. NamesUnique'
  BY <1>4 DEF NamesUnique, KeepsPlaces, engineVars, TypeOK
<1>6. ASSUME NEW s \in Slots, record[s].state # "idle",
             work[record[s].id] = "running"
      PROVE  record'[s] = record[s]
  BY <1>6 DEF KeepsPlaces, ClearsAtMostOne, TypeOK
<1>7. FenceIsFresh'
  <2>1. \A r \in Requests \ crossed' : work'[r] = "running" =>
          \E s \in Slots : /\ record'[s].state # "idle"
                           /\ record'[s].id = r
                           /\ record'[s].at = epoch'
    BY <1>6 DEF FenceIsFresh, KeepsPlaces, engineVars
  <2>2. \A c \in Clients : pc'[c] \in Unsent =>
          /\ work'[mine'[c]] = "none"
          /\ mine'[c] \in crossed' \/ record'[slot'[c]].at = epoch'
    BY <1>2 DEF FenceIsFresh, KeepsPlaces, KeepsPlace, engineVars, Holding, Recorded
  <2>3. \A c \in Clients : pc'[c] = "clean" => work'[mine'[c]] # "running"
    BY DEF FenceIsFresh, KeepsPlaces, KeepsPlace, engineVars
  <2>4. QED
    BY <2>1, <2>2, <2>3 DEF FenceIsFresh, KeepsPlaces, engineVars
<1>8. QED
  BY <1>1, <1>3, <1>5, <1>7

(***************************************************************************)
(* What a client wants to clear: it reads the ids of left-over records, it *)
(* drops ids, and it goes on to clear them only when the engine is idle.   *)
(***************************************************************************)
OrphanIds == {record[s].id : s \in {i \in Slots : LeftOver(i)}}

SoughtStep(c) ==
  /\ pc' = [pc EXCEPT ![c] = pc'[c]]
  /\ sought' = [sought EXCEPT ![c] = sought'[c]]
  /\ sought'[c] \subseteq sought[c] \cup OrphanIds
  /\ pc'[c] \in {"clear", "sweepclear"} =>
       /\ sought'[c] \subseteq sought[c]
       /\ EngineIdle \/ pc[c] \in {"clear", "sweepclear"}

\* A left-over record belongs to no request that still runs: its owner would
\* be alive, and its record "running".
LEMMA OrphansAreOver ==
  ASSUME LeaseInv, NEW s \in Slots, LeftOver(s)
  PROVE  record[s].id \in named /\ \A d \in Clients : mine[d] # record[s].id
<1> USE DEF LeaseInv
<1>1. record[s].state # "idle" /\ record[s].id \in Requests
  BY LeftOverIsRequest DEF LeftOver
<1>2. SUFFICES ASSUME NEW d \in Clients, mine[d] = record[s].id PROVE FALSE
  BY <1>1 DEF NamesUnique
<1>3. pc[d] \in Recorded
  BY <1>1, <1>2, NoneAssumption DEF OwnRecords
<1>4. slot[d] = s
  BY <1>1, <1>2, <1>3 DEF OwnRecords, LocksHeld, NamesUnique, Holding
<1>5. record[s].state = "running" /\ record[s].pid = d /\ alive[d]
  BY <1>3, <1>4 DEF OwnRecords, LocksHeld, Recorded, Unsent
<1>6. QED
  BY <1>5 DEF LeftOver

LEMMA SoughtStepInv ==
  ASSUME LeaseInv, TypeOK', NEW c \in Clients, SoughtStep(c),
         UNCHANGED <<mine, named, work>>
  PROVE  SoughtIsOver'
<1> USE DEF LeaseInv
<1>1. ASSUME NEW r \in sought'[c]
      PROVE  r \in named /\ \A d \in Clients : mine[d] # r
  <2>1. CASE r \in sought[c]
    BY <2>1 DEF SoughtIsOver
  <2>2. CASE r \in OrphanIds
    BY <2>2, OrphansAreOver DEF OrphanIds
  <2>3. QED
    BY <2>1, <2>2 DEF SoughtStep
<1>2. \A a, d \in Clients : mine'[d] \notin sought'[a]
  BY <1>1 DEF SoughtStep, SoughtIsOver, TypeOK
<1>3. \A a \in Clients : sought'[a] \subseteq named'
  BY <1>1 DEF SoughtStep, SoughtIsOver, TypeOK
<1>4. ASSUME NEW a \in Clients, pc'[a] \in {"clear", "sweepclear"}, NEW r \in sought'[a]
      PROVE  work'[r] # "running"
  <2>1. CASE a = c
    BY <1>4, <2>1 DEF SoughtStep, SoughtIsOver, EngineIdle, TypeOK
  <2>2. CASE a # c
    BY <1>4, <2>2 DEF SoughtStep, SoughtIsOver, TypeOK
  <2>3. QED
    BY <2>1, <2>2
<1>5. QED
  BY <1>2, <1>3, <1>4 DEF SoughtIsOver

\* The two together: every step a client takes at its place.
LEMMA StayInv ==
  ASSUME LeaseInv, TypeOK', NEW c \in Clients, KeepsPlaces, SoughtStep(c)
  PROVE  LeaseInv'
  BY KeepsPlacesInv, SoughtStepInv DEF LeaseInv, KeepsPlaces, engineVars

\* A request that ends while it waits had nothing of its own on disk.
LEMMA ForgetStays ==
  ASSUME LeaseInv, NEW c \in Clients, pc[c] \in Waiting, Forget(c),
         UNCHANGED <<diskVars, alive, named, engineVars>>
  PROVE  KeepsPlaces /\ SoughtStep(c)
<1> USE DEF LeaseInv
<1>1. mine[c] = NoRequest /\ mine' = mine
  BY DEF Forget, OwnRecords, Waiting, Recorded, Unsent, TypeOK
<1>2. KeepsPlaces
  BY <1>1 DEF KeepsPlaces, KeepsPlace, ClearsAtMostOne, Forget, diskVars, LocksHeld,
     Waiting, Holding, Recorded, Unsent, TypeOK
<1>3. QED
  BY <1>2 DEF SoughtStep, Forget, TypeOK

LEMMA ClaimingStays ==
  ASSUME LeaseInv, NEW c \in Clients,
         \/ SkipBusy(c) \/ SkipFenced(c) \/ WaitForLive(c) \/ TimedOut(c)
         \/ Refuse(c) \/ GiveUp(c) \/ \E n \in 1 .. MaxSlots : Begin(c, n)
  PROVE  KeepsPlaces /\ SoughtStep(c)
<1> USE DEF LeaseInv, KeepsPlaces, KeepsPlace, ClearsAtMostOne, SoughtStep, LocksHeld,
      Waiting, Holding, Recorded, Unsent, Goto, diskVars, claimVars, TypeOK
<1>1. CASE SkipBusy(c)
  BY <1>1 DEF SkipBusy
<1>2. CASE SkipFenced(c)
  BY <1>2 DEF SkipFenced
<1>3. CASE WaitForLive(c)
  BY <1>3 DEF WaitForLive
<1>4. CASE TimedOut(c)
  BY <1>4, ForgetStays DEF TimedOut
<1>5. CASE Refuse(c)
  BY <1>5 DEF Refuse
<1>6. CASE GiveUp(c)
  BY <1>6, ForgetStays DEF GiveUp
<1>7. CASE \E n \in 1 .. MaxSlots : Begin(c, n)
  BY <1>7 DEF Begin
<1>8. QED
  BY <1>1, <1>2, <1>3, <1>4, <1>5, <1>6, <1>7

\* reconcile clears a record that nobody's lock covers, for an id it was asked
\* to clear while the engine was idle.
LEMMA ReconcileClears ==
  ASSUME LeaseInv, NEW c \in Clients, pc[c] \in {"clear", "sweepclear"},
         NEW r \in sought[c], NEW s \in Reconcilable(c, r),
         Write(s, IdleRecord)
  PROVE  ClearsAtMostOne
<1>1. s \in Slots
  BY OpenedInSlots DEF Reconcilable, LeaseInv
<1>2. work[record[s].id] # "running"
  BY DEF Reconcilable, LeaseInv, SoughtIsOver
<1>3. QED
  BY <1>1, <1>2 DEF ClearsAtMostOne, Reconcilable, Write

LEMMA SettlingStays ==
  ASSUME LeaseInv, NEW c \in Clients, Settling(c)
  PROVE  KeepsPlaces /\ SoughtStep(c)
<1> USE DEF LeaseInv, KeepsPlaces, KeepsPlace, SoughtStep, LocksHeld,
      Waiting, Holding, Recorded, Unsent, Goto, diskVars, claimVars, TypeOK
<1>1. ASSUME PollAgain(c), pc[c] \in Waiting, UNCHANGED <<diskVars, alive, named, engineVars>>
      PROVE  KeepsPlaces /\ SoughtStep(c)
  BY <1>1, ForgetStays DEF PollAgain, ClearsAtMostOne
<1>2. CASE RefusalStands(c)
  BY <1>2, ForgetStays DEF RefusalStands
<1>3. CASE StartSettling(c)
  BY <1>3 DEF StartSettling, ClearsAtMostOne
<1>4. CASE ReadLeftOver(c)
  <2>1. Ranked(c) \subseteq OrphanIds
    BY RankedIsRequests, OpenedInSlots DEF OrphanIds
  <2>2. QED
    BY <1>4, <2>1 DEF ReadLeftOver, ClaimAgain, ClearsAtMostOne
<1>5. CASE Probe(c)
  <2>1. CASE EngineIdle /\ Goto(c, "clear") /\ UNCHANGED <<claimVars, slot, mine, sought>>
    BY <1>5, <2>1 DEF Probe, ClearsAtMostOne
  <2>2. CASE PollAgain(c)
    BY <1>1, <1>5, <2>2 DEF Probe
  <2>3. CASE Forget(c)
    BY <1>5, <2>3, ForgetStays DEF Probe
  <2>4. QED
    BY <1>5, <2>1, <2>2, <2>3 DEF Probe
<1>6. CASE ClearLeftOver(c)
  BY <1>6, ReconcileClears DEF ClearLeftOver, ClaimAgain
<1>7. CASE LeftOverChanged(c)
  BY <1>1, <1>7 DEF LeftOverChanged
<1>8. QED
  BY <1>2, <1>3, <1>4, <1>5, <1>6, <1>7 DEF Settling

LEMMA SweepingStays ==
  ASSUME LeaseInv, NEW c \in Clients, Sweeping(c) \/ SweepFails(c)
  PROVE  KeepsPlaces /\ SoughtStep(c)
<1> USE DEF LeaseInv, KeepsPlaces, KeepsPlace, SoughtStep, LocksHeld,
      Waiting, Holding, Recorded, Unsent, Goto, diskVars, claimVars, TypeOK
<1>1. CASE Sweep(c)
  <2>1. {record[s].id : s \in {i \in Opened(c) : LeftOver(i)}} \subseteq OrphanIds
    BY OpenedInSlots DEF OrphanIds
  <2>2. QED
    BY <1>1, <2>1 DEF Sweep, ClearsAtMostOne
<1>2. CASE Ask(c)
  BY <1>2 DEF Ask, ClearsAtMostOne
<1>3. CASE SweepClear(c)
  <2>1. ClearsAtMostOne
    BY <1>3, ReconcileClears DEF SweepClear, ClearsAtMostOne
  <2>2. QED
    BY <1>3, <2>1 DEF SweepClear
<1>4. CASE SweepFails(c)
  BY <1>4 DEF SweepFails, ClearsAtMostOne, FenceIsFresh
<1>5. QED
  BY <1>1, <1>2, <1>3, <1>4 DEF Sweeping

LEMMA EndingStays ==
  ASSUME LeaseInv, NEW c \in Clients, Rejected(c) \/ Complete(c) \/ CutOff(c)
  PROVE  KeepsPlaces /\ SoughtStep(c)
<1> USE DEF LeaseInv, KeepsPlaces, KeepsPlace, SoughtStep, LocksHeld, ClearsAtMostOne,
      Waiting, Holding, Recorded, Unsent, Goto, diskVars, claimVars, TypeOK
<1>1. CASE Rejected(c)
  BY <1>1 DEF Rejected, FenceIsFresh
<1>2. CASE Complete(c)
  BY <1>2 DEF Complete
<1>3. CASE CutOff(c)
  BY <1>3 DEF CutOff
<1>4. QED
  BY <1>1, <1>2, <1>3

LEMMA ControlsInv ==
  ASSUME LeaseInv, TypeOK', NEW s \in Slots, Controls(s)
  PROVE  LeaseInv'
<1>1. KeepsPlaces
  BY DEF Controls, KeepsPlaces, KeepsPlace, ClearsAtMostOne, Write, LeaseInv, LocksHeld, engineVars
<1>2. SoughtIsOver'
  BY DEF Controls, LeaseInv, SoughtIsOver, engineVars
<1>3. QED
  BY <1>1, <1>2, KeepsPlacesInv DEF LeaseInv

(***************************************************************************)
(* Taking a slot, naming the request, sending it, leaving the slot.        *)
(***************************************************************************)

\* The premise of the stale-owner check: the record of a generation that did not
\* cross an engine start is as young as the engine, so a record older than the
\* engine fences none of them.
LEMMA StaleIsOverInv == LeaseInv => StaleIsOverUnlessCrossed
<1> SUFFICES ASSUME LeaseInv, NEW s \in Slots, StaleLease(s), record[s].id \notin crossed,
                    work[record[s].id] = "running"
             PROVE  FALSE
  BY DEF StaleIsOverUnlessCrossed
<1> USE DEF LeaseInv
<1>1. record[s].state # "idle" /\ record[s].id \in Requests /\ record[s].at \in 0 .. MaxEpoch
  BY LeftOverIsRequest DEF StaleLease
<1>2. PICK t \in Slots : record[t].state # "idle" /\ record[t].id = record[s].id
                         /\ record[t].at = epoch
  BY <1>1 DEF FenceIsFresh
<1>3. s = t
  BY <1>1, <1>2 DEF NamesUnique
<1>4. QED
  BY <1>1, <1>2, <1>3, BoundAssumption DEF StaleLease, TypeOK

LEMMA TakeSlotInv ==
  ASSUME LeaseInv, TypeOK', NEW c \in Clients, TakeSlot(c)
  PROVE  LeaseInv'
<1> USE NoneAssumption DEF LeaseInv, TakeSlot, Write, Goto, claimVars, engineVars
<1>1. slot[c] \in Slots /\ lock[slot[c]] = NoClient /\ alive[c]
  BY BoundAssumption DEF TypeOK, Slots, LocksHeld
<1>2. record[slot[c]].state # "idle" /\ record[slot[c]].id \notin crossed
        => work[record[slot[c]].id] # "running"
  BY <1>1, StaleIsOverInv DEF StaleIsOverUnlessCrossed
<1>3. ASSUME NEW s \in Slots, s # slot[c]
      PROVE  record'[s] = record[s] /\ lock'[s] = lock[s]
  BY <1>3 DEF TypeOK
<1>4. record'[slot[c]] = IdleRecord /\ lock'[slot[c]] = c
  BY <1>1 DEF TypeOK
<1>5. ASSUME NEW d \in Clients, d # c
      PROVE  pc'[d] = pc[d] /\ (pc[d] \in Holding => slot[d] \in Slots /\ slot[d] # slot[c])
  BY <1>1, <1>5 DEF TypeOK, LocksHeld
<1>6. pc'[c] = "granted" /\ pc[c] \notin Holding
  BY DEF TypeOK, Holding, Recorded, Unsent
<1>7. LocksHeld'
  <2>1. \A d \in Clients : pc'[d] # "idle" => alive'[d]
    BY <1>1, <1>5, <1>6 DEF LocksHeld
  <2>2. \A d \in Clients : pc'[d] \in Holding => slot'[d] \in Slots /\ lock'[slot'[d]] = d
    BY <1>1, <1>3, <1>4, <1>5 DEF LocksHeld
  <2>3. \A s \in Slots : lock'[s] # NoClient =>
          pc'[lock'[s]] \in Holding /\ slot'[lock'[s]] = s
    BY <1>3, <1>4, <1>5, <1>6 DEF LocksHeld, Holding, TypeOK
  <2>4. QED
    BY <2>1, <2>2, <2>3 DEF LocksHeld
<1>8. OwnRecords'
  BY <1>3, <1>4, <1>5, <1>6 DEF OwnRecords, IdleRecord, Holding, Recorded, Unsent
<1>9. NamesUnique'
  BY <1>3, <1>4 DEF NamesUnique, IdleRecord
<1>10. FenceIsFresh'
  <2>1. \A r \in Requests \ crossed' : work'[r] = "running" =>
          \E s \in Slots : /\ record'[s].state # "idle"
                           /\ record'[s].id = r
                           /\ record'[s].at = epoch'
    BY <1>2, <1>3 DEF FenceIsFresh
  <2>2. \A d \in Clients : pc'[d] \in Unsent =>
          /\ work'[mine'[d]] = "none"
          /\ mine'[d] \in crossed' \/ record'[slot'[d]].at = epoch'
    BY <1>3, <1>5, <1>6 DEF FenceIsFresh, Holding, Recorded, Unsent
  <2>3. \A d \in Clients : pc'[d] = "clean" => work'[mine'[d]] # "running"
    BY <1>5, <1>6 DEF FenceIsFresh
  <2>4. QED
    BY <2>1, <2>2, <2>3 DEF FenceIsFresh, KeepsPlaces, engineVars
<1>11. SoughtIsOver'
  BY <1>5, <1>6 DEF SoughtIsOver
<1>12. QED
  BY <1>7, <1>8, <1>9, <1>10, <1>11

LEMMA WriteRunningInv ==
  ASSUME LeaseInv, TypeOK', NEW c \in Clients, NEW r \in Requests, WriteRunning(c, r)
  PROVE  LeaseInv'
<1> USE NoneAssumption DEF LeaseInv, WriteRunning, Write, Goto, claimVars, engineVars
<1>1. pc[c] = "granted" /\ slot[c] \in Slots /\ lock[slot[c]] = c /\ r \notin named
  BY DEF LocksHeld, Holding
<1>2. record'[slot[c]] = Record("running", r, c) /\ mine'[c] = r /\ pc'[c] \in Unsent
  BY <1>1 DEF TypeOK, Unsent
<1>3. ASSUME NEW s \in Slots, s # slot[c] PROVE record'[s] = record[s]
  BY <1>3 DEF TypeOK
<1>4. ASSUME NEW d \in Clients, d # c
      PROVE  /\ pc'[d] = pc[d] /\ mine'[d] = mine[d]
             /\ pc[d] \in Holding => slot[d] \in Slots /\ slot[d] # slot[c]
  BY <1>1, <1>4 DEF TypeOK, LocksHeld
<1>5. record[slot[c]].state = "idle" /\ work[r] = "none"
  BY <1>1 DEF OwnRecords, NamesUnique, TypeOK
<1>6. LocksHeld'
  BY <1>1, <1>2, <1>4 DEF LocksHeld, Holding, Recorded, TypeOK
<1>7. OwnRecords'
  BY <1>2, <1>3, <1>4 DEF OwnRecords, Record, Holding, Recorded, Unsent
<1>8. NamesUnique'
  BY <1>1, <1>2, <1>3, <1>5 DEF NamesUnique, Record
<1>9. FenceIsFresh'
  <2>1. \A q \in Requests \ crossed' : work'[q] = "running" =>
          \E s \in Slots : /\ record'[s].state # "idle"
                           /\ record'[s].id = q
                           /\ record'[s].at = epoch'
    BY <1>3, <1>5 DEF FenceIsFresh
  <2>2. \A d \in Clients : pc'[d] \in Unsent =>
          /\ work'[mine'[d]] = "none"
          /\ mine'[d] \in crossed' \/ record'[slot'[d]].at = epoch'
    BY <1>2, <1>3, <1>4, <1>5 DEF FenceIsFresh, Record, Holding, Recorded
  <2>3. \A d \in Clients : pc'[d] = "clean" => work'[mine'[d]] # "running"
    BY <1>2, <1>4 DEF FenceIsFresh, Unsent
  <2>4. QED
    BY <2>1, <2>2, <2>3 DEF FenceIsFresh, KeepsPlaces, engineVars
<1>10. SoughtIsOver'
  BY <1>1, <1>2, <1>4 DEF SoughtIsOver, Unsent, TypeOK
<1>11. QED
  BY <1>6, <1>7, <1>8, <1>9, <1>10

LEMMA SendInv ==
  ASSUME LeaseInv, TypeOK', NEW c \in Clients, Send(c)
  PROVE  LeaseInv'
<1> USE NoneAssumption DEF LeaseInv, Send, Goto, claimVars, engineVars, diskVars
<1>1. /\ pc[c] = "ready" /\ slot[c] \in Slots
      /\ mine[c] \in crossed \/ record[slot[c]].at = epoch
      /\ record[slot[c]].state = "running" /\ record[slot[c]].id = mine[c]
  BY DEF LocksHeld, OwnRecords, FenceIsFresh, Holding, Recorded, Unsent
<1>2. mine[c] \in Requests /\ mine[c] \in named
  BY <1>1, LeftOverIsRequest DEF NamesUnique
<1>3. ASSUME NEW d \in Clients, d # c, pc[d] \in Recorded PROVE mine[d] # mine[c]
  <2>1. slot[d] \in Slots /\ slot[d] # slot[c]
    BY <1>1, <1>3 DEF LocksHeld, Holding, Recorded, Unsent
  <2>2. QED
    BY <1>1, <1>3, <2>1 DEF OwnRecords, NamesUnique
<1>4. pc' = [pc EXCEPT ![c] = "sent"] /\ work' = [work EXCEPT ![mine[c]] = "running"]
  OBVIOUS
<1>5. LocksHeld'
  BY <1>1, <1>4 DEF LocksHeld, Holding, Recorded, Unsent, TypeOK
<1>6. OwnRecords'
  BY <1>1, <1>4 DEF OwnRecords, Recorded, Unsent, TypeOK
<1>7. NamesUnique'
  BY <1>2, <1>4 DEF NamesUnique, TypeOK
<1>8. FenceIsFresh'
  <2>1. \A r \in Requests \ crossed' : work'[r] = "running" =>
          \E s \in Slots : /\ record'[s].state # "idle"
                           /\ record'[s].id = r
                           /\ record'[s].at = epoch'
    BY <1>1, <1>2, <1>4 DEF FenceIsFresh, TypeOK
  <2>2. \A d \in Clients : pc'[d] \in Unsent =>
          /\ work'[mine'[d]] = "none"
          /\ mine'[d] \in crossed' \/ record'[slot'[d]].at = epoch'
    BY <1>1, <1>2, <1>3, <1>4 DEF FenceIsFresh, Recorded, Unsent, TypeOK
  <2>3. \A d \in Clients : pc'[d] = "clean" => work'[mine'[d]] # "running"
    BY <1>1, <1>2, <1>3, <1>4 DEF FenceIsFresh, Recorded, TypeOK
  <2>4. QED
    BY <2>1, <2>2, <2>3 DEF FenceIsFresh, KeepsPlaces, engineVars
<1>9. SoughtIsOver'
  BY <1>2, <1>4 DEF SoughtIsOver, TypeOK
<1>10. QED
  BY <1>5, <1>6, <1>7, <1>8, <1>9

\* What a leaving request may do to the record of the slot it held: leave it,
\* make it idle when its request is over, make it "uncertain" for the same
\* request, or name a fresh request over an idle one.
LeavesRecord(c) ==
  LET old == record[slot[c]]
      new == record'[slot[c]]
  IN  \/ new = old
      \/ new.state = "idle" /\ (old.state # "idle" => work[old.id] # "running")
      \/ old.state # "idle" /\ new.state # "idle" /\ new.id = old.id /\ new.at = epoch
      \/ old.state = "idle" /\ new.id \in named' \ named

LEMMA LeaveInv ==
  ASSUME LeaseInv, TypeOK', NEW c \in Clients, Forget(c), Unlock(c),
         named \subseteq named', UNCHANGED engineVars,
         \A d \in Clients \ {c} : alive'[d] = alive[d],
         \A s \in Slots : (pc[c] \in Holding => s # slot[c]) => record'[s] = record[s],
         pc[c] \in Holding => LeavesRecord(c)
  PROVE  LeaseInv'
<1> USE NoneAssumption DEF LeaseInv, engineVars
<1>1. pc'[c] = "idle" /\ mine'[c] = NoRequest /\ sought'[c] = {} /\ "idle" \notin Holding
  BY DEF Forget, TypeOK, Holding, Recorded, Unsent
<1>2. ASSUME NEW d \in Clients, d # c
      PROVE  /\ pc'[d] = pc[d] /\ mine'[d] = mine[d] /\ slot'[d] = slot[d]
             /\ sought'[d] = sought[d]
             /\ pc[d] \in Holding => /\ slot[d] \in Slots
                                     /\ record'[slot[d]] = record[slot[d]]
                                     /\ lock'[slot[d]] = d
  BY <1>2 DEF Forget, Unlock, TypeOK, LocksHeld
<1>3. LocksHeld'
  <2>1. \A d \in Clients : pc'[d] # "idle" => alive'[d]
    BY <1>1, <1>2 DEF LocksHeld
  <2>2. \A d \in Clients : pc'[d] \in Holding => slot'[d] \in Slots /\ lock'[slot'[d]] = d
    BY <1>1, <1>2
  <2>3. \A s \in Slots : lock'[s] # NoClient => lock'[s] = lock[s] /\ lock[s] \in Clients \ {c}
    BY DEF Unlock, TypeOK
  <2>4. \A s \in Slots : lock'[s] # NoClient =>
          pc'[lock'[s]] \in Holding /\ slot'[lock'[s]] = s
    BY <1>2, <2>3 DEF LocksHeld
  <2>5. QED
    BY <2>1, <2>2, <2>4 DEF LocksHeld
<1>4. OwnRecords'
  BY <1>1, <1>2 DEF OwnRecords, Holding, Recorded, Unsent
<1>5. ASSUME NEW s \in Slots, record'[s].state # "idle"
      PROVE  \/ record'[s].id \in named' \ named /\ pc[c] \in Holding /\ s = slot[c]
             \/ record[s].state # "idle" /\ record'[s].id = record[s].id
  BY <1>5 DEF LeavesRecord
<1>6. NamesUnique'
  BY <1>5 DEF NamesUnique
<1>7. FenceIsFresh'
  <2>1. ASSUME NEW r \in Requests \ crossed', work'[r] = "running"
        PROVE  \E s \in Slots : /\ record'[s].state # "idle"
                                /\ record'[s].id = r
                                /\ record'[s].at = epoch'
    <3>1. PICK s \in Slots : /\ record[s].state # "idle"
                             /\ record[s].id = r
                             /\ record[s].at = epoch
      BY <2>1 DEF FenceIsFresh
    <3>2. record'[s].state # "idle" /\ record'[s].id = r /\ record'[s].at = epoch'
      BY <2>1, <3>1 DEF LeavesRecord
    <3>3. QED
      BY <3>2
  <2>2. \A d \in Clients : pc'[d] \in Unsent =>
          /\ work'[mine'[d]] = "none"
          /\ mine'[d] \in crossed' \/ record'[slot'[d]].at = epoch'
    BY <1>1, <1>2 DEF FenceIsFresh, Holding, Recorded
  <2>3. \A d \in Clients : pc'[d] = "clean" => work'[mine'[d]] # "running"
    BY <1>1, <1>2 DEF FenceIsFresh
  <2>4. QED
    BY <2>1, <2>2, <2>3 DEF FenceIsFresh, KeepsPlaces, engineVars
<1>8. SoughtIsOver'
  <2>1. \A a, d \in Clients : mine'[d] \notin sought'[a]
    BY <1>1, <1>2 DEF SoughtIsOver, TypeOK
  <2>2. \A a \in Clients : sought'[a] \subseteq named'
    BY <1>1, <1>2 DEF SoughtIsOver
  <2>3. \A a \in Clients : pc'[a] \in {"clear", "sweepclear"} =>
          \A r \in sought'[a] : work'[r] # "running"
    BY <1>1, <1>2 DEF SoughtIsOver
  <2>4. QED
    BY <2>1, <2>2, <2>3 DEF SoughtIsOver
<1>9. QED
  BY <1>3, <1>4, <1>6, <1>7, <1>8

LEMMA LeavingInv ==
  ASSUME LeaseInv, TypeOK', NEW c \in Clients,
         \/ ExitClean(c) \/ ExitCut(c) \/ Crash(c)
         \/ \E r \in Requests : WriteRunningFails(c, r)
  PROVE  LeaseInv'
<1> USE DEF LeaseInv
<1>1. pc[c] \in Holding => slot[c] \in Slots
  BY DEF LocksHeld
<1>2. CASE ExitClean(c)
  <2>1. pc[c] \in Holding /\ record[slot[c]].id = mine[c] /\ work[mine[c]] # "running"
    BY <1>2 DEF ExitClean, OwnRecords, FenceIsFresh, Holding, Recorded
  <2>2. LeavesRecord(c)
    BY <1>1, <1>2, <2>1 DEF ExitClean, WriteMayFail, Write, LeavesRecord, IdleRecord, TypeOK
  <2>3. QED
    BY <1>2, <2>1, <2>2, LeaveInv DEF ExitClean, WriteMayFail, Write, TypeOK
<1>3. CASE ExitCut(c)
  <2>1. pc[c] \in Holding /\ record[slot[c]].id = mine[c] /\ record[slot[c]].state # "idle"
    BY <1>3 DEF ExitCut, OwnRecords, Holding, Recorded
  <2>2. LeavesRecord(c)
    BY <1>1, <1>3, <2>1 DEF ExitCut, WriteMayFail, Write, LeavesRecord, Record, TypeOK
  <2>3. QED
    BY <1>3, <2>1, <2>2, LeaveInv DEF ExitCut, WriteMayFail, Write, TypeOK
<1>4. CASE Crash(c)
  BY <1>4, LeaveInv DEF Crash, LeavesRecord, TypeOK
<1>5. ASSUME NEW r \in Requests, WriteRunningFails(c, r) PROVE LeaseInv'
  <2>1. pc[c] \in Holding /\ record[slot[c]].state = "idle" /\ r \in named' \ named
    BY <1>5 DEF WriteRunningFails, OwnRecords, Holding
  <2>2. LeavesRecord(c)
    BY <1>1, <1>5, <2>1 DEF WriteRunningFails, WriteMayFail, Write, LeavesRecord, Record, TypeOK
  <2>3. QED
    BY <1>5, <2>1, <2>2, LeaveInv DEF WriteRunningFails, WriteMayFail, Write, TypeOK
<1>6. QED
  BY <1>2, <1>3, <1>4, <1>5

(***************************************************************************)
(* The processes and the engine.                                           *)
(***************************************************************************)
LEMMA EngineInv ==
  ASSUME LeaseInv, TypeOK',
         \/ \E c \in Clients : Restart(c)
         \/ \E r \in Requests : Return(r)
         \/ EngineStop \/ EngineStart
  PROVE  LeaseInv'
<1> USE DEF LeaseInv, LocksHeld, OwnRecords, NamesUnique, FenceIsFresh, SoughtIsOver,
      diskVars, claimVars, engineVars, TypeOK
<1>1. ASSUME NEW c \in Clients, Restart(c) PROVE LeaseInv'
  BY <1>1 DEF Restart
<1>2. ASSUME NEW r \in Requests, Return(r) PROVE LeaseInv'
  BY <1>2 DEF Return
<1>3. CASE EngineStop
  <2>1. \A r \in Requests : /\ work'[r] # "running"
                            /\ work'[r] = "none" <=> work[r] = "none"
    BY <1>3 DEF EngineStop
  <2>2. LocksHeld' /\ OwnRecords'
    BY <1>3 DEF EngineStop
  <2>3. NamesUnique'
    BY <1>3, <2>1 DEF EngineStop
  <2>4. FenceIsFresh'
    <3>1. ASSUME NEW c \in Clients, pc[c] \in Recorded PROVE mine[c] \in Requests
      BY <3>1, LeftOverIsRequest DEF Holding
    <3>2. QED
      BY <1>3, <2>1, <3>1 DEF EngineStop, Recorded
  <2>5. SoughtIsOver'
    BY <1>3, <2>1 DEF EngineStop
  <2>6. QED
    BY <2>2, <2>3, <2>4, <2>5
<1>4. CASE EngineStart
  <2>1. \A r \in Requests : work[r] # "running"
    BY <1>4 DEF EngineStart
  <2>2. \A c \in Clients : pc[c] \in Unsent =>
          mine[c] \in named /\ work[mine[c]] = "none" /\ mine[c] \in crossed'
    BY <1>4 DEF EngineStart, Holding, Recorded
  <2>3. LocksHeld' /\ OwnRecords' /\ NamesUnique' /\ SoughtIsOver'
    BY <1>4, <2>2 DEF EngineStart
  <2>4. FenceIsFresh'
    BY <1>4, <2>1, <2>2 DEF EngineStart
  <2>5. QED
    BY <2>3, <2>4
<1>5. QED
  BY <1>1, <1>2, <1>3, <1>4

(***************************************************************************)
(* The inductive invariant and the theorems.                               *)
(***************************************************************************)
LEMMA InitInv == Init => LeaseInv
<1> SUFFICES ASSUME Init PROVE LeaseInv
  OBVIOUS
<1>1. TypeOK
  BY TypeInit
<1>2. LocksHeld /\ OwnRecords
  BY DEF Init, LocksHeld, OwnRecords, Holding, Recorded, Unsent
<1>3. NamesUnique /\ FenceIsFresh /\ SoughtIsOver
  BY DEF Init, NamesUnique, FenceIsFresh, SoughtIsOver, IdleRecord, Unsent
<1>4. QED
  BY <1>1, <1>2, <1>3 DEF LeaseInv

LEMMA NextType ==
  ASSUME LeaseInv, [Next]_vars
  PROVE  TypeOK'
<1> USE DEF LeaseInv
<1>1. ASSUME NEW c \in Clients, Claiming(c) PROVE TypeOK'
  BY <1>1, TypeClaiming
<1>2. ASSUME NEW c \in Clients, Settling(c) PROVE TypeOK'
  BY <1>2, TypeSettling
<1>3. ASSUME NEW c \in Clients, Sweeping(c) \/ SweepFails(c) PROVE TypeOK'
  BY <1>3, TypeSweeping
<1>4. ASSUME NEW c \in Clients, Running(c) \/ CutOff(c) PROVE TypeOK'
  <2>1. pc[c] \in Recorded => mine[c] \in Requests
    BY LeftOverIsRequest DEF OwnRecords, LocksHeld, Holding
  <2>2. QED
    BY <1>4, <2>1, TypeRunning
<1>5. CASE UNCHANGED vars
  BY <1>5 DEF vars, TypeOK
<1>6. \A c \in Clients : pc[c] \in Unsent => mine[c] \in Requests
  BY LeftOverIsRequest DEF OwnRecords, LocksHeld, Holding, Recorded
<1>7. QED
  BY <1>1, <1>2, <1>3, <1>4, <1>5, <1>6, TypeEnvironment DEF Next, Step

LEMMA NextInv ==
  ASSUME LeaseInv, [Next]_vars
  PROVE  LeaseInv'
<1>1. TypeOK'
  BY NextType
<1>2. ASSUME NEW c \in Clients, Claiming(c) PROVE LeaseInv'
  BY <1>1, <1>2, StayInv, ClaimingStays, TakeSlotInv, WriteRunningInv, LeavingInv
     DEF Claiming
<1>3. ASSUME NEW c \in Clients, Settling(c) PROVE LeaseInv'
  BY <1>1, <1>3, StayInv, SettlingStays
<1>4. ASSUME NEW c \in Clients, Sweeping(c) \/ SweepFails(c) PROVE LeaseInv'
  BY <1>1, <1>4, StayInv, SweepingStays
<1>5. ASSUME NEW c \in Clients, Running(c) \/ CutOff(c) PROVE LeaseInv'
  BY <1>1, <1>5, StayInv, EndingStays, SendInv, LeavingInv DEF Running
<1>6. ASSUME NEW c \in Clients, GiveUp(c) \/ \E n \in 1 .. MaxSlots : Begin(c, n)
      PROVE  LeaseInv'
  BY <1>1, <1>6, StayInv, ClaimingStays
<1>7. CASE UNCHANGED vars
  BY <1>1, <1>7 DEF vars, LeaseInv, LocksHeld, OwnRecords, NamesUnique, FenceIsFresh, SoughtIsOver
<1>8. QED
  BY <1>1, <1>2, <1>3, <1>4, <1>5, <1>6, <1>7, LeavingInv, ControlsInv, EngineInv
     DEF Next, Step

\* A record that names a request after a step named it before, or names a
\* fresh one.
LEMMA NamesAreFresh ==
  ASSUME LeaseInv, [Next]_vars, NEW t \in Slots, record'[t].state # "idle"
  PROVE  \/ record[t].state # "idle" /\ record'[t].id = record[t].id
         \/ record'[t].id \notin named
<1> USE DEF LeaseInv
<1>1. ASSUME ClearsAtMostOne
      PROVE  record[t].state # "idle" /\ record'[t].id = record[t].id
  BY <1>1 DEF ClearsAtMostOne, IdleRecord, TypeOK
<1>2. ASSUME NEW c \in Clients, Claiming(c)
      PROVE  \/ record[t].state # "idle" /\ record'[t].id = record[t].id
             \/ record'[t].id \notin named
  <2>1. CASE TakeSlot(c)
    BY <2>1 DEF TakeSlot, Write, IdleRecord, TypeOK
  <2>2. ASSUME NEW r \in Requests, WriteRunning(c, r) \/ WriteRunningFails(c, r)
        PROVE  \/ record[t].state # "idle" /\ record'[t].id = record[t].id
               \/ record'[t].id \notin named
    BY <2>2 DEF WriteRunning, WriteRunningFails, WriteMayFail, Write, Record, TypeOK
  <2>3. QED
    BY <1>1, <1>2, <2>1, <2>2, ClaimingStays DEF Claiming, KeepsPlaces
<1>3. ASSUME NEW c \in Clients, Running(c) \/ CutOff(c)
      PROVE  record[t].state # "idle" /\ record'[t].id = record[t].id
  <2>1. CASE Send(c)
    BY <2>1 DEF Send, diskVars
  <2>2. CASE ExitClean(c)
    BY <2>2 DEF ExitClean, WriteMayFail, Write, IdleRecord, TypeOK
  <2>3. CASE ExitCut(c)
    BY <2>3 DEF ExitCut, WriteMayFail, Write, Record, OwnRecords, Recorded, TypeOK
  <2>4. QED
    BY <1>1, <1>3, <2>1, <2>2, <2>3, EndingStays DEF Running, KeepsPlaces
<1>4. ASSUME NEW s \in Slots, Controls(s)
      PROVE  record[t].state # "idle" /\ record'[t].id = record[t].id
  BY <1>4 DEF Controls, Write, IdleRecord, TypeOK
<1>5. ASSUME \/ \E c \in Clients : Crash(c) \/ Restart(c)
             \/ \E r \in Requests : Return(r)
             \/ EngineStop \/ EngineStart
             \/ UNCHANGED vars
      PROVE  record' = record
  BY <1>5 DEF Crash, Restart, Return, EngineStop, EngineStart, vars, diskVars
<1>6. QED
  BY <1>1, <1>2, <1>3, <1>4, <1>5, SettlingStays, SweepingStays, ClaimingStays
     DEF Next, Step, KeepsPlaces

\* A record is taken from a request the engine still works on in one way only:
\* a claim finds it stale.
LEMMA OnlyStaleIsTaken ==
  ASSUME LeaseInv, [Next]_vars, NEW s \in Slots, record[s].state # "idle",
         record'[s].id # record[s].id, work'[record[s].id] = "running"
  PROVE  StaleLease(s) /\ work' = work /\ \E c \in Clients : TakeSlot(c) /\ slot[c] = s
<1> USE DEF LeaseInv
<1>1. record[s].id \in Requests
  BY LeftOverIsRequest
<1>2. ASSUME ClearsAtMostOne, work' = work PROVE FALSE
  BY <1>2 DEF ClearsAtMostOne, TypeOK
<1>3. ASSUME NEW c \in Clients, Claiming(c)
      PROVE  StaleLease(s) /\ work' = work /\ TakeSlot(c) /\ slot[c] = s
  <2>1. CASE TakeSlot(c)
    BY <2>1 DEF TakeSlot, Write, TypeOK, engineVars
  <2>2. ASSUME NEW r \in Requests, WriteRunning(c, r) \/ WriteRunningFails(c, r)
        PROVE  FALSE
    BY <2>2 DEF WriteRunning, WriteRunningFails, WriteMayFail, Write, OwnRecords, TypeOK
  <2>3. QED
    BY <1>2, <1>3, <2>1, <2>2, ClaimingStays DEF Claiming, KeepsPlaces, engineVars
<1>4. ASSUME NEW c \in Clients, Running(c) \/ CutOff(c) PROVE FALSE
  <2>1. CASE Send(c)
    BY <2>1 DEF Send, diskVars
  <2>2. CASE ExitClean(c)
    BY <2>2 DEF ExitClean, WriteMayFail, Write, OwnRecords, FenceIsFresh, Recorded, TypeOK,
       engineVars
  <2>3. CASE ExitCut(c)
    BY <2>3 DEF ExitCut, WriteMayFail, Write, Record, OwnRecords, Recorded, TypeOK
  <2>4. QED
    BY <1>2, <1>4, <2>1, <2>2, <2>3, EndingStays DEF Running, KeepsPlaces, engineVars
<1>5. ASSUME NEW t \in Slots, Controls(t) PROVE FALSE
  BY <1>5 DEF Controls, Write, TypeOK, engineVars
<1>6. ASSUME \/ \E c \in Clients : Crash(c) \/ Restart(c)
             \/ \E r \in Requests : Return(r)
             \/ EngineStop \/ EngineStart
             \/ UNCHANGED vars
      PROVE  FALSE
  BY <1>6 DEF Crash, Restart, Return, EngineStop, EngineStart, vars, diskVars
<1>7. QED
  BY <1>2, <1>3, <1>4, <1>5, <1>6, SettlingStays, SweepingStays, ClaimingStays
     DEF Next, Step, KeepsPlaces, engineVars

\* The invariant behind every theorem below, over every behaviour of the lease:
\* requests that cross an engine start are among them, and crossed names them.
THEOREM LeaseInvariant == Spec => []LeaseInv
<1>1. LeaseInv /\ [Next]_vars => LeaseInv'
  BY NextInv
<1>2. QED
  BY <1>1, InitInv, PTL DEF Spec

\* Every variable keeps its type.
THEOREM TypeCorrect == Spec => []TypeOK
<1>1. LeaseInv => TypeOK
  BY DEF LeaseInv
<1>2. QED
  BY <1>1, LeaseInvariant, PTL

\* A generation the engine works on is named by some slot's record, unless its
\* request crossed an engine start and is no longer at work in its process.
THEOREM FenceHolds == Spec => []Fence
<1>1. LeaseInv => Fence
  <2> SUFFICES ASSUME LeaseInv, NEW r \in Requests, work[r] = "running",
                      r \in crossed => \E c \in Clients : mine[c] = r
               PROVE  \E s \in Slots : record[s].state # "idle" /\ record[s].id = r
    BY DEF Fence
  <2>1. CASE r \notin crossed
    BY <2>1 DEF LeaseInv, FenceIsFresh
  <2>2. ASSUME NEW c \in Clients, mine[c] = r
        PROVE  \E s \in Slots : record[s].state # "idle" /\ record[s].id = r
    <3>1. pc[c] \in Recorded
      BY <2>2, NoneAssumption DEF LeaseInv, OwnRecords
    <3>2. QED
      BY <2>2, <3>1 DEF LeaseInv, LocksHeld, OwnRecords, Holding
  <2>3. QED
    BY <2>1, <2>2
<1>2. QED
  BY <1>1, LeaseInvariant, PTL

\* A running request's record is its own for as long as it runs.
THEOREM LiveRecordsStand == Spec => []LiveRecordStands
<1>1. LeaseInv => LiveRecordStands
  <2> SUFFICES ASSUME LeaseInv, NEW c \in Clients, pc[c] \in Recorded
               PROVE  /\ lock[slot[c]] = c
                      /\ record[slot[c]] = [record[slot[c]] EXCEPT
                           !.state = "running", !.id = mine[c], !.pid = c]
    BY DEF LiveRecordStands
  <2>1. slot[c] \in Slots /\ lock[slot[c]] = c
    BY DEF LeaseInv, LocksHeld, Holding
  <2>2. /\ record[slot[c]].state = "running" /\ record[slot[c]].id = mine[c]
        /\ record[slot[c]].pid = c
    BY DEF LeaseInv, OwnRecords
  <2>3. record[slot[c]] \in [state : {"running", "uncertain"}, id : Requests,
                             pid : Clients, at : 0 .. MaxEpoch]
    BY <2>1, <2>2 DEF LeaseInv, TypeOK, Records, IdleRecord
  <2>4. QED
    BY <2>1, <2>2, <2>3
<1>2. QED
  BY <1>1, LeaseInvariant, PTL

\* What a client is about to clear is never sent in the meantime.
THEOREM SoughtIsNeverSent == Spec => []SoughtNeverSent
<1>1. LeaseInv => SoughtNeverSent
  BY DEF LeaseInv, SoughtIsOver, SoughtNeverSent
<1>2. QED
  BY <1>1, LeaseInvariant, PTL

\* With a gone owner and a newer engine nothing is in flight, of the requests
\* that did not cross an engine start: of those the stale-owner check is right.
THEOREM StaleLeaseIsOver == Spec => []StaleIsOverUnlessCrossed
<1>1. QED
  BY StaleIsOverInv, LeaseInvariant, PTL

\* A step that removes a request's record leaves no generation behind, unless
\* it takes the stale record of a request that crossed an engine start.
THEOREM ClearingIsSafe == Spec => ClearedOnlyWhenOver
<1>1. LeaseInv /\ [Next]_vars =>
        [\A s \in Slots : record[s].state # "idle" /\ record'[s].id # record[s].id
           => \/ work'[record[s].id] # "running"
              \/ record[s].id \in crossed /\ StaleLease(s)]_vars
  <2> SUFFICES ASSUME LeaseInv, [Next]_vars, NEW s \in Slots,
                      record[s].state # "idle", record'[s].id # record[s].id,
                      work'[record[s].id] = "running"
               PROVE  record[s].id \in crossed /\ StaleLease(s)
    OBVIOUS
  <2>1. StaleLease(s) /\ work' = work
    BY OnlyStaleIsTaken
  <2>2. QED
    BY <2>1, StaleIsOverInv DEF StaleIsOverUnlessCrossed
<1>2. QED
  BY <1>1, LeaseInvariant, PTL DEF Spec, ClearedOnlyWhenOver

(***************************************************************************)
(* Refinement of EngineLanes: the record that names a generation is its    *)
(* lane, and stays so for as long as the generation goes on.               *)
(***************************************************************************)

\* An id is in one record at most.
LEMMA OneLane ==
  ASSUME LeaseInv, NEW s \in Slots, NEW t \in Slots, NEW r \in Requests,
         record[s].id = r, record[t].id = r
  PROVE  s = t
<1>1. ASSUME NEW u \in Slots, record[u].id = r PROVE record[u].state # "idle"
  <2>1. record[u] \in Records
    BY DEF LeaseInv, TypeOK
  <2>2. QED
    BY <1>1, <2>1, NoneAssumption DEF Records, IdleRecord
<1>2. QED
  BY <1>1 DEF LeaseInv, NamesUnique

\* What goes on running stays in its lane, unless its record is taken as stale.
LEMMA LaneStays ==
  ASSUME LeaseInv, LeaseInv', [Next]_vars, NEW s \in Slots, NEW r \in Requests,
         work[r] = "running", work'[r] = "running",
         \A c \in Clients : TakeSlot(c) => record[slot[c]].id # r
  PROVE  record[s].id = r <=> record'[s].id = r
<1>1. r \in named
  BY DEF LeaseInv, NamesUnique
<1>2. ASSUME record'[s].id = r PROVE record[s].id = r
  <2>0. record'[s] \in Records
    BY DEF LeaseInv, TypeOK
  <2>1. record'[s].state # "idle"
    BY <1>2, <2>0, NoneAssumption DEF Records, IdleRecord
  <2>2. QED
    BY <1>1, <1>2, <2>1, NamesAreFresh
<1>3. ASSUME record[s].id = r PROVE record'[s].id = r
  <2>0. record[s] \in Records
    BY DEF LeaseInv, TypeOK
  <2>1. record[s].state # "idle"
    BY <1>3, <2>0, NoneAssumption DEF Records, IdleRecord
  <2>2. QED
    BY <1>3, <2>1, OnlyStaleIsTaken
<1>4. QED
  BY <1>2, <1>3

\* What is in flight is in a lane or was given up; never both.
LEMMA CarriedIsInFlight ==
  ASSUME LeaseInv
  PROVE  Lanes!Carried = InFlight \ GivenUp /\ GivenUp \subseteq InFlight
<1>1. ASSUME NEW r \in InFlight, r \notin GivenUp
      PROVE  \E s \in Slots : record[s].id = r
  BY <1>1 DEF GivenUp, InFlight, LeaseInv, FenceIsFresh
<1>2. QED
  BY <1>1 DEF Lanes!Carried, InLane, GivenUp

\* Four kinds of steps touch the engine's work on requests, or those that
\* crossed a start.
LEMMA WorkChanges ==
  ASSUME [Next]_vars
  PROVE  \/ \E c \in Clients : Send(c)
         \/ \E r \in Requests : Return(r)
         \/ EngineStop \/ EngineStart
         \/ work' = work /\ crossed' = crossed
<1> USE DEF engineVars
<1>1. ASSUME NEW c \in Clients, Claiming(c) PROVE work' = work /\ crossed' = crossed
  BY <1>1 DEF Claiming, SkipBusy, SkipFenced, TakeSlot, WaitForLive, TimedOut, Refuse,
     WriteRunning, WriteRunningFails
<1>2. ASSUME NEW c \in Clients, Settling(c) PROVE work' = work /\ crossed' = crossed
  BY <1>2 DEF Settling, RefusalStands, StartSettling, ReadLeftOver, Probe, ClearLeftOver,
     LeftOverChanged
<1>3. ASSUME NEW c \in Clients, Sweeping(c) \/ SweepFails(c)
      PROVE  work' = work /\ crossed' = crossed
  BY <1>3 DEF Sweeping, Sweep, Ask, SweepClear, SweepFails
<1>4. ASSUME NEW c \in Clients, Running(c) \/ CutOff(c)
      PROVE  Send(c) \/ (work' = work /\ crossed' = crossed)
  BY <1>4 DEF Running, Rejected, Complete, ExitClean, ExitCut, CutOff
<1>5. ASSUME NEW c \in Clients,
             GiveUp(c) \/ Crash(c) \/ Restart(c) \/ \E n \in 1 .. MaxSlots : Begin(c, n)
      PROVE  work' = work /\ crossed' = crossed
  BY <1>5 DEF GiveUp, Crash, Restart, Begin
<1>6. ASSUME (\E s \in Slots : Controls(s)) \/ UNCHANGED vars
      PROVE  work' = work /\ crossed' = crossed
  BY <1>6 DEF Controls, vars
<1>7. QED
  BY <1>1, <1>2, <1>3, <1>4, <1>5, <1>6 DEF Next, Step

\* A step that leaves the work, the crossed requests and the names of what is in
\* flight as they are is not one of the lanes.
LEMMA LanesStay ==
  ASSUME LeaseInv, LeaseInv', work' = work,
         \A r \in InFlight : r \in crossed' <=> r \in crossed,
         \A s \in Slots, r \in InFlight : record'[s].id = r <=> record[s].id = r
  PROVE  UNCHANGED <<InLane, Over>>
<1>1. InFlight' = InFlight
  BY DEF InFlight
<1>2. ASSUME NEW s \in Slots PROVE InLane'[s] = InLane[s]
  BY <1>1 DEF InLane
<1>3. InLane' = InLane
  BY <1>2 DEF InLane
<1>4. GivenUp' = GivenUp
  BY <1>1 DEF GivenUp
<1>5. QED
  BY <1>3, <1>4 DEF Over

\* Taking the stale record of a request in flight frees its lane.
LEMMA TakingIsReturning ==
  ASSUME LeaseInv, LeaseInv', [Next]_vars, NEW c \in Clients, TakeSlot(c),
         NEW r \in InFlight, record[slot[c]].id = r
  PROVE  \E l \in Slots : Lanes!Return(r, l)
<1>1. /\ slot[c] \in Slots /\ work' = work /\ crossed' = crossed
      /\ record' = [record EXCEPT ![slot[c]] = IdleRecord]
  BY BoundAssumption DEF TakeSlot, Write, engineVars, LeaseInv, TypeOK, Slots
<1>2. PICK l \in Slots : l = slot[c]
  BY <1>1
<1>3. r \in Requests /\ work[r] = "running" /\ InFlight' = InFlight
  BY <1>1 DEF InFlight
<1>4. record[l].state # "idle"
  BY SMTT(30), <1>2, <1>3, NoneAssumption DEF LeaseInv, TypeOK, Records, IdleRecord
<1>5. record'[l] = IdleRecord /\ \A s \in Slots : s # l => record'[s] = record[s]
  BY <1>1, <1>2 DEF LeaseInv, TypeOK
<1>6. r \in crossed
  BY <1>2, <1>3, <1>4, StaleIsOverInv DEF TakeSlot, StaleIsOverUnlessCrossed
<1>7. InLane[l] = {r}
  BY <1>2 DEF InLane
<1>8. \A s \in Slots : record[s].id = r => s = l
  BY <1>2, <1>3, OneLane
<1>9. InLane' = [InLane EXCEPT ![l] = {}]
  <2>1. ASSUME NEW s \in Slots PROVE InLane'[s] = [InLane EXCEPT ![l] = {}][s]
    BY <1>3, <1>5, NoneAssumption DEF InLane, InFlight, IdleRecord
  <2>2. QED
    BY <2>1 DEF InLane
<1>10. GivenUp' = GivenUp \cup {r}
  <2>1. ASSUME NEW q \in InFlight, q # r
        PROVE  \A s \in Slots : record'[s].id # q <=> record[s].id # q
    BY <1>2, <1>5, <2>1, NoneAssumption DEF InFlight, IdleRecord
  <2>2. \A s \in Slots : record'[s].id # r
    BY <1>3, <1>5, <1>8, NoneAssumption DEF IdleRecord
  <2>3. QED
    BY <1>1, <1>3, <1>6, <2>1, <2>2 DEF GivenUp
<1>11. Over' = Over \cup {r}
  BY <1>1, <1>10 DEF Over
<1>12. QED
  BY <1>7, <1>9, <1>11 DEF Lanes!Return

\* The lease implements EngineLanes: one request in flight per slot, none sent
\* twice, and no slot reused while its request is being worked on, but for the
\* stale record of a request that crossed an engine start.
THEOREM LeaseImplementsLanes == Spec => OneRequestPerLane
<1>1. Init => Lanes!Init
  BY DEF Init, Lanes!Init, InLane, InFlight, GivenUp, Over
<1>2. LeaseInv /\ LeaseInv' /\ [Next]_vars => [Lanes!Next]_<<InLane, Over>>
  <2> SUFFICES ASSUME LeaseInv, LeaseInv', [Next]_vars
               PROVE  Lanes!Next \/ UNCHANGED <<InLane, Over>>
    OBVIOUS
  <2>1. ASSUME NEW c \in Clients, Send(c) PROVE Lanes!Next
    <3>1. /\ slot[c] \in Slots /\ record[slot[c]].id = mine[c]
          /\ record[slot[c]].state # "idle" /\ work[mine[c]] = "none"
      BY <2>1 DEF Send, LeaseInv, LocksHeld, OwnRecords, FenceIsFresh, Holding, Recorded, Unsent
    <3>2. mine[c] \in Requests
      BY <3>1, LeftOverIsRequest DEF LeaseInv
    <3>3. PICK r \in Requests, l \in Slots : r = mine[c] /\ l = slot[c]
      BY <3>1, <3>2
    <3>4. work' = [work EXCEPT ![r] = "running"] /\ record' = record /\ crossed' = crossed
      BY <2>1, <3>3 DEF Send, diskVars
    <3>5. InFlight' = InFlight \cup {r}
      BY <3>1, <3>3, <3>4 DEF LeaseInv, TypeOK, InFlight
    <3>6. GivenUp' = GivenUp
      BY <3>1, <3>3, <3>4, <3>5 DEF GivenUp
    <3>7. Over' = Over
      BY <3>1, <3>3, <3>4, <3>6 DEF LeaseInv, TypeOK, Over
    <3>8. r \notin InFlight \cup Over
      BY <3>1, <3>3 DEF InFlight, GivenUp, Over
    <3>9. InLane[l] = {}
      BY <3>1, <3>3, <3>8 DEF InLane
    <3>10. InLane' = [InLane EXCEPT ![l] = {r}]
      <4>1. ASSUME NEW s \in Slots PROVE InLane'[s] = [InLane EXCEPT ![l] = {r}][s]
        BY <3>1, <3>3, <3>4, <3>5, <3>9, OneLane DEF InLane
      <4>2. QED
        BY <4>1 DEF InLane
    <3>11. Lanes!Send(r, l)
      BY <3>7, <3>8, <3>9, <3>10, CarriedIsInFlight DEF Lanes!Send
    <3>12. QED
      BY <3>11 DEF Lanes!Next
  <2>2. ASSUME NEW r \in Requests, Return(r) PROVE Lanes!Next \/ UNCHANGED <<InLane, Over>>
    <3>1. /\ r \in InFlight /\ record' = record /\ crossed' = crossed
          /\ InFlight' = InFlight \ {r}
      BY <2>2 DEF Return, LeaseInv, TypeOK, InFlight, diskVars
    <3>2. GivenUp' = GivenUp \ {r}
      BY <3>1 DEF GivenUp
    <3>3. Over' = Over \cup {r}
      BY <2>2, <3>2 DEF Return, LeaseInv, TypeOK, Over
    <3>4. CASE r \in GivenUp
      <4>1. \A s \in Slots : r \notin InLane[s]
        BY <3>4 DEF GivenUp, InLane
      <4>2. ASSUME NEW s \in Slots PROVE InLane'[s] = InLane[s]
        BY <3>1, <4>1 DEF InLane
      <4>3. InLane' = InLane
        BY <4>2 DEF InLane
      <4>4. Over' = Over
        BY <3>3, <3>4 DEF Over
      <4>5. QED
        BY <4>3, <4>4
    <3>5. CASE r \notin GivenUp
      <4>1. PICK l \in Slots : record[l].id = r
        BY <3>1, <3>5 DEF InFlight, GivenUp, LeaseInv, FenceIsFresh
      <4>2. InLane[l] = {r}
        BY <3>1, <4>1 DEF InLane
      <4>3. InLane' = [InLane EXCEPT ![l] = {}]
        <5>1. ASSUME NEW s \in Slots PROVE InLane'[s] = [InLane EXCEPT ![l] = {}][s]
          BY <3>1, <4>1, OneLane DEF InLane
        <5>2. QED
          BY <5>1 DEF InLane
      <4>4. QED
        BY <3>3, <4>2, <4>3 DEF Lanes!Return, Lanes!Next
    <3>6. QED
      BY <3>4, <3>5
  <2>3. CASE EngineStop
    <3>1. InFlight' = {}
      BY <2>3 DEF EngineStop, InFlight
    <3>2. Over' = Over \cup (InFlight \ GivenUp)
      BY <2>3, <3>1 DEF EngineStop, InFlight, GivenUp, Over
    <3>3. InLane' = [s \in Slots |-> {}]
      BY <3>1 DEF InLane
    <3>4. QED
      BY <3>2, <3>3, CarriedIsInFlight DEF Lanes!Next, Lanes!Stop
  <2>4. CASE EngineStart
    <3>1. record' = record /\ work' = work /\ InFlight = {}
      BY <2>4 DEF EngineStart, diskVars, LeaseInv, FenceIsFresh, InFlight
    <3>2. QED
      BY <3>1, LanesStay
  <2>5. CASE /\ work' = work /\ crossed' = crossed
             /\ \A c \in Clients : TakeSlot(c) => record[slot[c]].id \notin InFlight
    <3>1. ASSUME NEW s \in Slots, NEW r \in InFlight
          PROVE  record'[s].id = r <=> record[s].id = r
      <4>1. r \in Requests /\ work[r] = "running" /\ work'[r] = "running"
        BY <2>5 DEF InFlight
      <4>2. \A c \in Clients : TakeSlot(c) => record[slot[c]].id # r
        BY <2>5
      <4>3. QED
        BY <4>1, <4>2, LaneStays
    <3>2. QED
      BY <2>5, <3>1, LanesStay
  <2>6. ASSUME NEW c \in Clients, TakeSlot(c), record[slot[c]].id \in InFlight
        PROVE  Lanes!Next
    <3>1. \E l \in Slots : Lanes!Return(record[slot[c]].id, l)
      BY <2>6, TakingIsReturning
    <3>2. QED
      BY <2>6, <3>1 DEF InFlight, Lanes!Next
  <2>7. QED
    BY <2>1, <2>2, <2>3, <2>4, <2>5, <2>6, WorkChanges
<1>3. QED
  BY <1>1, <1>2, LeaseInvariant, PTL DEF Spec, OneRequestPerLane, Lanes!Spec

=============================================================================
