-------------------------- MODULE ManagedTaskProofs --------------------------
(***************************************************************************)
(* Proofs about ManagedTask for every set of handler calls and every       *)
(* number of turns, invocations and failing writes.                        *)
(*                                                                         *)
(* TaskInv is inductive.  Beside the two invariants of the runs it says    *)
(* where the driver can be: what is owed while it works belongs to its own *)
(* invocation (OnRecord), a running phase stands for the turn it is in     *)
(* (Accounted), the receipt, the task row and the reset come from one      *)
(* another (InOrder), and a resumed run was admitted with nothing owed     *)
(* (Resuming).  There is a lemma for each action; a write that fails has   *)
(* the ledger before it or after it, and the driver on its error path      *)
(* (RecordOutcome).  The action properties and the refinement of           *)
(* CheckedTask follow from a description of each kind of step.             *)
(***************************************************************************)
EXTENDS ManagedTask, TLAPS

AtWork == {"contract_due", "contract", "attach", "loop", "decided", "turn", "review",
          "complete", "project", "boundary", "compare", "archive", "reset",
          "requested", "cleared"}

Pcs == AtWork \cup {"finish", "failing", "settling", "idle", "claim"}

Drivers ==
  [pc : Pcs,
   accepting : BOOLEAN, stopped : BOOLEAN, failed : BOOLEAN, dead : BOOLEAN,
   note : BOOLEAN, steps : Nat, result : Outcomes, acted : BOOLEAN, mine : SUBSET Actions]

Ledgers ==
  [status : {"running"} \cup Outcomes, phase : Phases, uncertain : BOOLEAN, managed : BOOLEAN,
   unresolved : [Actions -> {"none", "intent", "error", "interrupted"}],
   recent : BOOLEAN, revision : Nat, receipt : [id : Nat, revision : Nat],
   completed : Nat, boundary : {"none", "prepared", "acknowledged"},
   generation : {0, 1}, archive : SUBSET Talks, recovery : Snapshots, before : Snapshots]

Bounds == [invocations : Nat, faults : Nat]

Typed == TypeOK /\ drv \in Drivers /\ bounds \in Bounds

\* Effects that are not known are on the ledger; while the driver is at work
\* on the task they are its own, and a handler is inside only during a turn
\* and after one was stopped.
OnRecord ==
  /\ Owed \subseteq Unresolved
  /\ drv.pc \in AtWork => Owed \subseteq drv.mine
  /\ Inside # {} => drv.pc \in {"turn", "settling"}

\* A driver at work has accounted for every turn but the one it is in.
Accounted ==
  /\ doubt \/ ledger.uncertain => Running
  /\ drv.pc = "contract" => ledger.phase = "contract_running" /\ ~ledger.uncertain
  /\ drv.pc = "turn" => ledger.phase = "worker_running"
  /\ Running => drv.pc \notin AtWork \ {"contract", "turn", "requested"}

\* The receipt, the row and the reset, each from the one before.
InOrder ==
  /\ row # 0 => row = ledger.completed
  /\ ledger.boundary # "none" => row # 0
  /\ ledger.generation = IF ledger.boundary = "acknowledged" THEN 1 ELSE 0
  /\ drv.pc \in {"compare", "archive", "reset"} => ledger.boundary = "prepared"
  /\ drv.pc = "reset" => talk \in ledger.archive \cup {"head"}

\* A run that goes on after its claim was admitted with nothing owed, and
\* past a Stop only with the owner's note.
Resuming ==
  drv.pc \in {"requested", "cleared"} =>
    Unresolved = {} /\ (ledger.recovery.pending = "stopped" => drv.note)

\* The inductive invariant.
TaskInv == Typed /\ OnRecord /\ Accounted /\ RecoveryUsable /\ InOrder /\ Resuming

----------------------------------------------------------------------------
(* The recovery rules keep a snapshot loadable.                            *)

LEMMA FreshLoads == FreshSnapshot \in Snapshots /\ Loads(FreshSnapshot)
BY PolicyAssumption DEF FreshSnapshot, Snapshots, Reasons, Decisions, Loads, ControllerLoads, RuntimeLoads

LEMMA SnapshotFields ==
  ASSUME NEW r \in Snapshots
  PROVE  /\ r.status \in {"active", "needs_help", "blocked", "stopped"} /\ r.reason \in Reasons
         /\ r.attempts \in 0..MaxAttempts /\ r.help \in 0..HelpLimit /\ r.total \in 0..MaxAttempts
         /\ r.pending \in Decisions \cup {"none"}
         /\ MaxAttempts \in Nat /\ HelpLimit \in Nat
BY PolicyAssumption DEF Snapshots

LEMMA TerminalFields ==
  ASSUME NEW r \in Snapshots, NEW word \in {"needs_help", "blocked", "stopped"}, NEW reason \in Reasons
  PROVE  LET t == Terminal(r, word, reason)
         IN  /\ t \in Snapshots
             /\ t.status = word /\ t.reason = reason /\ t.pending = word
             /\ t.attempts = r.attempts /\ t.help = r.help /\ t.total = r.total
BY DEF Snapshots, Decisions, Terminal

LEMMA ClearedLoads ==
  ASSUME NEW r \in Snapshots, Loads(r), r.pending = "none"
  PROVE  Cleared(r) \in Snapshots /\ Loads(Cleared(r)) /\ Cleared(r).pending = "none"
<1> DEFINE s == Cleared(r)
<1>0. 0 \in 0..MaxAttempts
  BY SnapshotFields
<1>1. /\ s \in Snapshots
      /\ s.status = r.status /\ s.reason = "none" /\ s.pending = r.pending
      /\ s.attempts = 0 /\ s.help = r.help /\ s.total = r.total
  BY <1>0 DEF Cleared, Snapshots, Reasons
<1>2. r.status = "active"
  BY DEF Loads, RuntimeLoads
<1> HIDE DEF s
<1> QED BY <1>1, <1>2, SnapshotFields DEF Loads, ControllerLoads, RuntimeLoads, s

LEMMA SignalLoads ==
  ASSUME NEW r \in Snapshots, Loads(r), r.pending = "none"
  PROVE  Signal(r) \in Snapshots /\ Loads(Signal(r)) /\ Signal(r).pending # "stopped"
<1> DEFINE s == Signal(r)
<1>1. r.status = "active" /\ r.help = 0 /\ r.attempts <= r.total /\ r.total <= MaxAttempts
  BY DEF Loads, ControllerLoads, RuntimeLoads
<1>2. CASE r.attempts < MaxAttempts /\ r.total < MaxAttempts
  <2>0. r.attempts + 1 \in 0..MaxAttempts /\ r.total + 1 \in 0..MaxAttempts
    BY <1>2, SnapshotFields
  <2>1. /\ s \in Snapshots
        /\ s.status = r.status /\ s.reason = "stuck" /\ s.pending = "recover"
        /\ s.attempts = r.attempts + 1 /\ s.help = r.help /\ s.total = r.total + 1
    BY <1>2, <2>0 DEF Signal, Snapshots, Reasons, Decisions
  <2> HIDE DEF s
  <2> QED BY <1>1, <1>2, <2>1, SnapshotFields DEF Loads, ControllerLoads, RuntimeLoads, s
<1>3. CASE ~(r.attempts < MaxAttempts /\ r.total < MaxAttempts)
  <2> DEFINE full == [r EXCEPT !.attempts = MaxAttempts]
  <2>1. r.total = MaxAttempts
    BY <1>1, <1>3, SnapshotFields
  <2>2. MaxAttempts \in 0..MaxAttempts
    BY SnapshotFields
  <2>3. /\ full \in Snapshots /\ full.attempts = MaxAttempts /\ full.help = 0
        /\ full.total = MaxAttempts
    BY <1>1, <2>1, <2>2 DEF Snapshots
  <2>4. CASE r.help < HelpLimit
    <3> DEFINE more == [full EXCEPT !.help = @ + 1]
               t    == Terminal(more, "needs_help", "stuck")
    <3>1. 0 + 1 = 1 /\ 1 \in 0..HelpLimit
      BY <1>1, <2>4, SnapshotFields
    <3>2. more \in Snapshots /\ more.attempts = MaxAttempts /\ more.help = 1 /\ more.total = MaxAttempts
      BY <2>3, <3>1 DEF Snapshots
    <3>3. s = t
      BY <1>3, <2>4 DEF Signal, Exhausted
    <3>4. /\ s \in Snapshots
          /\ s.status = "needs_help" /\ s.reason = "stuck" /\ s.pending = "needs_help"
          /\ s.attempts = MaxAttempts /\ s.help = 1 /\ s.total = MaxAttempts
      <4> HIDE DEF s, more
      <4> QED BY <3>2, <3>3, TerminalFields DEF Reasons
    <3> HIDE DEF t, s
    <3>5. Loads(s)
      BY <3>4, PolicyAssumption DEF Loads, ControllerLoads, RuntimeLoads
    <3> QED BY <3>4, <3>5 DEF s
  <2>5. CASE ~(r.help < HelpLimit)
    <3> DEFINE t == Terminal(full, "blocked", "stuck")
    <3>1. s = t
      BY <1>3, <2>5 DEF Signal, Exhausted
    <3>2. HelpLimit = 0
      BY <1>1, <2>5, SnapshotFields
    <3>3. /\ s \in Snapshots
          /\ s.status = "blocked" /\ s.reason = "stuck" /\ s.pending = "blocked"
          /\ s.attempts = MaxAttempts /\ s.help = 0 /\ s.total = MaxAttempts
      <4> HIDE DEF s, full
      <4> QED BY <2>3, <3>1, TerminalFields DEF Reasons
    <3> HIDE DEF t, s
    <3>4. Loads(s)
      BY <3>2, <3>3, PolicyAssumption DEF Loads, ControllerLoads, RuntimeLoads
    <3> QED BY <3>3, <3>4 DEF s
  <2> QED BY <2>4, <2>5
<1> QED BY <1>2, <1>3

LEMMA CapacityLoads ==
  ASSUME NEW r \in Snapshots, Loads(r), r.status = "active"
  PROVE  LET t == Terminal(r, "blocked", "capacity")
         IN  t \in Snapshots /\ Loads(t) /\ t.pending = "blocked"
BY TerminalFields DEF Reasons, Loads, ControllerLoads, RuntimeLoads

LEMMA ObservingLoads ==
  ASSUME NEW r \in Snapshots, Loads(r), r.pending = "none", NEW s \in AfterObserving(r)
  PROVE  s \in Snapshots /\ Loads(s) /\ s.pending # "stopped"
<1>1. r.status = "active"
  BY DEF Loads, RuntimeLoads
<1>2. s \in {r, Cleared(r), Signal(r), Terminal(r, "blocked", "capacity")}
  BY DEF AfterObserving
<1> QED BY <1>1, <1>2, ClearedLoads, SignalLoads, CapacityLoads

LEMMA StopLoads ==
  ASSUME NEW r \in Snapshots, Loads(r)
  PROVE  /\ AfterStop(r) \in Snapshots /\ Loads(AfterStop(r)) /\ AfterStop(r).pending = "stopped"
         /\ \A f \in {"attempts", "help", "total"} : r[f] = AfterStop(r)[f]
<1>1. /\ r.attempts <= r.total /\ r.total <= MaxAttempts
  BY DEF Loads, RuntimeLoads
<1> QED BY <1>1, TerminalFields DEF Reasons, Loads, ControllerLoads, RuntimeLoads, AfterStop

LEMMA BlockLoads ==
  ASSUME NEW r \in Snapshots, Loads(r)
  PROVE  /\ AfterBlock(r) \in Snapshots /\ Loads(AfterBlock(r))
         /\ r.pending = "stopped" => AfterBlock(r) = r
         /\ r.pending # "stopped" => AfterBlock(r).pending # "stopped"
<1>1. CASE r.pending \in {"none", "recover"}
  <2>1. r.status = "active"
    BY <1>1 DEF Loads, RuntimeLoads
  <2> QED BY <1>1, <2>1, CapacityLoads DEF AfterBlock
<1>2. CASE r.pending \notin {"none", "recover"}
  BY <1>2 DEF AfterBlock
<1> QED BY <1>1, <1>2

LEMMA InterventionLoads ==
  ASSUME NEW r \in Snapshots, Loads(r), r.pending = "recover"
  PROVE  /\ AfterIntervention(r) \in Snapshots /\ Loads(AfterIntervention(r))
         /\ AfterIntervention(r).pending = "none"
<1> DEFINE s == AfterIntervention(r)
<1>1. /\ s \in Snapshots
      /\ s.status = r.status /\ s.reason = r.reason /\ s.pending = "none"
      /\ s.attempts = r.attempts /\ s.help = r.help /\ s.total = r.total
  BY DEF AfterIntervention, Snapshots
<1> HIDE DEF s
<1> QED BY <1>1 DEF Loads, ControllerLoads, RuntimeLoads, s

----------------------------------------------------------------------------
(* What a write of the ledger may leave behind, and what no part of the    *)
(* invariant depends on.                                                   *)

LEMMA TypedFacts ==
  Typed <=> /\ ledger \in Ledgers /\ torn \in BOOLEAN /\ row \in Nat /\ talk \in Talks
            /\ doubt \in BOOLEAN
            /\ fate \in [Actions -> {"new", "running", "known", "unknown", "reported"}]
            /\ drv \in Drivers /\ bounds \in Bounds
BY DEF Typed, TypeOK, Ledgers, Drivers

LEMMA RecordOutcome ==
  ASSUME NEW next, NEW ok, NEW raised, Record(next, ok, raised)
  PROVE  /\ ~drv.dead
         /\ \/ ledger' = next /\ drv' = ok
            \/ ledger' \in {ledger, next} /\ drv' \in {raised, [raised EXCEPT !.dead = TRUE]}
BY DEF Record, Refused

LEMMA DriverTerms ==
  ASSUME Typed
  PROVE  /\ \A pc \in Pcs : Goto(pc) \in Drivers /\ Driver(pc) \in Drivers
         /\ \A o \in Outcomes : Finish(o) \in Drivers
         /\ Failing \in Drivers
         /\ \A d \in Drivers : Shut(d) \in Drivers
<1>1. drv \in Drivers
  BY DEF Typed
<1>2. /\ "done" \in Outcomes /\ {} \in SUBSET Actions /\ 0 \in Nat
      /\ "finish" \in Pcs /\ "failing" \in Pcs
  BY DEF Outcomes, Pcs
<1> QED BY <1>1, <1>2 DEF Drivers, Goto, Driver, Finish, Failing, Shut

\* What a write of the ledger must leave typed.
TypedWrite == ledger' \in Ledgers /\ drv' \in Drivers /\ torn' \in BOOLEAN /\ bounds' \in Bounds

LEMMA RecordTyped ==
  ASSUME Typed, NEW next \in Ledgers, NEW ok \in Drivers, NEW raised \in Drivers,
         Record(next, ok, raised)
  PROVE  TypedWrite
<1>1. [raised EXCEPT !.dead = TRUE] \in Drivers
  BY DEF Drivers
<1>2. [bounds EXCEPT !.faults = @ + 1] \in Bounds
  BY TypedFacts DEF Bounds
<1> HIDE DEF Drivers, Ledgers, Bounds
<1> QED BY <1>1, <1>2, TypedFacts DEF Record, Refused, TypedWrite

LEMMA TypedNext ==
  ASSUME TypedWrite, row' \in Nat, talk' \in Talks, doubt' \in BOOLEAN,
         fate' \in [Actions -> {"new", "running", "known", "unknown", "reported"}]
  PROVE  Typed'
BY DEF TypedWrite, Typed, TypeOK, Ledgers, Drivers

\* The parts of the ledger that the loop itself never writes.
SameCore ==
  /\ ledger'.unresolved = ledger.unresolved
  /\ ledger'.recovery = ledger.recovery /\ ledger'.before = ledger.before
  /\ ledger'.completed = ledger.completed /\ ledger'.boundary = ledger.boundary
  /\ ledger'.generation = ledger.generation

LEMMA OnRecordKept ==
  ASSUME OnRecord, fate' = fate, ledger'.unresolved = ledger.unresolved,
         drv'.pc \in AtWork => drv.pc \in AtWork /\ drv'.mine = drv.mine,
         Inside # {} => drv'.pc \in {"turn", "settling"}
  PROVE  OnRecord'
BY DEF OnRecord, Owed, Unresolved, Inside

LEMMA UsableKept ==
  ASSUME RecoveryUsable, ledger'.recovery = ledger.recovery, ledger'.before = ledger.before
  PROVE  RecoveryUsable'
BY DEF RecoveryUsable

LEMMA InOrderKept ==
  ASSUME InOrder, row' = row, ledger'.completed = ledger.completed,
         ledger'.boundary = ledger.boundary, ledger'.generation = ledger.generation,
         drv'.pc \notin {"compare", "archive", "reset"}
  PROVE  InOrder'
BY DEF InOrder

\* Accounted, of the state after the step.
Accounting ==
  /\ doubt' \/ ledger'.uncertain => ledger'.phase \in {"contract_running", "worker_running"}
  /\ drv'.pc = "contract" => ledger'.phase = "contract_running" /\ ~ledger'.uncertain
  /\ drv'.pc = "turn" => ledger'.phase = "worker_running"
  /\ ledger'.phase \in {"contract_running", "worker_running"} =>
       drv'.pc \notin AtWork \ {"contract", "turn", "requested"}

\* A step that is about nothing but the turn it belongs to.
LEMMA OrdinaryKeeps ==
  ASSUME TaskInv, TypedWrite, SameCore, UNCHANGED <<row, fate>>,
         talk' \in Talks, doubt' \in BOOLEAN, Accounting,
         drv'.pc \in AtWork => drv.pc \in AtWork /\ drv'.mine = drv.mine,
         Inside # {} => drv'.pc \in {"turn", "settling"},
         drv'.pc \notin {"compare", "archive", "reset", "requested", "cleared"}
  PROVE  TaskInv'
<1>1. Typed'
  BY TypedFacts, TypedNext DEF TaskInv
<1>2. OnRecord'
  BY OnRecordKept DEF TaskInv, SameCore
<1>3. Accounted'
  BY DEF Accounting, Accounted, Running
<1>4. RecoveryUsable'
  BY UsableKept DEF TaskInv, SameCore
<1>5. InOrder'
  BY InOrderKept DEF TaskInv, SameCore
<1>6. Resuming'
  BY DEF Resuming
<1> QED BY <1>1, <1>2, <1>3, <1>4, <1>5, <1>6 DEF TaskInv

LEMMA StartContractKeeps ==
  ASSUME TaskInv, StartContract
  PROVE  TaskInv'
<1> DEFINE next == [ledger EXCEPT !.phase = "contract_running"]
<1>1. drv.pc = "contract_due" /\ Record(next, Goto("contract"), Failing)
  BY DEF StartContract, Note
<1>2. TypedWrite
  <2>1. next \in Ledgers
    BY TypedFacts DEF TaskInv, Ledgers, Phases
  <2> QED BY <1>1, <2>1, RecordTyped, DriverTerms DEF TaskInv, Pcs, AtWork
<1>3. /\ SameCore /\ drv'.mine = drv.mine /\ ledger'.uncertain = ledger.uncertain
      /\ \/ drv'.pc = "contract" /\ ledger'.phase = "contract_running"
         \/ drv'.pc = "failing" /\ ledger'.phase \in {ledger.phase, "contract_running"}
  BY <1>1, RecordOutcome, TypedFacts DEF TaskInv, Drivers, Ledgers, SameCore, Goto, Failing
<1>4. talk' \in Talks /\ doubt' \in BOOLEAN
  BY TypedFacts DEF TaskInv, StartContract, Talks
<1>5. Accounting
  BY <1>1, <1>3 DEF TaskInv, Accounted, Accounting, StartContract, Running, AtWork
<1>6. UNCHANGED <<row, fate>> /\ Inside = {}
  BY <1>1 DEF StartContract, TaskInv, OnRecord
<1> QED BY <1>1, <1>2, <1>3, <1>4, <1>5, <1>6, OrdinaryKeeps DEF AtWork

LEMMA EstablishContractKeeps ==
  ASSUME TaskInv, EstablishContract
  PROVE  TaskInv'
<1> DEFINE next == [ledger EXCEPT !.phase = "ready"]
<1>1. drv.pc = "contract" /\ Record(next, Goto("attach"), Failing)
  BY DEF EstablishContract, Note
<1>2. TypedWrite
  <2>1. next \in Ledgers
    BY TypedFacts DEF TaskInv, Ledgers, Phases
  <2> QED BY <1>1, <2>1, RecordTyped, DriverTerms DEF TaskInv, Pcs, AtWork
<1>3. /\ SameCore /\ drv'.mine = drv.mine /\ ledger'.uncertain = ledger.uncertain
      /\ \/ drv'.pc = "attach" /\ ledger'.phase = "ready"
         \/ drv'.pc = "failing" /\ ledger'.phase = "ready"
         \/ drv'.pc = "failing" /\ ledger' = ledger
  BY <1>1, RecordOutcome, TypedFacts DEF TaskInv, Drivers, Ledgers, SameCore, Goto, Failing
<1>4. talk' \in Talks /\ doubt' \in BOOLEAN
  BY TypedFacts DEF TaskInv, EstablishContract
<1>5. Accounting
  <2>1. ledger.phase = "contract_running" /\ ~ledger.uncertain
    BY <1>1 DEF TaskInv, Accounted
  <2> QED BY <1>3, <2>1 DEF Accounting, EstablishContract, AtWork
<1>6. UNCHANGED <<row, fate>> /\ Inside = {}
  BY <1>1 DEF EstablishContract, TaskInv, OnRecord
<1> QED BY <1>1, <1>2, <1>3, <1>4, <1>5, <1>6, OrdinaryKeeps DEF AtWork

LEMMA AttachKeeps ==
  ASSUME TaskInv, Attach
  PROVE  TaskInv'
<1> DEFINE next == [ledger EXCEPT !.managed = TRUE]
           goto == IF ledger.completed # 0 THEN Goto("complete") ELSE Goto("loop")
<1>1. /\ drv.pc = "attach"
      /\ \/ drv' = goto /\ UNCHANGED <<ledger, torn, bounds>>
         \/ Record(next, goto, Failing)
  BY DEF Attach, Note
<1>2. TypedWrite
  <2>1. next \in Ledgers /\ goto \in Drivers /\ Failing \in Drivers
    BY TypedFacts, DriverTerms DEF TaskInv, Ledgers, Pcs, AtWork
  <2> HIDE DEF next, goto
  <2> QED BY <1>1, <2>1, RecordTyped, TypedFacts DEF TaskInv, TypedWrite
<1>3. /\ SameCore /\ drv'.mine = drv.mine /\ ledger'.uncertain = ledger.uncertain
      /\ ledger'.phase = ledger.phase
      /\ drv'.pc \in {"complete", "loop", "failing"}
  BY <1>1, RecordOutcome, TypedFacts DEF TaskInv, Drivers, Ledgers, SameCore, Goto, Failing
<1>4. talk' \in Talks /\ doubt' \in BOOLEAN /\ UNCHANGED <<row, fate, doubt>> /\ Inside = {}
  BY <1>1, TypedFacts DEF TaskInv, Attach, OnRecord
<1>5. Accounting
  BY <1>1, <1>3, <1>4 DEF TaskInv, Accounted, Accounting, Running, AtWork
<1> QED BY <1>1, <1>2, <1>3, <1>4, <1>5, OrdinaryKeeps DEF AtWork

LEMMA RecoveryReadyKeeps ==
  ASSUME TaskInv, RecoveryReady
  PROVE  TaskInv'
<1> DEFINE next == [ledger EXCEPT !.phase = "ready"]
<1>1. drv.pc = "decided" /\ Record(next, Goto("loop"), Failing)
  BY DEF RecoveryReady, Note
<1>2. TypedWrite
  <2>1. next \in Ledgers
    BY TypedFacts DEF TaskInv, Ledgers, Phases
  <2> QED BY <1>1, <2>1, RecordTyped, DriverTerms DEF TaskInv, Pcs, AtWork
<1>3. /\ SameCore /\ drv'.mine = drv.mine /\ ledger'.uncertain = ledger.uncertain
      /\ ledger'.phase \in {ledger.phase, "ready"}
      /\ drv'.pc \in {"loop", "failing"}
  BY <1>1, RecordOutcome, TypedFacts DEF TaskInv, Drivers, Ledgers, SameCore, Goto, Failing
<1>4. talk' \in Talks /\ doubt' \in BOOLEAN /\ UNCHANGED <<row, fate, doubt>> /\ Inside = {}
  BY <1>1, TypedFacts DEF TaskInv, RecoveryReady, OnRecord
<1>5. Accounting
  BY <1>1, <1>3, <1>4 DEF TaskInv, Accounted, Accounting, Running, AtWork
<1> QED BY <1>1, <1>2, <1>3, <1>4, <1>5, OrdinaryKeeps DEF AtWork

LEMMA StartTurnKeeps ==
  ASSUME TaskInv, StartTurn
  PROVE  TaskInv'
<1> DEFINE next == [ledger EXCEPT !.phase = "worker_running"]
           turn == IF drv.failed \/ ledger.completed # 0 THEN Failing
                   ELSE [drv EXCEPT !.pc = "turn", !.accepting = TRUE, !.acted = FALSE]
<1>1. drv.pc = "loop" /\ Record(next, turn, Failing)
  BY DEF StartTurn, Note, Calm
<1>2. /\ next \in Ledgers /\ turn \in Drivers /\ Failing \in Drivers
      /\ turn.pc \in {"turn", "failing"} /\ turn.mine = drv.mine
  <2>1. ledger \in Ledgers /\ drv \in Drivers
    BY TypedFacts DEF TaskInv
  <2>2. next \in Ledgers
    BY <2>1 DEF Ledgers, Phases
  <2>3. Failing \in Drivers /\ Failing.pc = "failing" /\ Failing.mine = drv.mine
    BY <2>1 DEF Failing, Drivers, Pcs
  <2>4. LET open == [drv EXCEPT !.pc = "turn", !.accepting = TRUE, !.acted = FALSE]
        IN  open \in Drivers /\ open.pc = "turn" /\ open.mine = drv.mine
    BY <2>1 DEF Drivers, Pcs, AtWork
  <2> QED BY <2>2, <2>3, <2>4
<1>3. /\ SameCore /\ drv'.mine = drv.mine /\ ledger'.uncertain = ledger.uncertain
      /\ \/ drv'.pc = "turn" /\ ledger'.phase = "worker_running"
         \/ drv'.pc = "failing" /\ ledger'.phase \in {ledger.phase, "worker_running"}
  <2> HIDE DEF turn
  <2>1. /\ drv'.mine = drv.mine
        /\ \/ drv'.pc = "turn" /\ ledger' = next
           \/ drv'.pc = "failing" /\ ledger' \in {ledger, next}
    <3> HIDE DEF next
    <3> QED BY <1>1, <1>2, RecordOutcome, TypedFacts DEF TaskInv, Drivers, Failing
  <2> QED BY <2>1, TypedFacts DEF TaskInv, Ledgers, SameCore
<1>4. TypedWrite
  <2> HIDE DEF next, turn
  <2> QED BY <1>1, <1>2, RecordTyped DEF TaskInv
<1>5. talk' \in Talks /\ doubt' \in BOOLEAN
  BY TypedFacts DEF TaskInv, StartTurn, Talks
<1>6. Accounting
  BY <1>1, <1>3 DEF TaskInv, Accounted, Accounting, StartTurn, Running, AtWork
<1>7. UNCHANGED <<row, fate>> /\ Inside = {}
  BY <1>1 DEF StartTurn, TaskInv, OnRecord
<1> QED BY <1>1, <1>3, <1>4, <1>5, <1>6, <1>7, OrdinaryKeeps DEF AtWork

LEMMA EndTurnKeeps ==
  ASSUME TaskInv, EndTurn
  PROVE  TaskInv'
<1>1. PICK said \in {"DONE", "CONTINUE", "NEED_INPUT", "nothing"} :
        LET after == [drv EXCEPT !.accepting = FALSE, !.steps = @ + 1]
        IN  Record([ledger EXCEPT !.uncertain = FALSE,
                      !.phase = IF said = "DONE" THEN "review_pending" ELSE "ready"],
                   CASE said = "NEED_INPUT" -> [after EXCEPT !.pc = "finish", !.result = "need_input"]
                     [] said = "nothing"    -> [after EXCEPT !.pc = "finish", !.result = "halted"]
                     [] OTHER               -> [after EXCEPT !.pc = "loop"],
                   [Failing EXCEPT !.accepting = FALSE])
  BY DEF EndTurn
<1> DEFINE after == [drv EXCEPT !.accepting = FALSE, !.steps = @ + 1]
           next == [ledger EXCEPT !.uncertain = FALSE,
                      !.phase = IF said = "DONE" THEN "review_pending" ELSE "ready"]
           ok == CASE said = "NEED_INPUT" -> [after EXCEPT !.pc = "finish", !.result = "need_input"]
                   [] said = "nothing"    -> [after EXCEPT !.pc = "finish", !.result = "halted"]
                   [] OTHER               -> [after EXCEPT !.pc = "loop"]
           raised == [Failing EXCEPT !.accepting = FALSE]
<1>2. drv.pc = "turn" /\ Inside = {} /\ Record(next, ok, raised)
  BY <1>1 DEF EndTurn
<1>3. /\ next \in Ledgers /\ ok \in Drivers /\ raised \in Drivers
      /\ ok.mine = drv.mine /\ ok.pc \in {"finish", "loop"}
      /\ raised.mine = drv.mine /\ raised.pc = "failing"
      /\ next.uncertain = FALSE /\ next.phase \in {"review_pending", "ready"}
  <2>1. /\ ledger \in Ledgers /\ drv \in Drivers
    BY TypedFacts DEF TaskInv
  <2>2. after \in Drivers /\ after.mine = drv.mine
    <3>1. drv.steps + 1 \in Nat
      BY <2>1 DEF Drivers
    <3> QED BY <2>1, <3>1 DEF Drivers
  <2>3. ok \in Drivers /\ ok.mine = drv.mine /\ ok.pc \in {"finish", "loop"}
    BY <2>2 DEF Drivers, Pcs, AtWork, Outcomes
  <2>4. raised \in Drivers /\ raised.mine = drv.mine /\ raised.pc = "failing"
    BY <2>1 DEF Drivers, Failing, Pcs
  <2>5. next \in Ledgers /\ next.uncertain = FALSE /\ next.phase \in {"review_pending", "ready"}
    BY <2>1 DEF Ledgers, Phases
  <2> QED BY <2>3, <2>4, <2>5
<1>4. SameCore
  <2> HIDE DEF ok, raised
  <2>1. ledger' \in {ledger, next}
    BY <1>2, RecordOutcome
  <2> QED BY <2>1, TypedFacts DEF TaskInv, Ledgers, SameCore
<1> HIDE DEF next, ok, raised
<1>5. TypedWrite
  BY <1>2, <1>3, RecordTyped DEF TaskInv
<1>6. /\ drv'.mine = drv.mine
      /\ \/ drv'.pc \in {"finish", "loop"} /\ ledger' = next
         \/ drv'.pc = "failing" /\ ledger' \in {ledger, next}
  BY <1>2, <1>3, RecordOutcome DEF Drivers
<1>7. talk' \in Talks /\ doubt' \in BOOLEAN /\ UNCHANGED <<row, fate>>
  BY TypedFacts DEF TaskInv, EndTurn
<1>8. Accounting
  <2>1. ledger.phase = "worker_running"
    BY <1>2 DEF TaskInv, Accounted
  <2>2. doubt' = (ledger' = ledger)
    BY DEF EndTurn
  <2> QED BY <1>3, <1>6, <2>1, <2>2 DEF Accounting, AtWork
<1> QED BY <1>2, <1>4, <1>5, <1>6, <1>7, <1>8, OrdinaryKeeps DEF AtWork

LEMMA StopsKeep ==
  ASSUME TaskInv, OutOfBudget \/ TurnFails \/ StartReview \/ Unverified
  PROVE  TaskInv'
<1>1. /\ UNCHANGED <<ledger, torn, row, talk, fate, doubt, bounds>> /\ Inside = {}
      /\ drv.pc \in {"loop", "turn", "contract", "review"}
      /\ drv' \in {Finish("halted"), [Failing EXCEPT !.accepting = FALSE], Failing,
                   [drv EXCEPT !.pc = "review", !.accepting = FALSE],
                   [Finish("need_input") EXCEPT !.accepting = FALSE]}
      /\ drv'.pc = "review" => drv.pc \in {"loop", "review"}
  BY TypedFacts DEF OutOfBudget, TurnFails, StartReview, Unverified, Calm, TaskInv, OnRecord, Finish, Failing, Drivers
<1>2. drv' \in Drivers /\ drv'.mine = drv.mine /\ drv'.pc \in {"finish", "failing", "review"}
  BY ZenonT(40), <1>1, TypedFacts DEF TaskInv, Drivers, Finish, Failing, Pcs, AtWork, Outcomes
<1>3. TypedWrite /\ SameCore /\ talk' \in Talks /\ doubt' \in BOOLEAN
  BY <1>1, <1>2, TypedFacts DEF TaskInv, TypedWrite, SameCore
<1>4. Accounting
  BY <1>1, <1>2 DEF TaskInv, Accounted, Accounting, Running, AtWork
<1> QED BY <1>1, <1>2, <1>3, <1>4, OrdinaryKeeps DEF AtWork

LEMMA Rephased ==
  ASSUME Typed, NEW unsure \in BOOLEAN, NEW phase \in Phases
  PROVE  LET next == [ledger EXCEPT !.uncertain = unsure, !.phase = phase]
         IN  /\ next \in Ledgers /\ next.uncertain = unsure /\ next.phase = phase
             /\ next.unresolved = ledger.unresolved
             /\ next.recovery = ledger.recovery /\ next.before = ledger.before
             /\ next.completed = ledger.completed /\ next.boundary = ledger.boundary
             /\ next.generation = ledger.generation
BY TypedFacts DEF Ledgers

LEMMA BudgetLimitKeeps ==
  ASSUME TaskInv, BudgetLimit
  PROVE  TaskInv'
<1>1. PICK seen \in BOOLEAN :
        /\ Record([ledger EXCEPT !.uncertain = Running /\ seen,
                     !.phase = IF ~Running \/ (Running /\ seen) THEN @
                               ELSE IF @ = "contract_running" THEN "contract_needed" ELSE "ready"],
                  [Finish("halted") EXCEPT !.accepting = FALSE], Driver("idle"))
        /\ doubt' = (doubt /\ seen)
  BY DEF BudgetLimit
<1> DEFINE unsure == Running /\ seen
           phase == IF ~Running \/ (Running /\ seen) THEN ledger.phase
                    ELSE IF ledger.phase = "contract_running" THEN "contract_needed" ELSE "ready"
           next == [ledger EXCEPT !.uncertain = unsure, !.phase = phase]
           ok == [Finish("halted") EXCEPT !.accepting = FALSE]
<1>2. /\ Inside = {} /\ UNCHANGED <<row, talk, fate>> /\ Record(next, ok, Driver("idle"))
  BY <1>1 DEF BudgetLimit
<1>3. /\ ok \in Drivers /\ ok.pc = "finish"
      /\ Driver("idle") \in Drivers /\ Driver("idle").pc = "idle"
  BY TypedFacts DEF TaskInv, Finish, Driver, Drivers, Pcs, Outcomes
<1>4. /\ unsure \in BOOLEAN /\ phase \in Phases
      /\ unsure => phase = ledger.phase /\ Running
      /\ Running /\ seen => unsure
      /\ ~Running => phase = ledger.phase
  <2>1. ledger.phase \in Phases
    BY TypedFacts DEF TaskInv, Ledgers
  <2>2. unsure \in BOOLEAN /\ (unsure <=> Running /\ seen)
    BY DEF Running
  <2> HIDE DEF unsure
  <2>3. ~Running \/ (Running /\ seen) => phase = ledger.phase
    OBVIOUS
  <2>4. phase \in Phases
    BY <2>1 DEF Phases
  <2> QED BY <2>2, <2>3, <2>4
<1> HIDE DEF unsure, phase, ok
<1>5. /\ next \in Ledgers /\ next.uncertain = unsure /\ next.phase = phase
      /\ drv'.pc \in {"finish", "idle"} /\ ledger' \in {ledger, next} /\ SameCore
  <2>1. ledger' \in {ledger, next} /\ drv'.pc \in {"finish", "idle"}
    <3> HIDE DEF next
    <3> QED BY <1>2, <1>3, RecordOutcome DEF Drivers
  <2>2. /\ next \in Ledgers /\ next.uncertain = unsure /\ next.phase = phase
        /\ next.unresolved = ledger.unresolved
        /\ next.recovery = ledger.recovery /\ next.before = ledger.before
        /\ next.completed = ledger.completed /\ next.boundary = ledger.boundary
        /\ next.generation = ledger.generation
    BY <1>4, Rephased DEF TaskInv
  <2> HIDE DEF next
  <2> QED BY <2>1, <2>2 DEF SameCore
<1> HIDE DEF next
<1>6. TypedWrite
  BY <1>2, <1>3, <1>5, RecordTyped DEF TaskInv
<1>7. doubt' \in BOOLEAN /\ talk' \in Talks
  BY <1>1, <1>2, TypedFacts DEF TaskInv
<1>8. Accounting
  BY <1>1, <1>4, <1>5 DEF TaskInv, Accounted, Accounting, Running, AtWork
<1> QED BY <1>2, <1>5, <1>6, <1>7, <1>8, OrdinaryKeeps DEF AtWork

LEMMA RejectedKeeps ==
  ASSUME TaskInv, Rejected
  PROVE  TaskInv'
<1> DEFINE next == [ledger EXCEPT !.phase = "ready"]
<1>1. drv.pc = "review" /\ Record(next, Goto("loop"), Failing)
  BY DEF Rejected, Note
<1>2. TypedWrite
  <2>1. next \in Ledgers
    BY TypedFacts DEF TaskInv, Ledgers, Phases
  <2> QED BY <1>1, <2>1, RecordTyped, DriverTerms DEF TaskInv, Pcs, AtWork
<1>3. /\ SameCore /\ drv'.mine = drv.mine /\ ledger'.uncertain = ledger.uncertain
      /\ ledger'.phase \in {ledger.phase, "ready"}
      /\ drv'.pc \in {"loop", "failing"}
  BY <1>1, RecordOutcome, TypedFacts DEF TaskInv, Drivers, Ledgers, SameCore, Goto, Failing
<1>4. talk' \in Talks /\ doubt' \in BOOLEAN /\ UNCHANGED <<row, fate, doubt>> /\ Inside = {}
  BY <1>1, TypedFacts DEF TaskInv, Rejected, OnRecord
<1>5. Accounting
  BY <1>1, <1>3, <1>4 DEF TaskInv, Accounted, Accounting, Running, AtWork
<1> QED BY <1>1, <1>2, <1>3, <1>4, <1>5, OrdinaryKeeps DEF AtWork

LEMMA PassedKeeps ==
  ASSUME TaskInv, Passed
  PROVE  TaskInv'
<1> DEFINE next == [ledger EXCEPT !.receipt = [id |-> bounds.invocations, revision |-> ledger.revision]]
<1>1. /\ drv.pc = "review" /\ UNCHANGED <<row, talk, fate, doubt>>
      /\ \/ Record(next, Goto("complete"), Shut(Failing))
         \/ drv' = Failing /\ UNCHANGED <<ledger, torn, bounds>>
  BY DEF Passed, Commit
<1>2. /\ next \in Ledgers
      /\ Goto("complete") \in Drivers /\ Goto("complete").pc = "complete" /\ Goto("complete").mine = drv.mine
      /\ Failing \in Drivers /\ Failing.pc = "failing" /\ Failing.mine = drv.mine
      /\ Shut(Failing) \in Drivers /\ Shut(Failing).pc = "failing" /\ Shut(Failing).mine = drv.mine
  BY TypedFacts DEF TaskInv, Ledgers, Bounds, Drivers, Goto, Failing, Shut, Pcs, AtWork
<1>3. TypedWrite
  <2> HIDE DEF next
  <2> QED BY <1>1, <1>2, RecordTyped, TypedFacts DEF TaskInv, TypedWrite
<1>4. /\ SameCore /\ drv'.mine = drv.mine /\ ledger'.uncertain = ledger.uncertain
      /\ ledger'.phase = ledger.phase
      /\ drv'.pc \in {"complete", "failing"}
  <2>1. /\ ledger' \in {ledger, next}
        /\ drv'.mine = drv.mine /\ drv'.pc \in {"complete", "failing"}
    <3> HIDE DEF next
    <3>1. CASE Record(next, Goto("complete"), Shut(Failing))
      BY <1>2, <3>1, RecordOutcome DEF Drivers
    <3> QED BY <1>1, <1>2, <3>1
  <2> QED BY <2>1, TypedFacts DEF TaskInv, Ledgers, SameCore
<1>5. talk' \in Talks /\ doubt' \in BOOLEAN /\ Inside = {}
  BY <1>1, TypedFacts DEF TaskInv, OnRecord
<1>6. Accounting
  BY <1>1, <1>4 DEF TaskInv, Accounted, Accounting, Running, AtWork
<1> QED BY <1>1, <1>3, <1>4, <1>5, <1>6, OrdinaryKeeps DEF AtWork

LEMMA WriteOutcomeKeeps ==
  ASSUME TaskInv, WriteOutcome
  PROVE  TaskInv'
<1> DEFINE next == [ledger EXCEPT !.status = drv.result]
<1>1. drv.pc = "finish" /\ UNCHANGED <<row, talk, fate, doubt>>
      /\ (Record(next, Driver("idle"), Driver("idle")) \/ Refused(Failing))
  BY DEF WriteOutcome
<1>2. TypedWrite
  <2>1. next \in Ledgers
    BY TypedFacts DEF TaskInv, Ledgers, Drivers
  <2>2. CASE Record(next, Driver("idle"), Driver("idle"))
    BY <2>1, <2>2, RecordTyped, DriverTerms DEF TaskInv, Pcs
  <2>3. CASE Refused(Failing)
    <3>1. ~drv.dead
      BY <2>3 DEF Refused
    <3>2. Record(ledger, Failing, Failing)
      BY <2>3, <3>1 DEF Record
    <3>3. Failing \in Drivers /\ ledger \in Ledgers
      BY DriverTerms, TypedFacts DEF TaskInv
    <3> QED BY <3>2, <3>3, RecordTyped DEF TaskInv
  <2> QED BY <1>1, <2>2, <2>3
<1>3. /\ SameCore /\ ledger'.uncertain = ledger.uncertain /\ ledger'.phase = ledger.phase
      /\ drv'.pc \in {"idle", "failing"}
  <2>1. CASE Record(next, Driver("idle"), Driver("idle"))
    BY <2>1, RecordOutcome, TypedFacts DEF TaskInv, Drivers, Ledgers, SameCore, Driver
  <2>2. CASE Refused(Failing)
    BY <2>2, TypedFacts DEF TaskInv, Drivers, Ledgers, SameCore, Failing, Refused
  <2> QED BY <1>1, <2>1, <2>2
<1>4. talk' \in Talks /\ doubt' \in BOOLEAN /\ Inside = {}
  BY <1>1, TypedFacts DEF TaskInv, OnRecord
<1>5. Accounting
  BY <1>1, <1>3 DEF TaskInv, Accounted, Accounting, Running, AtWork
<1> QED BY <1>1, <1>2, <1>3, <1>4, <1>5, OrdinaryKeeps DEF AtWork

LEMMA ErrorKeeps ==
  ASSUME TaskInv, HandleError \/ Interrupted
  PROVE  TaskInv'
<1> DEFINE unsure == Running
           next == [ledger EXCEPT !.uncertain = unsure]
<1>1. /\ Inside = {} /\ Record(next, Finish("halted"), Driver("idle"))
      /\ UNCHANGED <<row, talk, fate, doubt>>
  BY DEF HandleError, Interrupted
<1>2. unsure \in BOOLEAN /\ (unsure <=> Running)
  BY DEF Running
<1> HIDE DEF unsure
<1>3. next \in Ledgers /\ next.phase = ledger.phase /\ next.uncertain = unsure
  BY <1>2, TypedFacts DEF TaskInv, Ledgers
<1>4. SameCore /\ ledger' \in {ledger, next}
  <2>1. ledger' \in {ledger, next}
    BY <1>1, RecordOutcome
  <2> QED BY <2>1, TypedFacts DEF TaskInv, Ledgers, SameCore
<1> HIDE DEF next
<1>5. drv'.pc \in {"finish", "idle"} /\ TypedWrite
  <2>1. /\ Finish("halted") \in Drivers /\ Finish("halted").pc = "finish"
        /\ Driver("idle") \in Drivers /\ Driver("idle").pc = "idle"
    BY TypedFacts DEF TaskInv, Finish, Driver, Drivers, Pcs, Outcomes
  <2>2. drv'.pc \in {"finish", "idle"}
    BY <1>1, <2>1, RecordOutcome DEF Drivers
  <2> QED BY <1>1, <1>3, <2>1, <2>2, RecordTyped DEF TaskInv
<1>6. talk' \in Talks /\ doubt' \in BOOLEAN
  BY <1>1, TypedFacts DEF TaskInv
<1>7. Accounting
  BY <1>1, <1>2, <1>3, <1>4, <1>5 DEF TaskInv, Accounted, Accounting, Running, AtWork
<1> QED BY <1>1, <1>4, <1>5, <1>6, <1>7, OrdinaryKeeps DEF AtWork

LEMMA AsideKeeps ==
  ASSUME TaskInv, ReportStorageFailure \/ OwnerTalks \/ Resume
  PROVE  TaskInv'
<1>1. /\ UNCHANGED <<ledger, torn, row, fate, doubt>> /\ Inside = {}
      /\ talk' \in {talk, "later"} /\ drv'.pc \in {"idle", "claim"}
      /\ drv' \in Drivers /\ bounds' \in Bounds
  <2>1. CASE ReportStorageFailure
    BY <2>1, TypedFacts, DriverTerms DEF TaskInv, ReportStorageFailure, Driver, Pcs
  <2>2. CASE OwnerTalks
    BY <2>2, TypedFacts DEF TaskInv, OwnerTalks, OnRecord
  <2>3. CASE Resume
    <3>1. PICK note \in BOOLEAN : drv' = [Driver("claim") EXCEPT !.note = note]
      BY <2>3 DEF Resume
    <3>2. drv' \in Drivers /\ drv'.pc = "claim"
      BY ZenonT(40), <3>1, DriverTerms DEF TaskInv, Drivers, Driver, Pcs
    <3>3. bounds' \in Bounds
      BY <2>3, TypedFacts DEF TaskInv, Bounds, Resume
    <3> QED BY <2>3, <3>2, <3>3 DEF Resume, TaskInv, OnRecord
  <2> QED BY <2>1, <2>2, <2>3
<1>2. TypedWrite /\ SameCore /\ talk' \in Talks /\ doubt' \in BOOLEAN
  BY <1>1, TypedFacts DEF TaskInv, TypedWrite, SameCore, Talks
<1>3. Accounting
  BY <1>1 DEF TaskInv, Accounted, Accounting, Running, AtWork
<1> QED BY <1>1, <1>2, <1>3, OrdinaryKeeps DEF AtWork

----------------------------------------------------------------------------
(* Steps that keep some of the parts and disturb others.                   *)

LEMMA AccountedKept ==
  ASSUME Accounted, doubt' = doubt, ledger'.phase = ledger.phase, ledger'.uncertain = ledger.uncertain,
         \/ drv'.pc = drv.pc
         \/ drv'.pc \notin AtWork
         \/ /\ drv.pc \in AtWork \ {"contract", "turn", "requested"}
            /\ drv'.pc \notin {"contract", "turn"}
  PROVE  Accounted'
BY DEF Accounted, Running, AtWork

LEMMA UsableNext ==
  ASSUME NEW r, NEW b, Loads(r), Loads(b), ledger'.recovery = r, ledger'.before = b,
         r.pending = "stopped" =>
           b.pending # "stopped" /\ \A f \in {"attempts", "help", "total"} : b[f] = r[f]
  PROVE  RecoveryUsable'
BY DEF RecoveryUsable

\* The parts that are not about the recovery decision or the completion.
LEMMA RestKept ==
  ASSUME TaskInv, TypedWrite, UNCHANGED <<row, fate, doubt>>, talk' \in Talks,
         ledger'.unresolved = ledger.unresolved, ledger'.phase = ledger.phase,
         ledger'.uncertain = ledger.uncertain,
         drv'.mine = drv.mine \/ drv'.pc \notin AtWork,
         Inside # {} => drv'.pc \in {"turn", "settling"},
         \/ drv'.pc = drv.pc
         \/ drv'.pc \notin AtWork
         \/ /\ drv.pc \in AtWork \ {"contract", "turn", "requested"}
            /\ drv'.pc \notin {"contract", "turn"}
  PROVE  Typed' /\ OnRecord' /\ Accounted'
<1>1. Typed'
  BY TypedFacts, TypedNext DEF TaskInv
<1>2. OnRecord'
  BY OnRecordKept DEF TaskInv, AtWork
<1>3. Accounted'
  BY AccountedKept DEF TaskInv
<1> QED BY <1>1, <1>2, <1>3

LEMMA ObserveKeeps ==
  ASSUME TaskInv, ObserveRepetition
  PROVE  TaskInv'
<1>1. PICK r \in AfterObserving(ledger.recovery) :
        Record([ledger EXCEPT !.recovery = r, !.receipt = NoReceipt], drv, Shut(drv))
  BY DEF ObserveRepetition
<1> DEFINE next == [ledger EXCEPT !.recovery = r, !.receipt = NoReceipt]
<1>2. /\ drv.pc = "turn" /\ ledger.recovery.pending = "none" /\ UNCHANGED <<row, talk, fate, doubt>>
      /\ Record(next, drv, Shut(drv))
  BY <1>1 DEF ObserveRepetition, BaseAdmitted
<1>3. r \in Snapshots /\ Loads(r) /\ r.pending # "stopped"
  BY <1>2, ObservingLoads, TypedFacts DEF TaskInv, RecoveryUsable, Ledgers
<1>4. TypedWrite
  <2>1. next \in Ledgers
    BY <1>3, TypedFacts DEF TaskInv, Ledgers, NoReceipt
  <2>2. Shut(drv) \in Drivers /\ drv \in Drivers
    BY DriverTerms, TypedFacts DEF TaskInv
  <2> HIDE DEF next
  <2> QED BY <1>2, <2>1, <2>2, RecordTyped DEF TaskInv
<1>5. /\ ledger' \in {ledger, next} /\ drv'.pc = "turn" /\ drv'.mine = drv.mine
  <2> HIDE DEF next
  <2>1. /\ drv \in Drivers /\ Shut(drv) \in Drivers
        /\ Shut(drv).pc = drv.pc /\ Shut(drv).mine = drv.mine
    BY TypedFacts DEF TaskInv, Drivers, Shut
  <2> QED BY <1>2, <2>1, RecordOutcome DEF Drivers
<1>6. /\ ledger'.unresolved = ledger.unresolved /\ ledger'.phase = ledger.phase
      /\ ledger'.uncertain = ledger.uncertain /\ ledger'.completed = ledger.completed
      /\ ledger'.boundary = ledger.boundary /\ ledger'.generation = ledger.generation
      /\ ledger'.before = ledger.before /\ ledger'.recovery \in {r, ledger.recovery}
  BY <1>5, TypedFacts DEF TaskInv, Ledgers
<1>7. Typed' /\ OnRecord' /\ Accounted'
  BY <1>2, <1>4, <1>5, <1>6, RestKept, TypedFacts DEF TaskInv
<1>8. RecoveryUsable'
  <2>1. CASE ledger'.recovery = r
    BY <1>3, <1>6, <2>1, UsableNext DEF TaskInv, RecoveryUsable
  <2>2. CASE ledger'.recovery = ledger.recovery
    BY <1>6, <2>2, UsableKept DEF TaskInv
  <2> QED BY <1>6, <2>1, <2>2
<1>9. InOrder' /\ Resuming'
  BY <1>2, <1>5, <1>6, InOrderKept DEF TaskInv, Resuming
<1> QED BY <1>7, <1>8, <1>9 DEF TaskInv

LEMMA ObservationLostKeeps ==
  ASSUME TaskInv, ObservationLost
  PROVE  TaskInv'
<1> DEFINE r == AfterBlock(ledger.recovery)
           next == [ledger EXCEPT !.recovery = r, !.receipt = NoReceipt]
           ok == [drv EXCEPT !.accepting = FALSE]
<1>1. /\ drv.pc = "turn" /\ UNCHANGED <<row, talk, fate, doubt>> /\ Record(next, ok, Shut(drv))
  BY DEF ObservationLost
<1>2. /\ r \in Snapshots /\ Loads(r)
      /\ ledger.recovery.pending = "stopped" => r = ledger.recovery
      /\ ledger.recovery.pending # "stopped" => r.pending # "stopped"
  BY BlockLoads, TypedFacts DEF TaskInv, RecoveryUsable, Ledgers
<1> HIDE DEF r
<1>3. /\ ok \in Drivers /\ ok.pc = drv.pc /\ ok.mine = drv.mine
      /\ Shut(drv) \in Drivers /\ Shut(drv).pc = drv.pc /\ Shut(drv).mine = drv.mine
  BY TypedFacts DEF TaskInv, Drivers, Shut
<1>4. next \in Ledgers
  BY <1>2, TypedFacts DEF TaskInv, Ledgers, NoReceipt
<1>5. TypedWrite
  <2> HIDE DEF next, ok
  <2> QED BY <1>1, <1>3, <1>4, RecordTyped DEF TaskInv
<1>6. ledger' \in {ledger, next} /\ drv'.pc = "turn" /\ drv'.mine = drv.mine
  <2> HIDE DEF next, ok
  <2> QED BY <1>1, <1>3, RecordOutcome DEF Drivers
<1>7. /\ ledger'.unresolved = ledger.unresolved /\ ledger'.phase = ledger.phase
      /\ ledger'.uncertain = ledger.uncertain /\ ledger'.completed = ledger.completed
      /\ ledger'.boundary = ledger.boundary /\ ledger'.generation = ledger.generation
      /\ ledger'.before = ledger.before /\ ledger'.recovery \in {r, ledger.recovery}
  BY <1>6, TypedFacts DEF TaskInv, Ledgers
<1>8. Typed' /\ OnRecord' /\ Accounted'
  BY <1>1, <1>5, <1>6, <1>7, RestKept, TypedFacts DEF TaskInv
<1>9. RecoveryUsable'
  <2>1. CASE ledger'.recovery = ledger.recovery
    BY <1>7, <2>1, UsableKept DEF TaskInv
  <2>2. CASE ledger'.recovery = r /\ r # ledger.recovery
    BY <1>2, <1>7, <2>2, UsableNext DEF TaskInv, RecoveryUsable
  <2> QED BY <1>7, <2>1, <2>2
<1>10. InOrder' /\ Resuming'
  BY <1>1, <1>6, <1>7, InOrderKept DEF TaskInv, Resuming
<1> QED BY <1>8, <1>9, <1>10 DEF TaskInv

LEMMA DecisionKeeps ==
  ASSUME TaskInv, DecisionFirst
  PROVE  TaskInv'
<1> DEFINE r == AfterIntervention(ledger.recovery)
           next == [ledger EXCEPT !.recovery = r]
<1>1. /\ drv.pc = "loop" /\ UNCHANGED <<row, talk, fate, doubt>>
      /\ \/ ledger.recovery.pending = "recover" /\ Record(next, Goto("decided"), Shut(Failing))
         \/ /\ drv' \in {Failing, Finish("halted"), Finish("need_input")}
            /\ UNCHANGED <<ledger, torn, bounds>>
  BY DEF DecisionFirst, Commit
<1>2. ledger.recovery.pending = "recover" => r \in Snapshots /\ Loads(r) /\ r.pending = "none"
  BY InterventionLoads, TypedFacts DEF TaskInv, RecoveryUsable, Ledgers
<1> HIDE DEF r
<1>3. /\ Failing \in Drivers /\ Failing.pc = "failing" /\ Failing.mine = drv.mine
      /\ Shut(Failing) \in Drivers /\ Shut(Failing).pc = "failing" /\ Shut(Failing).mine = drv.mine
      /\ Finish("halted") \in Drivers /\ Finish("halted").pc = "finish" /\ Finish("halted").mine = drv.mine
      /\ Finish("need_input") \in Drivers /\ Finish("need_input").pc = "finish"
      /\ Finish("need_input").mine = drv.mine
      /\ Goto("decided") \in Drivers /\ Goto("decided").pc = "decided" /\ Goto("decided").mine = drv.mine
  BY TypedFacts DEF TaskInv, Drivers, Failing, Shut, Finish, Goto, Pcs, AtWork, Outcomes
<1>4. /\ TypedWrite /\ drv'.pc \in {"decided", "failing", "finish"} /\ drv'.mine = drv.mine
      /\ \/ ledger' = ledger
         \/ ledger.recovery.pending = "recover" /\ ledger' = next
  <2>1. CASE ledger.recovery.pending = "recover" /\ Record(next, Goto("decided"), Shut(Failing))
    <3>1. next \in Ledgers
      BY <1>2, <2>1, TypedFacts DEF TaskInv, Ledgers
    <3> HIDE DEF next
    <3>2. TypedWrite
      BY <1>3, <2>1, <3>1, RecordTyped DEF TaskInv
    <3>3. /\ drv'.pc \in {"decided", "failing"} /\ drv'.mine = drv.mine
          /\ ledger' \in {ledger, next}
      BY <1>3, <2>1, RecordOutcome DEF Drivers
    <3> QED BY <2>1, <3>2, <3>3
  <2>2. CASE /\ drv' \in {Failing, Finish("halted"), Finish("need_input")}
             /\ UNCHANGED <<ledger, torn, bounds>>
    BY <1>3, <2>2, TypedFacts DEF TaskInv, TypedWrite
  <2> QED BY <1>1, <2>1, <2>2
<1>5. /\ ledger'.unresolved = ledger.unresolved /\ ledger'.phase = ledger.phase
      /\ ledger'.uncertain = ledger.uncertain /\ ledger'.completed = ledger.completed
      /\ ledger'.boundary = ledger.boundary /\ ledger'.generation = ledger.generation
      /\ ledger'.before = ledger.before
      /\ \/ ledger'.recovery = ledger.recovery
         \/ ledger.recovery.pending = "recover" /\ ledger'.recovery = r
  BY <1>4, TypedFacts DEF TaskInv, Ledgers
<1>6. Typed' /\ OnRecord' /\ Accounted'
  <2>1. Inside = {}
    BY <1>1 DEF TaskInv, OnRecord
  <2> QED BY <1>1, <1>4, <1>5, <2>1, RestKept, TypedFacts DEF TaskInv, AtWork
<1>7. RecoveryUsable'
  <2>1. CASE ledger'.recovery = ledger.recovery
    BY <1>5, <2>1, UsableKept DEF TaskInv
  <2>2. CASE ledger.recovery.pending = "recover" /\ ledger'.recovery = r
    BY <1>2, <1>5, <2>2, UsableNext DEF TaskInv, RecoveryUsable
  <2> QED BY <1>5, <2>1, <2>2
<1>8. InOrder' /\ Resuming'
  BY <1>1, <1>4, <1>5, InOrderKept DEF TaskInv, Resuming
<1> QED BY <1>6, <1>7, <1>8 DEF TaskInv

----------------------------------------------------------------------------
(* Handlers.                                                               *)

LEMMA ChangedKeeps ==
  ASSUME NEW s \in Ledgers
  PROVE  /\ Changed(s) \in Ledgers
         /\ Changed(s).unresolved = s.unresolved
         /\ Changed(s).phase = s.phase /\ Changed(s).uncertain = s.uncertain
         /\ Changed(s).completed = s.completed /\ Changed(s).boundary = s.boundary
         /\ Changed(s).generation = s.generation
         /\ Changed(s).recovery = s.recovery /\ Changed(s).before = s.before
<1>1. s.revision + 1 \in Nat /\ NoReceipt \in [id : Nat, revision : Nat]
  BY DEF Ledgers, NoReceipt
<1> QED BY <1>1 DEF Ledgers, Changed

LEMMA ChangedFields ==
  ASSUME ledger \in Ledgers, NEW a \in Actions, NEW word \in {"none", "intent"}
  PROVE  LET next == Changed([ledger EXCEPT !.unresolved[a] = word])
         IN  /\ next \in Ledgers
             /\ next.unresolved = [ledger.unresolved EXCEPT ![a] = word]
             /\ next.phase = ledger.phase /\ next.uncertain = ledger.uncertain
             /\ next.completed = ledger.completed /\ next.boundary = ledger.boundary
             /\ next.generation = ledger.generation
             /\ next.recovery = ledger.recovery /\ next.before = ledger.before
<1> DEFINE plain == [ledger EXCEPT !.unresolved[a] = word]
<1>1. /\ plain \in Ledgers
      /\ plain.unresolved = [ledger.unresolved EXCEPT ![a] = word]
      /\ plain.phase = ledger.phase /\ plain.uncertain = ledger.uncertain
      /\ plain.completed = ledger.completed /\ plain.boundary = ledger.boundary
      /\ plain.generation = ledger.generation
      /\ plain.recovery = ledger.recovery /\ plain.before = ledger.before
  BY DEF Ledgers
<1> HIDE DEF plain
<1>2. /\ Changed(plain) \in Ledgers
      /\ Changed(plain).unresolved = [ledger.unresolved EXCEPT ![a] = word]
      /\ Changed(plain).phase = ledger.phase /\ Changed(plain).uncertain = ledger.uncertain
      /\ Changed(plain).completed = ledger.completed /\ Changed(plain).boundary = ledger.boundary
      /\ Changed(plain).generation = ledger.generation
      /\ Changed(plain).recovery = ledger.recovery /\ Changed(plain).before = ledger.before
  BY <1>1, ChangedKeeps
<1> QED BY <1>2 DEF plain

LEMMA BeginKeeps ==
  ASSUME TaskInv, NEW a \in Actions, BeginAction(a)
  PROVE  TaskInv'
<1> DEFINE next == Changed([ledger EXCEPT !.unresolved[a] = "intent"])
           ok == [drv EXCEPT !.mine = @ \cup {a}, !.acted = TRUE]
<1>1. /\ drv.pc = "turn" /\ ~drv.failed /\ fate[a] = "new" /\ UNCHANGED <<row, talk, doubt>>
      /\ Record(next, ok, Shut(drv))
      /\ fate' = IF drv'.failed THEN fate ELSE [fate EXCEPT ![a] = "running"]
  BY DEF BeginAction, BaseAdmitted
<1>2. /\ ledger \in Ledgers /\ drv \in Drivers
      /\ fate \in [Actions -> {"new", "running", "known", "unknown", "reported"}]
  BY TypedFacts DEF TaskInv
<1>3. /\ ok \in Drivers /\ ok.pc = "turn" /\ ok.mine = drv.mine \cup {a} /\ ~ok.failed
      /\ Shut(drv) \in Drivers /\ Shut(drv).pc = "turn" /\ Shut(drv).mine = drv.mine
      /\ Shut(drv).failed
  BY <1>1, <1>2 DEF Drivers, Shut
<1>4. /\ next \in Ledgers
      /\ next.unresolved = [ledger.unresolved EXCEPT ![a] = "intent"]
      /\ next.phase = ledger.phase /\ next.uncertain = ledger.uncertain
      /\ next.completed = ledger.completed /\ next.boundary = ledger.boundary
      /\ next.generation = ledger.generation
      /\ next.recovery = ledger.recovery /\ next.before = ledger.before
  BY <1>2, ChangedFields
<1> HIDE DEF next, ok
<1>5. TypedWrite
  BY <1>1, <1>3, <1>4, RecordTyped DEF TaskInv
<1>6. \/ /\ ledger' = next /\ drv'.mine = drv.mine \cup {a} /\ fate' = [fate EXCEPT ![a] = "running"]
      \/ /\ ledger' \in {ledger, next} /\ drv'.mine = drv.mine /\ fate' = fate
  <2>1. \/ ledger' = next /\ drv' = ok
        \/ ledger' \in {ledger, next} /\ drv' \in {Shut(drv), [Shut(drv) EXCEPT !.dead = TRUE]}
    BY <1>1, RecordOutcome
  <2> QED BY <1>1, <1>3, <2>1 DEF Drivers
<1>7. drv'.pc = "turn"
  BY <1>1, <1>3, RecordOutcome DEF Drivers
<1>8. Typed'
  BY <1>1, <1>2, <1>5, <1>6, TypedFacts, TypedNext DEF TaskInv
<1>9. OnRecord'
  <2>1. ledger'.unresolved \in {ledger.unresolved, [ledger.unresolved EXCEPT ![a] = "intent"]}
    BY <1>4, <1>6
  <2>2. ledger.unresolved \in [Actions -> {"none", "intent", "error", "interrupted"}]
    BY <1>2 DEF Ledgers
  <2>3. Owed \subseteq Unresolved /\ Owed \subseteq drv.mine
    BY <1>1 DEF TaskInv, OnRecord, AtWork
  <2>4. Owed' \subseteq Owed \cup {a} /\ Unresolved \subseteq Unresolved'
    BY <1>2, <1>6, <2>1, <2>2 DEF Owed, Unresolved
  <2>5. a \in Owed' => a \in Unresolved' /\ a \in drv'.mine
    BY <1>1, <1>2, <1>4, <1>6, <2>2 DEF Owed, Unresolved
  <2>6. drv.mine \subseteq drv'.mine
    BY <1>6
  <2> QED BY <1>7, <2>3, <2>4, <2>5, <2>6 DEF OnRecord
<1>10. Accounted'
  BY <1>1, <1>4, <1>6, <1>7, AccountedKept DEF TaskInv
<1>11. RecoveryUsable'
  BY <1>4, <1>6, UsableKept DEF TaskInv
<1>12. InOrder'
  BY <1>1, <1>4, <1>6, <1>7, InOrderKept DEF TaskInv
<1>13. Resuming'
  BY <1>7 DEF Resuming
<1> QED BY <1>8, <1>9, <1>10, <1>11, <1>12, <1>13 DEF TaskInv

LEMMA ReconcileKeeps ==
  ASSUME TaskInv, NEW a \in Actions, ReconcileAction(a)
  PROVE  TaskInv'
<1> DEFINE next == Changed([ledger EXCEPT !.unresolved[a] = "none"])
<1>1. /\ drv.pc = "claim" /\ a \in Unresolved /\ UNCHANGED <<row, talk, doubt>>
      /\ Record(next, drv, Shut(Failing))
      /\ fate' = IF ledger'.unresolved[a] = "none" THEN [fate EXCEPT ![a] = "reported"] ELSE fate
  BY DEF ReconcileAction, Commit
<1>2. /\ ledger \in Ledgers /\ drv \in Drivers
      /\ fate \in [Actions -> {"new", "running", "known", "unknown", "reported"}]
  BY TypedFacts DEF TaskInv
<1>3. Shut(Failing) \in Drivers /\ Shut(Failing).pc = "failing"
  BY <1>2 DEF Drivers, Shut, Failing, Pcs
<1>4. /\ next \in Ledgers
      /\ next.unresolved = [ledger.unresolved EXCEPT ![a] = "none"]
      /\ next.phase = ledger.phase /\ next.uncertain = ledger.uncertain
      /\ next.completed = ledger.completed /\ next.boundary = ledger.boundary
      /\ next.generation = ledger.generation
      /\ next.recovery = ledger.recovery /\ next.before = ledger.before
  BY <1>2, ChangedFields
<1> HIDE DEF next
<1>5. TypedWrite
  BY <1>1, <1>2, <1>3, <1>4, RecordTyped DEF TaskInv
<1>6. ledger' \in {ledger, next} /\ drv'.pc \in {"claim", "failing"}
  BY <1>1, <1>2, <1>3, RecordOutcome DEF Drivers
<1>7. Typed'
  BY <1>1, <1>2, <1>5, TypedFacts, TypedNext DEF TaskInv
<1>8. OnRecord'
  <2>1. ledger.unresolved \in [Actions -> {"none", "intent", "error", "interrupted"}]
    BY <1>2 DEF Ledgers
  <2>2. Owed \subseteq Unresolved /\ Inside = {}
    BY <1>1 DEF TaskInv, OnRecord
  <2>3. CASE ledger' = ledger
    <3>1. fate' = fate
      BY <1>1, <2>3 DEF Unresolved
    <3> QED BY <1>6, <2>2, <2>3, <3>1, OnRecordKept DEF TaskInv, AtWork
  <2>4. CASE ledger' = next
    <3>1. fate' = [fate EXCEPT ![a] = "reported"]
      BY <1>1, <1>4, <2>1, <2>4
    <3>2. Owed' \subseteq Unresolved'
      BY <1>2, <1>4, <2>1, <2>2, <2>4, <3>1 DEF Owed, Unresolved
    <3>3. Inside' = {}
      BY <1>2, <2>2, <3>1 DEF Inside
    <3> QED BY <1>6, <3>2, <3>3 DEF OnRecord, AtWork
  <2> QED BY <1>6, <2>3, <2>4
<1>9. Accounted'
  BY <1>1, <1>4, <1>6, AccountedKept DEF TaskInv, AtWork
<1>10. RecoveryUsable'
  BY <1>4, <1>6, UsableKept DEF TaskInv
<1>11. InOrder' /\ Resuming'
  BY <1>1, <1>4, <1>6, InOrderKept DEF TaskInv, Resuming
<1> QED BY <1>7, <1>8, <1>9, <1>10, <1>11 DEF TaskInv

\* The end of a handler: its effect is known, or stays on the ledger.
LEMMA ReturnOnRecord ==
  ASSUME TaskInv, NEW a \in Inside, NEW word \in {"known", "unknown"},
         fate' = [fate EXCEPT ![a] = word],
         ledger'.unresolved \in [Actions -> {"none", "intent", "error", "interrupted"}],
         \A b \in Actions \ {a} : ledger'.unresolved[b] = ledger.unresolved[b],
         word = "known" \/ ledger'.unresolved[a] # "none",
         drv'.pc = drv.pc, drv'.mine = drv.mine
  PROVE  OnRecord'
<1>1. /\ a \in Actions /\ fate[a] = "running"
      /\ fate \in [Actions -> {"new", "running", "known", "unknown", "reported"}]
  BY TypedFacts DEF TaskInv, Inside
<1>2. Owed \subseteq Unresolved /\ (drv.pc \in AtWork => Owed \subseteq drv.mine)
      /\ drv.pc \in {"turn", "settling"}
  BY DEF TaskInv, OnRecord
<1>3. Owed' \subseteq Owed
  BY <1>1 DEF Owed
<1>4. Owed' \subseteq Unresolved'
  BY <1>1, <1>2 DEF Owed, Unresolved
<1> QED BY <1>2, <1>3, <1>4 DEF OnRecord

LEMMA UnrecordedKeeps ==
  ASSUME TaskInv, NEW a \in Inside, ReturnUnrecorded(a)
  PROVE  TaskInv'
<1>1. /\ UNCHANGED <<ledger, torn, row, drv, talk, doubt, bounds>>
      /\ \E word \in {"known", "unknown"} : fate' = [fate EXCEPT ![a] = word]
  BY DEF ReturnUnrecorded
<1>2. /\ a \in Actions /\ fate[a] = "running" /\ ledger \in Ledgers
      /\ fate \in [Actions -> {"new", "running", "known", "unknown", "reported"}]
  BY TypedFacts DEF TaskInv, Inside
<1>3. TypedWrite
  BY <1>1, TypedFacts DEF TypedWrite, TaskInv
<1>4. Typed'
  BY <1>1, <1>2, <1>3, TypedFacts, TypedNext DEF TaskInv
<1>5. OnRecord'
  <2>1. ledger.unresolved[a] # "none"
    BY <1>2 DEF TaskInv, OnRecord, Owed, Unresolved
  <2> QED BY ZenonT(40), <1>1, <1>2, <2>1, ReturnOnRecord DEF Ledgers
<1>6. Accounted'
  BY <1>1, AccountedKept DEF TaskInv
<1>7. RecoveryUsable'
  BY <1>1, UsableKept DEF TaskInv
<1>8. InOrder' /\ Resuming'
  <2>1. drv.pc \in {"turn", "settling"}
    BY DEF TaskInv, OnRecord
  <2> QED BY <1>1, <2>1, InOrderKept DEF TaskInv, Resuming
<1> QED BY <1>4, <1>5, <1>6, <1>7, <1>8 DEF TaskInv

LEMMA FinishKeeps ==
  ASSUME TaskInv, NEW a \in Inside, NEW d \in Dispositions, FinishAction(a, d)
  PROVE  TaskInv'
<1> DEFINE observed == ledger.recovery.pending = "none"
           stops == drv.stopped \/ d = "interrupted"
           choices == IF ~observed THEN {ledger.recovery}
                      ELSE IF stops THEN {AfterStop(ledger.recovery)}
                      ELSE AfterObserving(ledger.recovery)
           kept == IF observed /\ stops THEN ledger.recovery ELSE ledger.before
           word == IF d = "settled" THEN "known" ELSE "unknown"
<1>1. /\ UNCHANGED <<row, talk, doubt>> /\ fate' = [fate EXCEPT ![a] = word]
      /\ \E r \in choices :
           Record(Changed([ledger EXCEPT !.unresolved[a] = Entry(d), !.recent = TRUE,
                                         !.recovery = r, !.before = kept]), drv, Shut(drv))
  BY DEF FinishAction
<1>2. PICK r \in choices :
        Record(Changed([ledger EXCEPT !.unresolved[a] = Entry(d), !.recent = TRUE,
                                      !.recovery = r, !.before = kept]), drv, Shut(drv))
  BY <1>1
<1>3. /\ a \in Actions /\ fate[a] = "running" /\ ledger \in Ledgers /\ drv \in Drivers
      /\ fate \in [Actions -> {"new", "running", "known", "unknown", "reported"}]
      /\ drv.pc \in {"turn", "settling"}
  BY TypedFacts DEF TaskInv, Inside, OnRecord
<1>4. /\ ledger.recovery \in Snapshots /\ ledger.before \in Snapshots
      /\ Loads(ledger.recovery) /\ Loads(ledger.before)
  BY <1>3 DEF Ledgers, TaskInv, RecoveryUsable
<1>5. /\ r \in Snapshots /\ Loads(r) /\ kept \in Snapshots /\ Loads(kept)
      /\ r.pending = "stopped" =>
           kept.pending # "stopped" /\ \A f \in {"attempts", "help", "total"} : kept[f] = r[f]
  <2>1. CASE ~observed
    BY <1>2, <1>4, <2>1 DEF TaskInv, RecoveryUsable
  <2>2. CASE observed /\ stops
    <3>1. r = AfterStop(ledger.recovery) /\ kept = ledger.recovery
      BY <1>2, <2>2
    <3> QED BY <1>4, <2>2, <3>1, StopLoads
  <2>3. CASE observed /\ ~stops
    <3>1. r \in AfterObserving(ledger.recovery) /\ kept = ledger.before
      BY <1>2, <2>3
    <3> QED BY <1>4, <2>3, <3>1, ObservingLoads
  <2> QED BY <2>1, <2>2, <2>3
<1> HIDE DEF choices, kept, word
<1> DEFINE plain == [ledger EXCEPT !.unresolved[a] = Entry(d), !.recent = TRUE,
                                   !.recovery = r, !.before = kept]
           next == Changed(plain)
<1>6. /\ next \in Ledgers
      /\ next.unresolved = [ledger.unresolved EXCEPT ![a] = Entry(d)]
      /\ next.phase = ledger.phase /\ next.uncertain = ledger.uncertain
      /\ next.completed = ledger.completed /\ next.boundary = ledger.boundary
      /\ next.generation = ledger.generation
      /\ next.recovery = r /\ next.before = kept
  <2>1. Entry(d) \in {"none", "error", "interrupted"}
    BY DEF Entry, Dispositions
  <2>2. /\ plain \in Ledgers
        /\ plain.unresolved = [ledger.unresolved EXCEPT ![a] = Entry(d)]
        /\ plain.phase = ledger.phase /\ plain.uncertain = ledger.uncertain
        /\ plain.completed = ledger.completed /\ plain.boundary = ledger.boundary
        /\ plain.generation = ledger.generation
        /\ plain.recovery = r /\ plain.before = kept
    BY <1>3, <1>5, <2>1 DEF Ledgers
  <2> HIDE DEF plain
  <2> QED BY <2>2, ChangedKeeps
<1>7. Record(next, drv, Shut(drv))
  BY <1>2
<1> HIDE DEF next
<1>8. Shut(drv) \in Drivers /\ Shut(drv).pc = drv.pc /\ Shut(drv).mine = drv.mine
  BY <1>3 DEF Drivers, Shut
<1>9. TypedWrite
  BY <1>3, <1>6, <1>7, <1>8, RecordTyped DEF TaskInv
<1>10. ledger' \in {ledger, next} /\ drv'.pc = drv.pc /\ drv'.mine = drv.mine
  BY <1>3, <1>7, <1>8, RecordOutcome DEF Drivers
<1>11. word \in {"known", "unknown"} /\ (word = "known" <=> d = "settled")
  BY DEF word
<1>12. Typed'
  BY <1>1, <1>3, <1>9, <1>11, TypedFacts, TypedNext DEF TaskInv
<1>13. OnRecord'
  <2>1. ledger.unresolved \in [Actions -> {"none", "intent", "error", "interrupted"}]
    BY <1>3 DEF Ledgers
  <2>2. ledger.unresolved[a] # "none"
    BY <1>3 DEF TaskInv, OnRecord, Owed, Unresolved
  <2>3. Entry(d) \in {"none", "error", "interrupted"} /\ (d # "settled" => Entry(d) # "none")
    BY DEF Entry, Dispositions
  <2>4. /\ ledger'.unresolved \in [Actions -> {"none", "intent", "error", "interrupted"}]
        /\ \A b \in Actions \ {a} : ledger'.unresolved[b] = ledger.unresolved[b]
        /\ word = "known" \/ ledger'.unresolved[a] # "none"
    BY <1>3, <1>6, <1>10, <1>11, <2>1, <2>2, <2>3
  <2> QED BY <1>1, <1>10, <1>11, <2>4, ReturnOnRecord
<1>14. Accounted'
  BY <1>1, <1>6, <1>10, AccountedKept DEF TaskInv
<1>15. RecoveryUsable'
  <2>1. CASE ledger' = ledger
    BY <2>1, UsableKept DEF TaskInv
  <2>2. CASE ledger' = next
    BY <1>5, <1>6, <2>2, UsableNext
  <2> QED BY <1>10, <2>1, <2>2
<1>16. InOrder' /\ Resuming'
  BY <1>1, <1>3, <1>6, <1>10, InOrderKept DEF TaskInv, Resuming
<1> QED BY <1>12, <1>13, <1>14, <1>15, <1>16 DEF TaskInv

LEMMA CrashKeeps ==
  ASSUME TaskInv, Crash
  PROVE  TaskInv'
<1>1. /\ drv' = Driver("idle") /\ talk' = "head" /\ UNCHANGED <<ledger, torn, row, doubt, bounds>>
      /\ fate' = [a \in Actions |-> IF fate[a] = "running" THEN "unknown" ELSE fate[a]]
  BY DEF Crash
<1>2. Driver("idle") \in Drivers /\ Driver("idle").pc = "idle"
  BY TypedFacts DEF TaskInv, Driver, Drivers, Pcs, Outcomes
<1>3. fate \in [Actions -> {"new", "running", "known", "unknown", "reported"}]
  BY TypedFacts DEF TaskInv
<1>4. TypedWrite /\ talk' \in Talks /\ fate' \in [Actions -> {"new", "running", "known", "unknown", "reported"}]
  BY <1>1, <1>2, <1>3, TypedFacts DEF TypedWrite, TaskInv, Talks
<1>5. Typed'
  BY <1>1, <1>4, TypedFacts, TypedNext DEF TaskInv
<1>6. OnRecord'
  <2>1. Owed' = Owed /\ Inside' = {} /\ Unresolved' = Unresolved
    BY <1>1, <1>3 DEF Owed, Inside, Unresolved
  <2> QED BY <1>1, <1>2, <2>1 DEF TaskInv, OnRecord, AtWork
<1>7. Accounted'
  BY <1>1, <1>2, AccountedKept DEF TaskInv, AtWork
<1>8. RecoveryUsable'
  BY <1>1, UsableKept DEF TaskInv
<1>9. InOrder' /\ Resuming'
  BY <1>1, <1>2, InOrderKept DEF TaskInv, Resuming
<1> QED BY <1>5, <1>6, <1>7, <1>8, <1>9 DEF TaskInv

----------------------------------------------------------------------------
(* Completion.                                                             *)

\* What a write that is about the completion or the archive leaves alone.
LEMMA CompletionKept ==
  ASSUME TaskInv, TypedWrite, UNCHANGED <<fate, doubt>>, row' \in Nat, talk' \in Talks,
         ledger'.unresolved = ledger.unresolved, ledger'.phase = ledger.phase,
         ledger'.uncertain = ledger.uncertain, ledger'.recovery = ledger.recovery,
         ledger'.before = ledger.before,
         drv.pc \in {"complete", "project", "boundary", "compare", "archive", "reset"},
         drv'.pc \in {"project", "boundary", "compare", "archive", "reset", "finish", "failing"},
         drv'.mine = drv.mine
  PROVE  Typed' /\ OnRecord' /\ Accounted' /\ RecoveryUsable' /\ Resuming'
<1>1. Typed'
  BY TypedFacts, TypedNext DEF TaskInv
<1>2. OnRecord'
  <2>1. Inside = {} /\ drv.pc \in AtWork
    BY DEF TaskInv, OnRecord, AtWork
  <2> QED BY <2>1, OnRecordKept DEF TaskInv
<1>3. Accounted'
  BY AccountedKept DEF TaskInv, AtWork
<1>4. RecoveryUsable' /\ Resuming'
  BY UsableKept DEF TaskInv, Resuming
<1> QED BY <1>1, <1>2, <1>3, <1>4

LEMMA CompletionTerms ==
  ASSUME TaskInv
  PROVE  /\ Failing \in Drivers /\ Failing.pc = "failing" /\ Failing.mine = drv.mine
         /\ Shut(Failing) \in Drivers /\ Shut(Failing).pc = "failing" /\ Shut(Failing).mine = drv.mine
         /\ Finish("done") \in Drivers /\ Finish("done").pc = "finish" /\ Finish("done").mine = drv.mine
         /\ \A pc \in Pcs : Goto(pc) \in Drivers /\ Goto(pc).pc = pc /\ Goto(pc).mine = drv.mine
BY TypedFacts DEF TaskInv, Drivers, Failing, Shut, Finish, Goto, Pcs, Outcomes

LEMMA CompleteKeeps ==
  ASSUME TaskInv, Complete
  PROVE  TaskInv'
<1> DEFINE id == IF ledger.completed # 0 THEN ledger.completed ELSE ledger.receipt.id
           next == [ledger EXCEPT !.completed = id]
<1>1. /\ drv.pc = "complete" /\ UNCHANGED <<row, talk, fate, doubt>>
      /\ \/ drv' \in {Failing, Goto("project")} /\ UNCHANGED <<ledger, torn, bounds>>
         \/ ledger.completed = 0 /\ Record(next, Goto("project"), Shut(Failing))
  BY DEF Complete, Commit
<1>2. ledger \in Ledgers /\ next \in Ledgers
  BY TypedFacts DEF TaskInv, Ledgers
<1>3. "project" \in Pcs
  BY DEF Pcs, AtWork
<1>4. /\ TypedWrite /\ drv'.pc \in {"project", "failing"} /\ drv'.mine = drv.mine
      /\ \/ ledger' = ledger
         \/ ledger.completed = 0 /\ ledger' = next
  <2> HIDE DEF next
  <2>1. CASE drv' \in {Failing, Goto("project")} /\ UNCHANGED <<ledger, torn, bounds>>
    BY <1>3, <2>1, CompletionTerms, TypedFacts DEF TypedWrite, TaskInv
  <2>2. CASE ledger.completed = 0 /\ Record(next, Goto("project"), Shut(Failing))
    <3>1. TypedWrite
      BY <1>2, <1>3, <2>2, CompletionTerms, RecordTyped DEF TaskInv
    <3>2. /\ drv'.pc \in {"project", "failing"} /\ drv'.mine = drv.mine
          /\ ledger' \in {ledger, next}
      BY <1>3, <2>2, CompletionTerms, RecordOutcome DEF Drivers
    <3> QED BY <2>2, <3>1, <3>2
  <2> QED BY <1>1, <2>1, <2>2
<1>5. /\ ledger'.unresolved = ledger.unresolved /\ ledger'.phase = ledger.phase
      /\ ledger'.uncertain = ledger.uncertain /\ ledger'.recovery = ledger.recovery
      /\ ledger'.before = ledger.before /\ ledger'.boundary = ledger.boundary
      /\ ledger'.generation = ledger.generation
      /\ ledger'.completed = ledger.completed \/ ledger.completed = 0
  BY <1>2, <1>4 DEF Ledgers
<1>6. Typed' /\ OnRecord' /\ Accounted' /\ RecoveryUsable' /\ Resuming'
  BY <1>1, <1>4, <1>5, CompletionKept, TypedFacts DEF TaskInv
<1>7. InOrder'
  BY <1>1, <1>4, <1>5 DEF TaskInv, InOrder
<1> QED BY <1>6, <1>7 DEF TaskInv

LEMMA ProjectKeeps ==
  ASSUME TaskInv, Project
  PROVE  TaskInv'
<1>1. /\ drv.pc = "project" /\ UNCHANGED <<ledger, torn, talk, fate, doubt, bounds>>
      /\ \/ row \in {0, ledger.completed} /\ row' = ledger.completed /\ drv' = Goto("boundary")
         \/ drv' = Failing /\ UNCHANGED row
  BY DEF Project
<1>2. "boundary" \in Pcs
  BY DEF Pcs, AtWork
<1>3. TypedWrite /\ row' \in Nat /\ drv'.pc \in {"boundary", "failing"} /\ drv'.mine = drv.mine
  BY <1>1, <1>2, CompletionTerms, TypedFacts DEF TypedWrite, TaskInv, Ledgers
<1>4. Typed' /\ OnRecord' /\ Accounted' /\ RecoveryUsable' /\ Resuming'
  BY <1>1, <1>3, CompletionKept, TypedFacts DEF TaskInv
<1>5. InOrder'
  BY <1>1, <1>3 DEF TaskInv, InOrder
<1> QED BY <1>4, <1>5 DEF TaskInv

LEMMA PrepareKeeps ==
  ASSUME TaskInv, PrepareBoundary
  PROVE  TaskInv'
<1> DEFINE goto == Goto(IF ledger.archive = {} THEN "archive" ELSE "compare")
           next == [ledger EXCEPT !.boundary = "prepared"]
<1>1. /\ drv.pc = "boundary" /\ UNCHANGED <<row, talk, fate, doubt>>
      /\ \/ drv' \in {Failing, Finish("done")} /\ UNCHANGED <<ledger, torn, bounds>>
         \/ ledger.boundary = "prepared" /\ drv' = goto /\ UNCHANGED <<ledger, torn, bounds>>
         \/ /\ Eligible /\ ledger.boundary \notin {"acknowledged", "prepared"}
            /\ Record(next, goto, Shut(Failing))
  BY DEF PrepareBoundary, Commit
<1>2. /\ ledger \in Ledgers /\ next \in Ledgers
      /\ goto \in Drivers /\ goto.pc \in {"compare", "archive"} /\ goto.mine = drv.mine
  <2>1. (IF ledger.archive = {} THEN "archive" ELSE "compare") \in Pcs
    BY DEF Pcs, AtWork
  <2> QED BY <2>1, CompletionTerms, TypedFacts DEF TaskInv, Ledgers
<1>3. /\ TypedWrite /\ drv'.mine = drv.mine /\ drv'.pc \in {"compare", "archive", "failing", "finish"}
      /\ \/ ledger' = ledger /\ drv'.pc \in {"failing", "finish"}
         \/ ledger' = ledger /\ ledger.boundary = "prepared"
         \/ /\ Eligible /\ ledger.boundary \notin {"acknowledged", "prepared"}
            /\ ledger' = next
  <2> HIDE DEF next, goto
  <2>1. CASE drv' \in {Failing, Finish("done")} /\ UNCHANGED <<ledger, torn, bounds>>
    BY <2>1, CompletionTerms, TypedFacts DEF TypedWrite, TaskInv
  <2>2. CASE ledger.boundary = "prepared" /\ drv' = goto /\ UNCHANGED <<ledger, torn, bounds>>
    BY <1>2, <2>2, TypedFacts DEF TypedWrite, TaskInv
  <2>3. CASE /\ Eligible /\ ledger.boundary \notin {"acknowledged", "prepared"}
             /\ Record(next, goto, Shut(Failing))
    <3>1. TypedWrite
      BY <1>2, <2>3, CompletionTerms, RecordTyped DEF TaskInv
    <3>2. /\ drv'.mine = drv.mine
          /\ \/ ledger' = next /\ drv'.pc \in {"compare", "archive"}
             \/ ledger' \in {ledger, next} /\ drv'.pc = "failing"
      BY <1>2, <2>3, CompletionTerms, RecordOutcome DEF Drivers
    <3> QED BY <2>3, <3>1, <3>2
  <2> QED BY <1>1, <2>1, <2>2, <2>3
<1>4. /\ ledger'.unresolved = ledger.unresolved /\ ledger'.phase = ledger.phase
      /\ ledger'.uncertain = ledger.uncertain /\ ledger'.recovery = ledger.recovery
      /\ ledger'.before = ledger.before /\ ledger'.completed = ledger.completed
      /\ ledger'.generation = ledger.generation
  BY <1>2, <1>3 DEF Ledgers
<1>5. Typed' /\ OnRecord' /\ Accounted' /\ RecoveryUsable' /\ Resuming'
  BY <1>1, <1>3, <1>4, CompletionKept, TypedFacts DEF TaskInv
<1>6. InOrder'
  <2>1. CASE ledger' = ledger
    <3>1. next.boundary = "prepared"
      BY <1>2 DEF Ledgers
    <3>2. drv'.pc \in {"failing", "finish"} \/ ledger.boundary = "prepared"
      BY <1>3, <2>1, <3>1
    <3>3. drv'.pc # "reset"
      BY <1>3
    <3> QED BY <1>1, <1>3, <2>1, <3>2, <3>3 DEF TaskInv, InOrder
  <2>2. CASE Eligible /\ ledger.boundary \notin {"acknowledged", "prepared"} /\ ledger' = next
    <3>1. row # 0 /\ row = ledger.completed
      BY <2>2 DEF Eligible, CheckedReceipt
    <3>2. ledger'.boundary = "prepared"
      BY <1>2, <2>2 DEF Ledgers
    <3> QED BY <1>1, <1>3, <1>4, <2>2, <3>1, <3>2 DEF TaskInv, InOrder
  <2> QED BY <1>3, <2>1, <2>2
<1> QED BY <1>5, <1>6 DEF TaskInv

LEMMA CompareKeeps ==
  ASSUME TaskInv, CompareArchive
  PROVE  TaskInv'
<1>1. /\ drv.pc = "compare" /\ UNCHANGED <<ledger, torn, row, talk, fate, doubt, bounds>>
      /\ \/ talk \in ledger.archive \cup {"head"} /\ drv' = Goto("reset")
         \/ drv' = Failing
  BY DEF CompareArchive
<1>2. "reset" \in Pcs
  BY DEF Pcs, AtWork
<1>3. TypedWrite /\ drv'.pc \in {"reset", "failing"} /\ drv'.mine = drv.mine
  BY <1>1, <1>2, CompletionTerms, TypedFacts DEF TypedWrite, TaskInv
<1>4. drv'.pc = "reset" => talk \in ledger.archive \cup {"head"}
  BY <1>1, CompletionTerms
<1>5. Typed' /\ OnRecord' /\ Accounted' /\ RecoveryUsable' /\ Resuming'
  BY <1>1, <1>3, CompletionKept, TypedFacts DEF TaskInv
<1>6. InOrder'
  BY <1>1, <1>3, <1>4 DEF TaskInv, InOrder
<1> QED BY <1>5, <1>6 DEF TaskInv

LEMMA ArchiveKeeps ==
  ASSUME TaskInv, Archive
  PROVE  TaskInv'
<1> DEFINE next == [ledger EXCEPT !.archive = {talk}]
<1>1. /\ drv.pc = "archive" /\ UNCHANGED <<row, talk, fate, doubt>>
      /\ Record(next, Goto("reset"), Failing)
  BY DEF Archive, Note
<1>2. ledger \in Ledgers /\ next \in Ledgers /\ "reset" \in Pcs
  BY TypedFacts DEF TaskInv, Ledgers, Pcs, AtWork
<1>3. TypedWrite
  <2> HIDE DEF next
  <2> QED BY <1>1, <1>2, CompletionTerms, RecordTyped DEF TaskInv
<1>4. /\ drv'.mine = drv.mine
      /\ \/ ledger' = next /\ drv'.pc = "reset"
         \/ ledger' \in {ledger, next} /\ drv'.pc = "failing"
  <2> HIDE DEF next
  <2> QED BY <1>1, <1>2, CompletionTerms, RecordOutcome DEF Drivers
<1>5. /\ ledger'.unresolved = ledger.unresolved /\ ledger'.phase = ledger.phase
      /\ ledger'.uncertain = ledger.uncertain /\ ledger'.recovery = ledger.recovery
      /\ ledger'.before = ledger.before /\ ledger'.completed = ledger.completed
      /\ ledger'.boundary = ledger.boundary /\ ledger'.generation = ledger.generation
      /\ drv'.pc = "reset" => talk \in ledger'.archive
  BY <1>2, <1>4 DEF Ledgers
<1>6. Typed' /\ OnRecord' /\ Accounted' /\ RecoveryUsable' /\ Resuming'
  BY <1>1, <1>3, <1>4, <1>5, CompletionKept, TypedFacts DEF TaskInv
<1>7. InOrder'
  BY <1>1, <1>4, <1>5 DEF TaskInv, InOrder
<1> QED BY <1>6, <1>7 DEF TaskInv

LEMMA ResetKeeps ==
  ASSUME TaskInv, Reset
  PROVE  TaskInv'
<1> DEFINE next == [ledger EXCEPT !.boundary = "acknowledged", !.generation = @ + 1]
<1>1. /\ drv.pc = "reset" /\ UNCHANGED <<row, fate, doubt>>
      /\ \/ Eligible /\ Record(next, Finish("done"), Shut(Failing))
         \/ drv' = Failing /\ UNCHANGED <<ledger, torn, bounds>>
      /\ talk' \in {talk, "head"}
  BY DEF Reset, Commit
<1>2. ledger.boundary = "prepared" /\ ledger.generation = 0 /\ row # 0 /\ row = ledger.completed
  BY <1>1 DEF TaskInv, InOrder
<1>3. /\ ledger \in Ledgers /\ next \in Ledgers
      /\ next.boundary = "acknowledged" /\ next.generation = 1
  <2>1. ledger \in Ledgers /\ ledger.generation + 1 = 1 /\ 1 \in {0, 1}
    BY <1>2, TypedFacts DEF TaskInv
  <2> QED BY <2>1 DEF Ledgers
<1>4. /\ TypedWrite /\ drv'.mine = drv.mine /\ drv'.pc \in {"finish", "failing"}
      /\ ledger' \in {ledger, next}
  <2> HIDE DEF next
  <2>1. CASE drv' = Failing /\ UNCHANGED <<ledger, torn, bounds>>
    BY <2>1, CompletionTerms, TypedFacts DEF TypedWrite, TaskInv
  <2>2. CASE Record(next, Finish("done"), Shut(Failing))
    <3>1. TypedWrite
      BY <1>3, <2>2, CompletionTerms, RecordTyped DEF TaskInv
    <3> QED BY <2>2, <3>1, CompletionTerms, RecordOutcome DEF Drivers
  <2> QED BY <1>1, <2>1, <2>2
<1>5. /\ ledger'.unresolved = ledger.unresolved /\ ledger'.phase = ledger.phase
      /\ ledger'.uncertain = ledger.uncertain /\ ledger'.recovery = ledger.recovery
      /\ ledger'.before = ledger.before /\ ledger'.completed = ledger.completed
      /\ \/ ledger'.boundary = ledger.boundary /\ ledger'.generation = ledger.generation
         \/ ledger'.boundary = "acknowledged" /\ ledger'.generation = 1
  BY <1>3, <1>4 DEF Ledgers
<1>6. Typed' /\ OnRecord' /\ Accounted' /\ RecoveryUsable' /\ Resuming'
  <2>1. row' \in Nat /\ talk' \in Talks
    BY <1>1, TypedFacts DEF TaskInv, Talks
  <2> QED BY <1>1, <1>4, <1>5, <2>1, CompletionKept
<1>7. InOrder'
  BY <1>1, <1>2, <1>4, <1>5 DEF TaskInv, InOrder
<1> QED BY <1>6, <1>7 DEF TaskInv

----------------------------------------------------------------------------
(* The owner's Stop, and what a resumed run does before its loop.          *)

LEMMA CancelKeeps ==
  ASSUME TaskInv, Cancel
  PROVE  TaskInv'
<1> DEFINE stopped == [drv EXCEPT !.pc = "settling", !.stopped = TRUE, !.accepting = FALSE]
           raised == IF drv.pc = "turn" THEN Shut(stopped) ELSE Driver("idle")
           r == AfterStop(ledger.recovery)
           next == [ledger EXCEPT !.before = ledger.recovery, !.recovery = r]
<1>1. /\ drv.pc \in {"contract", "loop", "turn", "review", "compare", "archive"}
      /\ UNCHANGED <<row, talk, fate, doubt>>
      /\ \/ ledger.recovery.pending # "stopped" /\ Record(next, stopped, raised)
         \/ drv' = stopped /\ UNCHANGED <<ledger, torn, bounds>>
  BY DEF Cancel, Stoppable
<1>2. /\ ledger \in Ledgers /\ ledger.recovery \in Snapshots /\ Loads(ledger.recovery)
  BY TypedFacts DEF TaskInv, RecoveryUsable, Ledgers
<1>3. /\ r \in Snapshots /\ Loads(r)
      /\ \A f \in {"attempts", "help", "total"} : ledger.recovery[f] = r[f]
  BY <1>2, StopLoads
<1> HIDE DEF r
<1>4. /\ next \in Ledgers /\ next.recovery = r /\ next.before = ledger.recovery
      /\ next.unresolved = ledger.unresolved /\ next.phase = ledger.phase
      /\ next.uncertain = ledger.uncertain /\ next.completed = ledger.completed
      /\ next.boundary = ledger.boundary /\ next.generation = ledger.generation
  BY <1>2, <1>3 DEF Ledgers
<1>5. /\ stopped \in Drivers /\ stopped.pc = "settling"
      /\ raised \in Drivers
      /\ raised.pc = IF drv.pc = "turn" THEN "settling" ELSE "idle"
  <2>1. stopped \in Drivers /\ stopped.pc = "settling"
    BY TypedFacts DEF TaskInv, Drivers, Pcs
  <2>2. Shut(stopped) \in Drivers /\ Shut(stopped).pc = "settling"
    <3> HIDE DEF stopped
    <3> QED BY <2>1 DEF Drivers, Shut
  <2>3. Driver("idle") \in Drivers /\ Driver("idle").pc = "idle"
    BY DriverTerms DEF TaskInv, Pcs, Driver
  <2> HIDE DEF stopped
  <2> QED BY <2>1, <2>2, <2>3
<1> HIDE DEF stopped, raised, next
<1>6. TypedWrite /\ drv'.pc \in {"settling", "idle"} /\ (drv.pc = "turn" => drv'.pc = "settling")
      /\ \/ ledger' = ledger
         \/ ledger.recovery.pending # "stopped" /\ ledger' = next
  <2>1. CASE ledger.recovery.pending # "stopped" /\ Record(next, stopped, raised)
    <3>1. TypedWrite
      BY <1>4, <1>5, <2>1, RecordTyped DEF TaskInv
    <3>2. /\ ledger' \in {ledger, next}
          /\ drv' \in {stopped, raised, [raised EXCEPT !.dead = TRUE]}
      BY <2>1, RecordOutcome
    <3> QED BY <1>5, <2>1, <3>1, <3>2 DEF Drivers
  <2>2. CASE drv' = stopped /\ UNCHANGED <<ledger, torn, bounds>>
    BY <1>5, <2>2, TypedFacts DEF TaskInv, TypedWrite
  <2> QED BY <1>1, <2>1, <2>2
<1>7. Typed' /\ OnRecord' /\ Accounted'
  <2>1. Inside # {} => drv.pc = "turn"
    BY <1>1 DEF TaskInv, OnRecord
  <2> QED BY <1>1, <1>4, <1>6, <2>1, RestKept, TypedFacts DEF TaskInv, AtWork
<1>8. RecoveryUsable'
  <2>1. CASE ledger' = ledger
    BY <2>1, UsableKept DEF TaskInv
  <2>2. CASE ledger.recovery.pending # "stopped" /\ ledger' = next
    BY <1>2, <1>3, <1>4, <2>2, UsableNext
  <2> QED BY <1>6, <2>1, <2>2
<1>9. InOrder' /\ Resuming'
  BY <1>1, <1>4, <1>6, InOrderKept DEF TaskInv, Resuming
<1> QED BY <1>7, <1>8, <1>9 DEF TaskInv

\* What Admit may do, one branch a line.
LEMMA AdmitOutcome ==
  ASSUME TaskInv, Admit
  PROVE  /\ drv.pc = "claim" /\ UNCHANGED <<row, talk, fate, doubt>>
         /\ \/ /\ drv' \in {Finish("halted"), Finish("need_input"), Driver("idle"), Failing}
               /\ UNCHANGED <<ledger, torn, bounds>>
            \/ /\ Unresolved = {} /\ (ledger.recovery.pending = "stopped" => drv.note)
               /\ Record([ledger EXCEPT !.status = "running"], Goto("requested"), Failing)
BY DEF Admit, Note

LEMMA AdmitKeeps ==
  ASSUME TaskInv, Admit
  PROVE  TaskInv'
<1> DEFINE next == [ledger EXCEPT !.status = "running"]
<1>1. /\ drv.pc = "claim" /\ UNCHANGED <<row, talk, fate, doubt>>
      /\ \/ /\ drv' \in {Finish("halted"), Finish("need_input"), Driver("idle"), Failing}
            /\ UNCHANGED <<ledger, torn, bounds>>
         \/ /\ Unresolved = {} /\ (ledger.recovery.pending = "stopped" => drv.note)
            /\ Record(next, Goto("requested"), Failing)
  BY AdmitOutcome
<1>2. /\ ledger \in Ledgers /\ drv \in Drivers
      /\ next \in Ledgers /\ next.unresolved = ledger.unresolved
      /\ next.phase = ledger.phase /\ next.uncertain = ledger.uncertain
      /\ next.recovery = ledger.recovery /\ next.before = ledger.before
      /\ next.completed = ledger.completed
      /\ next.boundary = ledger.boundary /\ next.generation = ledger.generation
  BY TypedFacts DEF TaskInv, Ledgers
<1> HIDE DEF next
<1>3. /\ Finish("halted") \in Drivers /\ Finish("halted").pc = "finish"
      /\ Finish("need_input") \in Drivers /\ Finish("need_input").pc = "finish"
      /\ Driver("idle") \in Drivers /\ Driver("idle").pc = "idle"
      /\ Failing \in Drivers /\ Failing.pc = "failing"
      /\ Goto("requested") \in Drivers /\ Goto("requested").pc = "requested"
      /\ Goto("requested").note = drv.note
  BY <1>2, DriverTerms DEF TaskInv, Drivers, Finish, Driver, Failing, Goto, Pcs, AtWork, Outcomes
<1>4. /\ TypedWrite /\ ledger' \in {ledger, next}
      /\ \/ drv'.pc \in {"finish", "failing", "idle"}
         \/ /\ drv'.pc = "requested" /\ drv'.note = drv.note
            /\ Unresolved = {} /\ (ledger.recovery.pending = "stopped" => drv.note)
  <2>1. CASE /\ drv' \in {Finish("halted"), Finish("need_input"), Driver("idle"), Failing}
             /\ UNCHANGED <<ledger, torn, bounds>>
    BY <1>3, <2>1, TypedFacts DEF TaskInv, TypedWrite
  <2>2. CASE /\ Unresolved = {} /\ (ledger.recovery.pending = "stopped" => drv.note)
             /\ Record(next, Goto("requested"), Failing)
    <3>1. TypedWrite
      BY <1>2, <1>3, <2>2, RecordTyped DEF TaskInv
    <3>2. /\ ledger' \in {ledger, next}
          /\ drv' \in {Goto("requested"), Failing, [Failing EXCEPT !.dead = TRUE]}
      BY <2>2, RecordOutcome
    <3> QED BY <1>3, <2>2, <3>1, <3>2 DEF Drivers
  <2> QED BY <1>1, <2>1, <2>2
<1>5. Typed'
  BY <1>1, <1>4, TypedFacts, TypedNext DEF TaskInv
<1>6. OnRecord'
  <2>1. /\ Owed \subseteq Unresolved /\ Inside = {}
        /\ Owed' = Owed /\ Inside' = Inside /\ Unresolved' = Unresolved
    BY <1>1, <1>2, <1>4 DEF TaskInv, OnRecord, Owed, Inside, Unresolved
  <2> QED BY <1>4, <2>1 DEF OnRecord, AtWork
<1>7. Accounted'
  BY <1>1, <1>2, <1>4 DEF TaskInv, Accounted, Running, AtWork
<1>8. RecoveryUsable'
  BY <1>2, <1>4, UsableKept DEF TaskInv
<1>9. InOrder' /\ Resuming'
  BY <1>1, <1>2, <1>4, InOrderKept DEF TaskInv, Resuming, Unresolved
<1> QED BY <1>5, <1>6, <1>7, <1>8, <1>9 DEF TaskInv

LEMMA ClearKeeps ==
  ASSUME TaskInv, ClearUncertainty
  PROVE  TaskInv'
<1> DEFINE phase == CASE ledger.phase = "review_pending" -> ledger.phase
                      [] ledger.phase \in {"contract_needed", "contract_running"} -> "contract_needed"
                      [] OTHER -> "ready"
           next == [ledger EXCEPT !.uncertain = FALSE, !.phase = phase]
<1>1. /\ drv.pc = "requested" /\ UNCHANGED <<row, talk, fate>>
      /\ \/ InDoubt /\ Record(next, Goto("cleared"), Failing)
         \/ ~InDoubt /\ drv' = Goto("cleared") /\ UNCHANGED <<ledger, torn, bounds>>
      /\ doubt' = (doubt /\ ledger' = ledger)
  BY DEF ClearUncertainty, Note
<1>2. /\ ledger \in Ledgers /\ drv \in Drivers /\ doubt \in BOOLEAN
      /\ phase \in Phases \ {"contract_running", "worker_running"}
  BY TypedFacts DEF TaskInv, Ledgers, Phases
<1> HIDE DEF phase
<1>3. /\ next \in Ledgers /\ next.phase = phase /\ ~next.uncertain
      /\ next.unresolved = ledger.unresolved
      /\ next.recovery = ledger.recovery /\ next.before = ledger.before
      /\ next.completed = ledger.completed
      /\ next.boundary = ledger.boundary /\ next.generation = ledger.generation
  BY <1>2 DEF Ledgers
<1> HIDE DEF next
<1>4. /\ Failing \in Drivers /\ Failing.pc = "failing" /\ Failing.mine = drv.mine
      /\ Goto("cleared") \in Drivers /\ Goto("cleared").pc = "cleared"
      /\ Goto("cleared").note = drv.note /\ Goto("cleared").mine = drv.mine
  BY <1>2 DEF Drivers, Failing, Goto, Pcs, AtWork
<1>5. /\ TypedWrite /\ drv'.mine = drv.mine
      /\ \/ drv'.pc = "cleared" /\ drv'.note = drv.note /\ ledger' = next
         \/ drv'.pc = "cleared" /\ drv'.note = drv.note /\ ledger' = ledger /\ ~InDoubt
         \/ drv'.pc = "failing" /\ ledger' \in {ledger, next}
  <2>1. CASE InDoubt /\ Record(next, Goto("cleared"), Failing)
    <3>1. TypedWrite
      BY <1>3, <1>4, <2>1, RecordTyped DEF TaskInv
    <3>2. \/ ledger' = next /\ drv' = Goto("cleared")
          \/ ledger' \in {ledger, next} /\ drv' \in {Failing, [Failing EXCEPT !.dead = TRUE]}
      BY <2>1, RecordOutcome
    <3> QED BY <1>4, <3>1, <3>2 DEF Drivers
  <2>2. CASE ~InDoubt /\ drv' = Goto("cleared") /\ UNCHANGED <<ledger, torn, bounds>>
    BY <1>4, <2>2, TypedFacts DEF TaskInv, TypedWrite
  <2> QED BY <1>1, <2>1, <2>2
<1>6. doubt' \in BOOLEAN /\ (doubt' => doubt /\ ledger' = ledger)
  BY <1>1, <1>2
<1>7. Typed'
  BY <1>1, <1>5, <1>6, TypedFacts, TypedNext DEF TaskInv
<1>8. OnRecord'
  <2>1. Inside = {} /\ drv.pc \in AtWork
    BY <1>1 DEF TaskInv, OnRecord, AtWork
  <2> QED BY <1>1, <1>3, <1>5, <2>1, OnRecordKept DEF TaskInv
<1>9. Accounted'
  <2>1. CASE ledger' = next
    <3>1. doubt' => doubt /\ next = ledger
      BY <1>6, <2>1
    <3>2. ~doubt'
      BY <1>2, <1>3, <3>1 DEF TaskInv, Accounted, Running
    <3> QED BY <1>2, <1>3, <1>5, <2>1, <3>2 DEF Accounted, Running
  <2>2. CASE ledger' = ledger
    BY <1>2, <1>3, <1>5, <1>6, <2>2 DEF TaskInv, Accounted, Running, InDoubt, AtWork
  <2> QED BY <1>5, <2>1, <2>2
<1>10. RecoveryUsable'
  BY <1>3, <1>5, UsableKept DEF TaskInv
<1>11. InOrder'
  BY <1>1, <1>3, <1>5, InOrderKept DEF TaskInv
<1>12. Resuming'
  BY <1>1, <1>3, <1>5 DEF TaskInv, Resuming, Unresolved
<1> QED BY <1>7, <1>8, <1>9, <1>10, <1>11, <1>12 DEF TaskInv

LEMMA ResumeStoppedKeeps ==
  ASSUME TaskInv, ResumeStopped
  PROVE  TaskInv'
<1> DEFINE pc == IF ledger.phase = "contract_needed" THEN "contract_due" ELSE "attach"
           next == [ledger EXCEPT !.recovery = ledger.before]
<1>1. /\ drv.pc = "cleared" /\ UNCHANGED <<row, talk, fate, doubt>>
      /\ \/ ledger.recovery.pending = "stopped" /\ Record(next, Goto(pc), Shut(Failing))
         \/ drv' = Goto(pc) /\ UNCHANGED <<ledger, torn, bounds>>
  BY DEF ResumeStopped, Commit
<1>2. pc \in {"contract_due", "attach"}
  OBVIOUS
<1> HIDE DEF pc
<1>3. /\ ledger \in Ledgers /\ drv \in Drivers
      /\ next \in Ledgers /\ next.recovery = ledger.before /\ next.before = ledger.before
      /\ next.unresolved = ledger.unresolved /\ next.phase = ledger.phase
      /\ next.uncertain = ledger.uncertain /\ next.completed = ledger.completed
      /\ next.boundary = ledger.boundary /\ next.generation = ledger.generation
  BY TypedFacts DEF TaskInv, Ledgers
<1> HIDE DEF next
<1>4. /\ Shut(Failing) \in Drivers /\ Shut(Failing).pc = "failing" /\ Shut(Failing).mine = drv.mine
      /\ Goto(pc) \in Drivers /\ Goto(pc).pc = pc /\ Goto(pc).mine = drv.mine
  BY <1>2, <1>3 DEF Drivers, Shut, Failing, Goto, Pcs, AtWork
<1>5. /\ TypedWrite /\ drv'.mine = drv.mine /\ drv'.pc \in {"contract_due", "attach", "failing"}
      /\ \/ ledger' = ledger
         \/ ledger.recovery.pending = "stopped" /\ ledger' = next
  <2>1. CASE ledger.recovery.pending = "stopped" /\ Record(next, Goto(pc), Shut(Failing))
    <3>1. TypedWrite
      BY <1>3, <1>4, <2>1, RecordTyped DEF TaskInv
    <3>2. /\ ledger' \in {ledger, next}
          /\ drv' \in {Goto(pc), Shut(Failing), [Shut(Failing) EXCEPT !.dead = TRUE]}
      BY <2>1, RecordOutcome
    <3> QED BY <1>2, <1>4, <2>1, <3>1, <3>2 DEF Drivers
  <2>2. CASE drv' = Goto(pc) /\ UNCHANGED <<ledger, torn, bounds>>
    BY <1>2, <1>4, <2>2, TypedFacts DEF TaskInv, TypedWrite
  <2> QED BY <1>1, <2>1, <2>2
<1>6. Typed' /\ OnRecord' /\ Accounted'
  <2>1. Inside = {}
    BY <1>1 DEF TaskInv, OnRecord
  <2> QED BY <1>1, <1>3, <1>5, <2>1, RestKept, TypedFacts DEF TaskInv, AtWork
<1>7. RecoveryUsable'
  <2>1. CASE ledger' = ledger
    BY <2>1, UsableKept DEF TaskInv
  <2>2. CASE ledger.recovery.pending = "stopped" /\ ledger' = next
    BY <1>3, <2>2, UsableNext DEF TaskInv, RecoveryUsable
  <2> QED BY <1>5, <2>1, <2>2
<1>8. InOrder' /\ Resuming'
  BY <1>1, <1>3, <1>5, InOrderKept DEF TaskInv, Resuming
<1> QED BY <1>6, <1>7, <1>8 DEF TaskInv

----------------------------------------------------------------------------
(* The invariant.                                                          *)

LEMMA InitTaskInv ==
  ASSUME Init
  PROVE  TaskInv
<1>1. Typed
  BY FreshLoads DEF Init, Typed, TypeOK, Drivers, Bounds, Driver, Pcs, AtWork, Outcomes, Phases,
                    Talks, NoReceipt
<1>2. OnRecord
  BY DEF Init, OnRecord, Owed, Inside
<1>3. Accounted
  BY DEF Init, Accounted, Driver, Running
<1>4. RecoveryUsable
  BY FreshLoads DEF Init, RecoveryUsable, FreshSnapshot
<1>5. InOrder /\ Resuming
  BY DEF Init, InOrder, Resuming, Driver
<1> QED BY <1>1, <1>2, <1>3, <1>4, <1>5 DEF TaskInv

LEMMA StutterKeeps ==
  ASSUME TaskInv, UNCHANGED vars
  PROVE  TaskInv'
BY DEF vars, TaskInv, Typed, TypeOK, OnRecord, Owed, Unresolved, Inside, Accounted, Running,
       RecoveryUsable, InOrder, Resuming

LEMMA NextKeeps ==
  ASSUME TaskInv, Next
  PROVE  TaskInv'
<1>1. CASE \E a \in Actions : BeginAction(a) \/ ReconcileAction(a)
  BY <1>1, BeginKeeps, ReconcileKeeps
<1>2. CASE HandlerReturns
  BY <1>2, UnrecordedKeeps, FinishKeeps DEF HandlerReturns
<1>3. CASE ObserveRepetition \/ ObservationLost \/ DecisionFirst
  BY <1>3, ObserveKeeps, ObservationLostKeeps, DecisionKeeps
<1>4. CASE StartContract \/ EstablishContract \/ Attach \/ RecoveryReady \/ StartTurn \/ EndTurn
  BY <1>4, StartContractKeeps, EstablishContractKeeps, AttachKeeps, RecoveryReadyKeeps,
     StartTurnKeeps, EndTurnKeeps
<1>5. CASE OutOfBudget \/ TurnFails \/ StartReview \/ Unverified
  BY <1>5, StopsKeep
<1>6. CASE BudgetLimit \/ Rejected \/ Passed
  BY <1>6, BudgetLimitKeeps, RejectedKeeps, PassedKeeps
<1>7. CASE Complete \/ Project \/ PrepareBoundary \/ CompareArchive \/ Archive \/ Reset
  BY <1>7, CompleteKeeps, ProjectKeeps, PrepareKeeps, CompareKeeps, ArchiveKeeps, ResetKeeps
<1>8. CASE WriteOutcome \/ HandleError \/ Interrupted \/ ReportStorageFailure \/ OwnerTalks \/ Resume
  BY <1>8, WriteOutcomeKeeps, ErrorKeeps, AsideKeeps
<1>9. CASE Cancel \/ Crash \/ Admit \/ ClearUncertainty \/ ResumeStopped
  BY <1>9, CancelKeeps, CrashKeeps, AdmitKeeps, ClearKeeps, ResumeStoppedKeeps
<1> QED BY <1>1, <1>2, <1>3, <1>4, <1>5, <1>6, <1>7, <1>8, <1>9 DEF Next

\* The run keeps its ledger, its driver and the task row in the order that
\* every other result of this module rests on.
THEOREM TaskInvariant == Spec => []TaskInv
<1>1. TaskInv /\ [Next]_vars => TaskInv'
  BY NextKeeps, StutterKeeps
<1> QED BY <1>1, InitTaskInv, PTL DEF Spec

\* Whatever failed or died in between, the ledger names every handler call
\* whose effect is not known, and a turn nobody saw end leaves the run
\* uncertain or in a running phase.
THEOREM TaskForgetsNothing == Spec => []NothingForgotten
<1>1. TaskInv => NothingForgotten
  BY DEF TaskInv, Typed, OnRecord, Owed, Unresolved, Accounted, NothingForgotten, InDoubt
<1> QED BY <1>1, TaskInvariant, PTL

\* The recovery state of the ledger can be loaded again by the next process,
\* and so can the one a Stop put aside, with every budget as it was.
THEOREM RecoveryStaysUsable == Spec => []RecoveryUsable
<1>1. TaskInv => RecoveryUsable
  BY DEF TaskInv
<1> QED BY <1>1, TaskInvariant, PTL

----------------------------------------------------------------------------
(* What a step may do to the recovery decision, the completion and the     *)
(* handlers.                                                               *)

\* A step of the loop that is about neither.
Ordinary ==
  /\ SameCore /\ UNCHANGED <<row, fate>>
  /\ ledger'.phase = "worker_running" =>
       ledger.phase = "worker_running" \/ ledger.recovery.pending = "none"

LEMMA LoopIsOrdinary ==
  ASSUME TaskInv, StartContract \/ EstablishContract \/ Attach \/ RecoveryReady \/ StartTurn \/ EndTurn
  PROVE  Ordinary
<1>0. ledger \in Ledgers
  BY TypedFacts DEF TaskInv
<1>1. CASE StartContract
  BY <1>0, <1>1, RecordOutcome DEF StartContract, Note, Ordinary, SameCore, Ledgers
<1>2. CASE EstablishContract
  BY <1>0, <1>2, RecordOutcome DEF EstablishContract, Note, Ordinary, SameCore, Ledgers
<1>3. CASE Attach
  BY <1>0, <1>3, RecordOutcome DEF Attach, Note, Ordinary, SameCore, Ledgers
<1>4. CASE RecoveryReady
  BY <1>0, <1>4, RecordOutcome DEF RecoveryReady, Note, Ordinary, SameCore, Ledgers
<1>5. CASE StartTurn
  BY <1>0, <1>5, RecordOutcome DEF StartTurn, Calm, Note, Ordinary, SameCore, Ledgers
<1>6. CASE EndTurn
  <2>1. PICK said \in {"DONE", "CONTINUE", "NEED_INPUT", "nothing"} :
          \E ok, raised :
            Record([ledger EXCEPT !.uncertain = FALSE,
                      !.phase = IF said = "DONE" THEN "review_pending" ELSE "ready"], ok, raised)
    BY <1>6 DEF EndTurn
  <2> DEFINE phase == IF said = "DONE" THEN "review_pending" ELSE "ready"
             next == [ledger EXCEPT !.uncertain = FALSE, !.phase = phase]
  <2>2. ledger' \in {ledger, next} /\ phase # "worker_running"
    <3>1. PICK ok, raised : Record(next, ok, raised)
      BY <2>1
    <3> HIDE DEF next
    <3> QED BY <3>1, RecordOutcome
  <2> HIDE DEF phase
  <2> QED BY <1>0, <1>6, <2>2 DEF EndTurn, Ordinary, SameCore, Ledgers
<1> QED BY <1>1, <1>2, <1>3, <1>4, <1>5, <1>6

LEMMA ReviewIsOrdinary ==
  ASSUME TaskInv, OutOfBudget \/ TurnFails \/ StartReview \/ Unverified \/ Rejected \/ Passed \/ BudgetLimit
  PROVE  Ordinary
<1>0. ledger \in Ledgers
  BY TypedFacts DEF TaskInv
<1>1. CASE OutOfBudget \/ TurnFails \/ StartReview \/ Unverified
  BY <1>1 DEF OutOfBudget, TurnFails, StartReview, Unverified, Ordinary, SameCore
<1>2. CASE Rejected
  BY <1>0, <1>2, RecordOutcome DEF Rejected, Note, Ordinary, SameCore, Ledgers
<1>3. CASE Passed
  BY <1>0, <1>3, RecordOutcome DEF Passed, Commit, Ordinary, SameCore, Ledgers
<1>4. CASE BudgetLimit
  <2>1. PICK seen \in BOOLEAN :
          Record([ledger EXCEPT !.uncertain = Running /\ seen,
                    !.phase = IF ~Running \/ (Running /\ seen) THEN @
                              ELSE IF @ = "contract_running" THEN "contract_needed" ELSE "ready"],
                 [Finish("halted") EXCEPT !.accepting = FALSE], Driver("idle"))
    BY <1>4 DEF BudgetLimit
  <2> DEFINE unsure == Running /\ seen
             phase == IF ~Running \/ unsure THEN ledger.phase
                      ELSE IF ledger.phase = "contract_running" THEN "contract_needed" ELSE "ready"
             next == [ledger EXCEPT !.uncertain = unsure, !.phase = phase]
  <2>2. ledger' \in {ledger, next} /\ phase \in {ledger.phase, "contract_needed", "ready"}
    <3>1. ledger' \in {ledger, next}
      <4> HIDE DEF phase, unsure
      <4> QED BY <2>1, RecordOutcome DEF phase, unsure
    <3> QED BY <3>1
  <2> HIDE DEF phase, unsure
  <2> QED BY <1>0, <1>4, <2>2 DEF BudgetLimit, Ordinary, SameCore, Ledgers
<1> QED BY <1>1, <1>2, <1>3, <1>4

LEMMA EndingIsOrdinary ==
  ASSUME TaskInv, WriteOutcome \/ HandleError \/ Interrupted \/ ReportStorageFailure \/ OwnerTalks
                  \/ Resume \/ Admit \/ ClearUncertainty
  PROVE  Ordinary
<1>0. ledger \in Ledgers
  BY TypedFacts DEF TaskInv
<1>1. CASE WriteOutcome
  <2>1. /\ UNCHANGED <<row, fate>>
        /\ ledger' \in {ledger, [ledger EXCEPT !.status = drv.result]}
    BY <1>1, RecordOutcome DEF WriteOutcome, Refused
  <2> QED BY <1>0, <2>1 DEF Ordinary, SameCore, Ledgers
<1>2. CASE HandleError \/ Interrupted
  <2> DEFINE next == [ledger EXCEPT !.uncertain = Running]
  <2>1. ledger' \in {ledger, next} /\ UNCHANGED <<row, fate>>
    BY <1>2, RecordOutcome DEF HandleError, Interrupted
  <2> HIDE DEF Running
  <2> QED BY <1>0, <2>1 DEF Ordinary, SameCore, Ledgers
<1>3. CASE ReportStorageFailure \/ OwnerTalks \/ Resume
  BY <1>3 DEF ReportStorageFailure, OwnerTalks, Resume, Ordinary, SameCore
<1>4. CASE Admit
  <2>1. /\ UNCHANGED <<row, fate>>
        /\ ledger' \in {ledger, [ledger EXCEPT !.status = "running"]}
    BY <1>4, AdmitOutcome, RecordOutcome
  <2> QED BY <1>0, <2>1 DEF Ordinary, SameCore, Ledgers
<1>5. CASE ClearUncertainty
  <2> DEFINE phase == CASE ledger.phase = "review_pending" -> ledger.phase
                        [] ledger.phase \in {"contract_needed", "contract_running"} -> "contract_needed"
                        [] OTHER -> "ready"
             next == [ledger EXCEPT !.uncertain = FALSE, !.phase = phase]
  <2>1. ledger' \in {ledger, next} /\ UNCHANGED <<row, fate>>
    <3>1. \/ Record(next, Goto("cleared"), Failing)
          \/ UNCHANGED ledger
      BY <1>5 DEF ClearUncertainty, Note
    <3> HIDE DEF next
    <3> QED BY <1>5, <3>1, RecordOutcome DEF ClearUncertainty
  <2>2. phase # "worker_running"
    BY <1>0 DEF Ledgers, Phases
  <2> HIDE DEF phase
  <2> QED BY <1>0, <2>1, <2>2 DEF Ordinary, SameCore, Ledgers
<1> QED BY <1>1, <1>2, <1>3, <1>4, <1>5

\* A step that is about the recovery decision.
Deciding ==
  /\ UNCHANGED <<row, fate>> /\ ledger'.phase = ledger.phase
  /\ ledger'.completed = ledger.completed /\ ledger'.boundary = ledger.boundary
  /\ ledger.recovery.pending = "stopped" /\ ledger'.recovery # ledger.recovery => drv.pc = "cleared"

LEMMA DecisionsDecide ==
  ASSUME TaskInv, ObserveRepetition \/ ObservationLost \/ DecisionFirst \/ Cancel \/ ResumeStopped
  PROVE  Deciding
<1>0. /\ ledger \in Ledgers /\ ledger.recovery \in Snapshots /\ Loads(ledger.recovery)
  BY TypedFacts DEF TaskInv, Ledgers, RecoveryUsable
<1>1. CASE ObserveRepetition
  <2>1. PICK r \in AfterObserving(ledger.recovery) :
          Record([ledger EXCEPT !.recovery = r, !.receipt = NoReceipt], drv, Shut(drv))
    BY <1>1 DEF ObserveRepetition
  <2>2. ledger' \in {ledger, [ledger EXCEPT !.recovery = r, !.receipt = NoReceipt]}
    BY <2>1, RecordOutcome
  <2>3. ledger.recovery.pending = "none" /\ UNCHANGED <<row, fate>>
    BY <1>1 DEF ObserveRepetition, BaseAdmitted
  <2> QED BY <1>0, <2>2, <2>3 DEF Deciding, Ledgers
<1>2. CASE ObservationLost
  <2> DEFINE r == AfterBlock(ledger.recovery)
  <2>1. ledger' \in {ledger, [ledger EXCEPT !.recovery = r, !.receipt = NoReceipt]}
    BY <1>2, RecordOutcome DEF ObservationLost
  <2>2. ledger.recovery.pending = "stopped" => r = ledger.recovery
    BY <1>0, BlockLoads
  <2> HIDE DEF r
  <2> QED BY <1>0, <1>2, <2>1, <2>2 DEF Deciding, Ledgers, ObservationLost
<1>3. CASE DecisionFirst
  <2> DEFINE r == AfterIntervention(ledger.recovery)
  <2>1. \/ ledger' = ledger
        \/ /\ ledger.recovery.pending = "recover"
           /\ ledger' \in {ledger, [ledger EXCEPT !.recovery = r]}
    BY <1>3, RecordOutcome DEF DecisionFirst, Commit
  <2> HIDE DEF r
  <2> QED BY <1>0, <1>3, <2>1 DEF Deciding, Ledgers, DecisionFirst
<1>4. CASE Cancel
  <2> DEFINE r == AfterStop(ledger.recovery)
             next == [ledger EXCEPT !.before = ledger.recovery, !.recovery = r]
  <2>1. \/ ledger' = ledger
        \/ ledger.recovery.pending # "stopped" /\ ledger' \in {ledger, next}
    <3>1. UNCHANGED <<row, fate>>
      BY <1>4 DEF Cancel
    <3>2. \/ ledger' = ledger
          \/ /\ ledger.recovery.pending # "stopped"
             /\ \E ok, raised : Record(next, ok, raised)
      BY <1>4 DEF Cancel, Stoppable
    <3> QED BY <3>2, RecordOutcome
  <2> HIDE DEF r
  <2> QED BY <1>0, <1>4, <2>1 DEF Deciding, Ledgers, Cancel
<1>5. CASE ResumeStopped
  <2>1. \/ ledger' = ledger
        \/ ledger' \in {ledger, [ledger EXCEPT !.recovery = ledger.before]}
    BY <1>5, RecordOutcome DEF ResumeStopped, Commit
  <2> QED BY <1>0, <1>5, <2>1 DEF Deciding, Ledgers, ResumeStopped
<1> QED BY <1>1, <1>2, <1>3, <1>4, <1>5

\* A step that is about the completion.
LEMMA CompletionSteps ==
  ASSUME TaskInv, Complete \/ Project \/ PrepareBoundary \/ CompareArchive \/ Archive \/ Reset
  PROVE  /\ fate' = fate /\ ledger'.phase = ledger.phase /\ ledger'.recovery = ledger.recovery
         /\ \/ Stage' = Stage
            \/ Stage = "open" /\ Owed = {} /\ Stage' = "checked"
            \/ Stage = "checked" /\ Stage' = "projected"
            \/ Stage = "projected" /\ Stage' = "reset"
<1>0. ledger \in Ledgers /\ InOrder /\ OnRecord
  BY TypedFacts DEF TaskInv
<1>1. CASE Complete
  <2> DEFINE id == IF ledger.completed # 0 THEN ledger.completed ELSE ledger.receipt.id
  <2>1. /\ fate' = fate /\ row' = row
        /\ \/ ledger' = ledger
           \/ /\ CheckedReceipt(id) /\ ledger.completed = 0
              /\ ledger' \in {ledger, [ledger EXCEPT !.completed = id]}
    BY <1>1, RecordOutcome DEF Complete, Commit
  <2>2. CheckedReceipt(id) => id # 0 /\ Unresolved = {}
    BY DEF CheckedReceipt
  <2> HIDE DEF id
  <2>3. CASE ledger' = ledger
    BY <2>1, <2>3 DEF Stage
  <2>4. CASE /\ CheckedReceipt(id) /\ ledger.completed = 0
             /\ ledger' = [ledger EXCEPT !.completed = id]
    <3>1. /\ ledger'.completed = id /\ ledger'.boundary = ledger.boundary
          /\ ledger'.phase = ledger.phase /\ ledger'.recovery = ledger.recovery
      BY <1>0, <2>4 DEF Ledgers
    <3>2. ledger.boundary = "none" /\ row = 0
      BY <1>0, <2>4 DEF InOrder, Ledgers
    <3>3. Owed = {}
      BY <1>0, <2>2, <2>4 DEF OnRecord
    <3> QED BY <2>1, <2>2, <2>4, <3>1, <3>2, <3>3 DEF Stage
  <2> QED BY <2>1, <2>3, <2>4
<1>2. CASE Project
  <2>1. /\ fate' = fate /\ ledger' = ledger
        /\ row' = row \/ (row = 0 /\ row' = ledger.completed)
    BY <1>2 DEF Project
  <2> QED BY <1>0, <2>1 DEF Stage, InOrder
<1>3. CASE PrepareBoundary
  <2>1. /\ fate' = fate /\ row' = row
        /\ \/ ledger' = ledger
           \/ /\ ledger.boundary # "acknowledged"
              /\ ledger' = [ledger EXCEPT !.boundary = "prepared"]
    BY <1>3, RecordOutcome DEF PrepareBoundary, Commit
  <2> QED BY <1>0, <2>1 DEF Stage, Ledgers
<1>4. CASE CompareArchive \/ Archive
  <2>1. /\ fate' = fate /\ row' = row
        /\ ledger' \in {ledger, [ledger EXCEPT !.archive = {talk}]}
    BY <1>4, RecordOutcome DEF CompareArchive, Archive, Note
  <2> QED BY <1>0, <2>1 DEF Stage, Ledgers
<1>5. CASE Reset
  <2> DEFINE next == [ledger EXCEPT !.boundary = "acknowledged", !.generation = @ + 1]
  <2>1. fate' = fate /\ row' = row /\ ledger' \in {ledger, next}
    <3>1. Record(next, Finish("done"), Shut(Failing)) \/ ledger' = ledger
      BY <1>5 DEF Reset, Commit
    <3> QED BY <1>5, <3>1, RecordOutcome DEF Reset
  <2>2. row # 0 /\ ledger.boundary = "prepared"
    BY <1>0, <1>5 DEF InOrder, Reset
  <2> QED BY <1>0, <2>1, <2>2 DEF Stage, Ledgers
<1> QED BY <1>1, <1>2, <1>3, <1>4, <1>5

\* The entry of a handler.
LEMMA EntryStep ==
  ASSUME TaskInv, NEW a \in Actions, BeginAction(a)
  PROVE  /\ drv.pc = "turn" /\ BaseAdmitted /\ row' = row
         /\ fate' = fate \/ fate' = [fate EXCEPT ![a] = "running"]
         /\ ledger'.phase = ledger.phase /\ ledger'.recovery = ledger.recovery
         /\ ledger'.completed = ledger.completed /\ ledger'.boundary = ledger.boundary
<1> DEFINE next == Changed([ledger EXCEPT !.unresolved[a] = "intent"])
<1>1. ledger' \in {ledger, next}
  BY RecordOutcome DEF BeginAction
<1>2. /\ next.phase = ledger.phase /\ next.recovery = ledger.recovery
      /\ next.completed = ledger.completed /\ next.boundary = ledger.boundary
  BY TypedFacts, ChangedFields DEF TaskInv
<1> HIDE DEF next
<1> QED BY <1>1, <1>2 DEF BeginAction

\* The end of one, or the owner's word about it.
Settling ==
  /\ row' = row
  /\ \E a \in Actions, word \in {"known", "unknown", "reported"} :
       /\ fate' = fate \/ fate' = [fate EXCEPT ![a] = word]
       /\ word = "unknown" => fate[a] = "running"
  /\ ledger'.phase = ledger.phase
  /\ ledger'.completed = ledger.completed /\ ledger'.boundary = ledger.boundary
  /\ ledger.recovery.pending = "stopped" => ledger'.recovery = ledger.recovery

LEMMA SettlingStep ==
  ASSUME TaskInv, HandlerReturns \/ \E a \in Actions : ReconcileAction(a)
  PROVE  Settling
<1>0. ledger \in Ledgers
  BY TypedFacts DEF TaskInv
<1>1. ASSUME NEW a \in Actions, ReconcileAction(a)
      PROVE  Settling
  <2> DEFINE next == Changed([ledger EXCEPT !.unresolved[a] = "none"])
  <2>1. ledger' \in {ledger, next}
    BY <1>1, RecordOutcome DEF ReconcileAction, Commit
  <2>2. /\ next.phase = ledger.phase /\ next.recovery = ledger.recovery
        /\ next.completed = ledger.completed /\ next.boundary = ledger.boundary
    BY <1>0, ChangedFields
  <2> HIDE DEF next
  <2>3. row' = row /\ (fate' = fate \/ fate' = [fate EXCEPT ![a] = "reported"])
    BY <1>1 DEF ReconcileAction
  <2> QED BY <2>1, <2>2, <2>3 DEF Settling
<1>2. ASSUME NEW a \in Inside, ReturnUnrecorded(a)
      PROVE  Settling
  BY <1>2 DEF ReturnUnrecorded, Settling, Inside
<1>3. ASSUME NEW a \in Inside, NEW d \in Dispositions, FinishAction(a, d)
      PROVE  Settling
  <2> DEFINE observed == ledger.recovery.pending = "none"
             stops == drv.stopped \/ d = "interrupted"
             choices == IF ~observed THEN {ledger.recovery}
                        ELSE IF stops THEN {AfterStop(ledger.recovery)}
                        ELSE AfterObserving(ledger.recovery)
             kept == IF observed /\ stops THEN ledger.recovery ELSE ledger.before
             word == IF d = "settled" THEN "known" ELSE "unknown"
  <2>1. /\ UNCHANGED row /\ fate' = [fate EXCEPT ![a] = word]
        /\ \E r \in choices :
             Record(Changed([ledger EXCEPT !.unresolved[a] = Entry(d), !.recent = TRUE,
                                           !.recovery = r, !.before = kept]), drv, Shut(drv))
    BY <1>3 DEF FinishAction
  <2>2. ledger.recovery.pending = "stopped" => choices = {ledger.recovery}
    OBVIOUS
  <2> HIDE DEF choices, kept
  <2>3. PICK r \in choices :
          ledger' \in {ledger, Changed([ledger EXCEPT !.unresolved[a] = Entry(d), !.recent = TRUE,
                                                      !.recovery = r, !.before = kept])}
    BY <2>1, RecordOutcome
  <2>4. /\ ledger'.phase = ledger.phase
        /\ ledger'.completed = ledger.completed /\ ledger'.boundary = ledger.boundary
        /\ ledger'.recovery \in {ledger.recovery, r}
    BY ZenonT(40), <1>0, <2>3 DEF Changed, Ledgers
  <2>5. word \in {"known", "unknown"} /\ a \in Actions /\ fate[a] = "running"
    BY DEF Inside
  <2> HIDE DEF word
  <2> QED BY <2>1, <2>2, <2>4, <2>5 DEF Settling
<1> QED BY <1>1, <1>2, <1>3 DEF HandlerReturns

----------------------------------------------------------------------------
(* Action properties.                                                      *)

LEMMA KindsOfStep ==
  ASSUME TaskInv, Next
  PROVE  \/ Ordinary
         \/ Deciding /\ (drv.pc = "cleared" => Resuming)
         \/ Complete \/ Project \/ PrepareBoundary \/ CompareArchive \/ Archive \/ Reset
         \/ \E a \in Actions : BeginAction(a)
         \/ Settling
         \/ Crash
<1>1. CASE \E a \in Actions : BeginAction(a) \/ ReconcileAction(a)
  BY <1>1, SettlingStep
<1>2. CASE HandlerReturns
  BY <1>2, SettlingStep
<1>3. CASE ObserveRepetition \/ ObservationLost \/ DecisionFirst \/ Cancel \/ ResumeStopped
  BY <1>3, DecisionsDecide DEF TaskInv
<1>4. CASE StartContract \/ EstablishContract \/ Attach \/ RecoveryReady \/ StartTurn \/ EndTurn
  BY <1>4, LoopIsOrdinary
<1>5. CASE OutOfBudget \/ TurnFails \/ StartReview \/ Unverified \/ Rejected \/ Passed \/ BudgetLimit
  BY <1>5, ReviewIsOrdinary
<1>6. CASE WriteOutcome \/ HandleError \/ Interrupted \/ ReportStorageFailure \/ OwnerTalks
            \/ Resume \/ Admit \/ ClearUncertainty
  BY <1>6, EndingIsOrdinary
<1> QED BY <1>1, <1>2, <1>3, <1>4, <1>5, <1>6 DEF Next

\* A handler is let in only while every effect that is not known belongs to
\* this invocation and stands on the ledger as an intent.
THEOREM UnknownComesFirst == Spec => UnknownEffectsFirst
<1> DEFINE Entered == \A a \in Actions : fate[a] = "new" /\ fate'[a] = "running" =>
                        \A b \in Actions : fate[b] = "unknown" =>
                          b \in drv.mine /\ ledger.unresolved[b] = "intent"
<1>1. TaskInv /\ [Next]_vars => Entered
  <2> SUFFICES ASSUME TaskInv, Next, NEW a \in Actions, fate[a] = "new", fate'[a] = "running",
                      NEW b \in Actions, fate[b] = "unknown"
               PROVE  b \in drv.mine /\ ledger.unresolved[b] = "intent"
    BY DEF vars
  <2>1. fate \in [Actions -> {"new", "running", "known", "unknown", "reported"}]
    BY TypedFacts DEF TaskInv
  <2>2. PICK c \in Actions : BeginAction(c)
    BY <2>1, KindsOfStep, CompletionSteps DEF Ordinary, Deciding, Settling, Crash
  <2>3. drv.pc = "turn" /\ ledger.unresolved[b] \in {"none", "intent"}
    BY <2>2, EntryStep DEF BaseAdmitted
  <2>4. b \in Owed
    BY DEF Owed
  <2> QED BY <2>3, <2>4 DEF TaskInv, OnRecord, AtWork, Unresolved
<1> QED BY <1>1, TaskInvariant, PTL DEF Spec, UnknownEffectsFirst

\* Once a Stop is on the ledger nothing is let in and no turn begins until
\* the owner resumes with a note and every action and turn is accounted for.
THEOREM StopIsKept == Spec => StopHolds
<1> DEFINE Held == ledger.recovery.pending = "stopped" =>
              /\ \A a \in Actions : fate'[a] = "running" => fate[a] = "running"
              /\ ledger'.phase = "worker_running" => ledger.phase = "worker_running"
              /\ ledger'.recovery.pending # "stopped" => drv.note /\ Unresolved = {} /\ ~InDoubt
<1>1. TaskInv /\ [Next]_vars => Held
  <2> SUFFICES ASSUME TaskInv, [Next]_vars, ledger.recovery.pending = "stopped"
               PROVE  /\ \A a \in Actions : fate'[a] = "running" => fate[a] = "running"
                      /\ ledger'.phase = "worker_running" => ledger.phase = "worker_running"
                      /\ ledger'.recovery.pending # "stopped" => drv.note /\ Unresolved = {} /\ ~InDoubt
    OBVIOUS
  <2>0. fate \in [Actions -> {"new", "running", "known", "unknown", "reported"}]
    BY TypedFacts DEF TaskInv
  <2>1. CASE Ordinary
    BY <2>1 DEF Ordinary, SameCore
  <2>2. CASE Deciding /\ (drv.pc = "cleared" => Resuming)
    <3>1. drv.pc = "cleared" => drv.note /\ Unresolved = {} /\ ~InDoubt
      BY <2>2 DEF Resuming, TaskInv, Accounted, AtWork, InDoubt
    <3> QED BY <2>2, <3>1 DEF Deciding
  <2>3. CASE Complete \/ Project \/ PrepareBoundary \/ CompareArchive \/ Archive \/ Reset
    BY <2>3, CompletionSteps
  <2>4. CASE \E a \in Actions : BeginAction(a)
    BY <2>4, EntryStep DEF BaseAdmitted
  <2>5. CASE Settling
    BY <2>0, <2>5 DEF Settling
  <2>6. CASE Crash
    BY <2>0, <2>6 DEF Crash
  <2>7. CASE UNCHANGED vars
    BY <2>7 DEF vars
  <2> QED BY <2>1, <2>2, <2>3, <2>4, <2>5, <2>6, <2>7, KindsOfStep
<1> QED BY <1>1, TaskInvariant, PTL DEF Spec, StopHolds

\* What the reset drops, the archive on the ledger holds.
THEOREM OriginalsAreArchived == Spec => OriginalsArchived
<1>1. TaskInv /\ [Next]_vars => (drv.pc = "reset" /\ talk' # talk => talk \in ledger.archive)
  <2> SUFFICES ASSUME TaskInv, Next, drv.pc = "reset", talk' # talk
               PROVE  talk \in ledger.archive
    BY DEF vars
  <2>1. Inside = {}
    BY DEF TaskInv, OnRecord
  <2>2. talk' = "head"
    BY <2>1 DEF Next, HandlerReturns, BeginAction, ReconcileAction, ObserveRepetition, ObservationLost,
                StartContract, EstablishContract, Attach, DecisionFirst, RecoveryReady, Calm,
                StartTurn, OutOfBudget, EndTurn, TurnFails, BudgetLimit, StartReview, Rejected,
                Unverified, Passed, Complete, Project, PrepareBoundary, CompareArchive, Archive,
                Reset, WriteOutcome, HandleError, ReportStorageFailure, Cancel, Interrupted,
                Crash, OwnerTalks, Resume, Admit, ClearUncertainty, ResumeStopped
  <2>3. talk \in ledger.archive \cup {"head"}
    BY DEF TaskInv, InOrder
  <2> QED BY <2>2, <2>3
<1> QED BY <1>1, TaskInvariant, PTL DEF Spec, OriginalsArchived

\* A step of the run is a step of CheckedTask, or none of its business.
LEMMA StepChecks ==
  ASSUME TaskInv, Next
  PROVE  Task!Next \/ UNCHANGED <<Stage, Owed>>
<1>0. fate \in [Actions -> {"new", "running", "known", "unknown", "reported"}] /\ ledger \in Ledgers
  BY TypedFacts DEF TaskInv
<1>1. CASE Ordinary
  BY <1>1 DEF Ordinary, SameCore, Stage, Owed
<1>2. CASE Deciding
  BY <1>2 DEF Deciding, Stage, Owed
<1>3. CASE Complete \/ Project \/ PrepareBoundary \/ CompareArchive \/ Archive \/ Reset
  <2>1. Owed' = Owed
    BY <1>3, CompletionSteps DEF Owed
  <2>2. \/ Stage' = Stage
        \/ Stage = "open" /\ Owed = {} /\ Stage' = "checked"
        \/ Stage = "checked" /\ Stage' = "projected"
        \/ Stage = "projected" /\ Stage' = "reset"
    BY <1>3, CompletionSteps
  <2> QED BY <2>1, <2>2 DEF Task!Next, Task!Check, Task!Project, Task!Reset
<1>4. ASSUME NEW a \in Actions, BeginAction(a)
      PROVE  Task!Next \/ UNCHANGED <<Stage, Owed>>
  <2>1. Stage' = Stage /\ Stage = "open"
    <3>1. ledger.completed = 0
      BY <1>4, EntryStep DEF BaseAdmitted
    <3>2. row = 0 /\ ledger.boundary = "none"
      BY <1>0, <3>1 DEF TaskInv, InOrder, Ledgers
    <3> QED BY <1>4, <3>1, <3>2, EntryStep DEF Stage
  <2>2. Owed' = Owed \/ Owed' = Owed \cup {a}
    BY <1>0, <1>4, EntryStep DEF Owed
  <2> QED BY <2>1, <2>2 DEF Task!Next, Task!Enter
<1>5. CASE Settling
  <2>1. Stage' = Stage
    BY <1>5 DEF Settling, Stage
  <2>2. Owed' \subseteq Owed
    BY <1>0, <1>5 DEF Settling, Owed
  <2> QED BY <2>1, <2>2 DEF Task!Next, Task!Settle
<1>6. CASE Crash
  BY <1>0, <1>6 DEF Crash, Stage, Owed
<1> QED BY <1>1, <1>2, <1>3, <1>4, <1>5, <1>6, KindsOfStep

\* The run implements CheckedTask: the ledger's receipt, the task row and the
\* acknowledged reset come in this order and once, the first only when the
\* effect of every handler call is known, and no handler is entered after it.
THEOREM TaskIsChecked == Spec => ChecksTheTask
<1>1. Init => Task!Init
  BY DEF Init, Task!Init, Stage, Owed
<1>2. TaskInv /\ [Next]_vars => [Task!Next]_<<Stage, Owed>>
  <2>1. ASSUME UNCHANGED vars PROVE UNCHANGED <<Stage, Owed>>
    BY <2>1 DEF vars, Stage, Owed
  <2> QED BY <2>1, StepChecks
<1> QED BY <1>1, <1>2, TaskInvariant, PTL DEF Spec, ChecksTheTask, Task!Spec
=============================================================================
