----------------------------- MODULE Sleepwalk -----------------------------
(***************************************************************************)
(* Scheduled automations (dream/sleepwalk): the scheduler each Dream       *)
(* process runs (scheduler.py), the store the processes share (store.py)   *)
(* and the life of a run (runner.py).                                      *)
(*                                                                         *)
(* A tick works in a thread: it takes the scheduler lock if nobody has it, *)
(* records the runs an earlier process left marked as pending, then claims *)
(* what is due, one automation after the other.  What it claimed is run by *)
(* tasks of the event loop, each under the automation's own lock.  A       *)
(* change of the store is one locked read and one atomic replacement, and  *)
(* so one step; recording a run is two replacements, the record and then   *)
(* the mark, with room for a failure or the end of the process between.    *)
(*                                                                         *)
(* Stopping the scheduler cancels its tasks but not the thread, which      *)
(* goes on with the tick although its claims will be run by nobody; it may *)
(* even be about to take the lock.                                         *)
(*                                                                         *)
(* Time is a few instants, some of them slots, that the clock may show in  *)
(* any order, less than a week apart.  A slot is on time only at its own   *)
(* instant.  A mark is the slot it names.                                  *)
(***************************************************************************)
EXTENDS Naturals, FiniteSets

CONSTANTS
  Procs,         \* Dream processes and background timers, by turns
  NoProc,
  Studio,        \* whoever runs an automation by "Run now"
  Automations,
  SlotTimes,     \* the instants every trigger names
  MaxTime,
  MaxSaves,      \* bound on the owner's edits
  MaxFaults,     \* bound on failing and half-done recordings
  MaxMishaps     \* bound on both together

ASSUME HolderAssumption == NoProc \notin Procs /\ Studio \notin Procs /\ Studio # NoProc
ASSUME SlotAssumption == SlotTimes \subseteq 1 .. MaxTime
ASSUME BoundAssumption == MaxTime \in Nat /\ MaxSaves \in Nat /\ MaxFaults \in Nat /\ MaxMishaps \in Nat

VARIABLES
  now,        \* what the clock shows
  store,      \* automations.json
  firing,     \* the process that holds the scheduler lock
  running,    \* running[a]: process and slot of the run that holds a's lock
  phase,      \* phase[p]: the life of a process and its scheduler
  tick,       \* tick[p]: what the thread of its tick is at
  tasks,      \* tasks[p]: claimed runs whose task has not begun
  records,    \* how often each slot of an automation was recorded, and as what
  claims,     \* how often it was claimed to be run
  passed,     \* how often it was claimed to be skipped
  hurt,       \* slots whose recording something cut in two
  rewound,    \* automations saved while the clock was behind their last slot
  saves, faults

history == <<claims, passed, rewound>>
vars == <<now, store, firing, running, phase, tick, tasks, records, claims,
          passed, hurt, rewound, saves, faults>>

Slots == Automations \X SlotTimes

\* "Run now" has no slot.
NoRun == <<NoProc, 0>>
Manual == <<Studio, 0>>

NoTick == [at |-> "none", marks |-> [c \in Slots |-> 0], found |-> {}, skip |-> {}, start |-> {}]

Kinds == {"ended", "skipped", "interrupted"}

Init ==
  /\ now = 0
  /\ store \in [Automations ->
       [kept : {TRUE}, enabled : {TRUE}, missed : {"run_once", "skip"},
        last : {0}, marks : {[s \in SlotTimes |-> 0]}]]
  /\ firing = NoProc
  /\ running = [a \in Automations |-> NoRun]
  /\ phase = [p \in Procs |-> "closed"]
  /\ tick = [p \in Procs |-> NoTick]
  /\ tasks = [p \in Procs |-> {}]
  /\ records = [c \in Slots |-> [k \in Kinds |-> 0]]
  /\ claims = [c \in Slots |-> 0] /\ passed = [c \in Slots |-> 0]
  /\ hurt = {} /\ rewound = {}
  /\ saves = 0 /\ faults = 0

-----------------------------------------------------------------------------
(* The clock, and the owner's changes. *)

Clock ==
  /\ now' \in 0 .. MaxTime \ {now}
  /\ UNCHANGED <<store, firing, running, phase, tick, tasks, records, history, hurt, saves, faults>>

MayEdit(a) == saves < MaxSaves /\ saves + faults < MaxMishaps /\ store[a].kept

\* Mutant: a save writes what the page sent, and no marks.
SaveForgetful(a) ==
  /\ MayEdit(a)
  /\ saves' = saves + 1
  /\ \E on \in BOOLEAN, missed \in {"run_once", "skip"} :
       store' = [store EXCEPT ![a] = [@ EXCEPT !.enabled = on, !.missed = missed, !.last = now,
                                               !.marks = [s \in SlotTimes |-> 0]]]
  /\ rewound' = IF now < store[a].last THEN rewound \cup {a} ELSE rewound
  /\ UNCHANGED <<now, firing, running, phase, tick, tasks, records, claims, passed, hurt, faults>>

\* A save keeps the marks and starts the schedule from now.
Save(a) ==
  /\ MayEdit(a)
  /\ saves' = saves + 1
  /\ \E on \in BOOLEAN, missed \in {"run_once", "skip"} :
       store' = [store EXCEPT ![a] = [@ EXCEPT !.enabled = on, !.missed = missed, !.last = now]]
  /\ rewound' = IF now < store[a].last THEN rewound \cup {a} ELSE rewound
  /\ UNCHANGED <<now, firing, running, phase, tick, tasks, records, claims, passed, hurt, faults>>

Delete(a) ==
  /\ MayEdit(a)
  /\ saves' = saves + 1
  /\ store' = [store EXCEPT ![a].kept = FALSE, ![a].enabled = FALSE,
                            ![a].marks = [s \in SlotTimes |-> 0]]
  /\ UNCHANGED <<now, firing, running, phase, tick, tasks, records, history, hurt, faults>>

-----------------------------------------------------------------------------
(* Recording a run: add_run. *)

Fail == faults < MaxFaults /\ saves + faults < MaxMishaps /\ faults' = faults + 1

Record(c, kind, n) == records' = [records EXCEPT ![c][kind] = @ + n]

\* Marks of this slot go, as far as there are any.
Unmark(c, n) ==
  store' = [store EXCEPT ![c[1]].marks[c[2]] = IF @ > n THEN @ - n ELSE 0]

Recorded(c, kind) == Record(c, kind, 1) /\ Unmark(c, 1) /\ UNCHANGED <<hurt, faults>>

\* A write raises: before the record, between the two, or after the mark.
RecordingFails(c, kind) ==
  /\ Fail
  /\ \/ UNCHANGED <<records, store, hurt>>
     \/ Record(c, kind, 1) /\ UNCHANGED store /\ hurt' = hurt \cup {c}
     \/ Record(c, kind, 1) /\ Unmark(c, 1) /\ hurt' = hurt \cup {c}

-----------------------------------------------------------------------------
(* A tick: Scheduler.due, in a thread. *)

\* The newest slot, if it is later than the last one handled.
Due(a) ==
  {s \in SlotTimes :
     /\ store[a].enabled
     /\ s <= now /\ s > store[a].last
     /\ \A t \in SlotTimes : t <= now => t <= s}

At(p, label) == tick' = [tick EXCEPT ![p].at = label]
Abandon(p) == tick' = [tick EXCEPT ![p] = NoTick]

Lock(p) ==
  \/ firing = p /\ At(p, "read") /\ UNCHANGED firing
  \/ firing = NoProc /\ At(p, "marks") /\ firing' = p

Tick(p) ==
  /\ phase[p] = "open" /\ tick[p].at = "none"
  /\ Lock(p)
  /\ UNCHANGED <<now, store, running, phase, tasks, records, history, hurt, saves, faults>>

\* A thread the stop found on its way to the lock may still take it; its
\* process then keeps it to its end.
LateTick(p) ==
  /\ tick[p].at = "late"
  /\ Lock(p) \/ (firing \notin {p, NoProc} /\ Abandon(p) /\ UNCHANGED firing)
  /\ UNCHANGED <<now, store, running, phase, tasks, records, history, hurt, saves, faults>>

\* The slots a thread is still to record as interrupted.  One that goes on
\* without the lock does it beside the process that has it.
Left(t) == {c \in Slots : t.marks[c] > 0}

\* Mutant: what is switched off is not looked at.
LoadMarksEnabled(p) ==
  /\ tick[p].at = "marks"
  /\ tick' = [tick EXCEPT ![p].at = "recover",
                          ![p].marks = [c \in Slots |-> IF store[c[1]].enabled
                                                        THEN store[c[1]].marks[c[2]] ELSE 0]]
  /\ hurt' = IF firing = p THEN hurt ELSE hurt \cup Left(tick'[p])
  /\ UNCHANGED <<now, store, firing, running, phase, tasks, records, history, saves, faults>>

LoadMarks(p) ==
  /\ tick[p].at = "marks"
  /\ tick' = [tick EXCEPT ![p].at = "recover",
                          ![p].marks = [c \in Slots |-> store[c[1]].marks[c[2]]]]
  /\ hurt' = IF firing = p THEN hurt ELSE hurt \cup Left(tick'[p])
  /\ UNCHANGED <<now, store, firing, running, phase, tasks, records, history, saves, faults>>

\* A run the last firing process left is recorded as interrupted.  If that
\* fails the tick is over, and the next one, which has the lock, recovers
\* nothing any more.
Recover(p, c) ==
  /\ tick[p].at = "recover" /\ tick[p].marks[c] > 0
  /\ \/ /\ Recorded(c, "interrupted")
        /\ tick' = [tick EXCEPT ![p].marks[c] = @ - 1]
     \/ RecordingFails(c, "interrupted") /\ Abandon(p)
  /\ UNCHANGED <<now, firing, running, phase, tasks, history, saves>>

Recovered(p) ==
  /\ tick[p].at = "recover" /\ tick[p].marks = NoTick.marks
  /\ At(p, "read")
  /\ UNCHANGED <<now, store, firing, running, phase, tasks, records, history, hurt, saves, faults>>

\* What is due, and whether it was missed and is to be skipped.
Read(p) ==
  /\ tick[p].at = "read"
  /\ tick' = [tick EXCEPT ![p].at = "scan",
       ![p].found = {<<c[1], c[2], now > c[2] /\ store[c[1]].missed = "skip">> :
                       c \in {d \in Slots : d[2] \in Due(d[1])}}]
  /\ UNCHANGED <<now, store, firing, running, phase, tasks, records, history, hurt, saves, faults>>

\* The claim of a slot under the store lock, if it is still due.
Handled(a, s, skip) ==
  store' = [store EXCEPT ![a].last = s, ![a].marks[s] = @ + IF skip THEN 0 ELSE 1]

Count(c, skip) ==
  IF skip THEN passed' = [passed EXCEPT ![c] = @ + 1] /\ UNCHANGED claims
          ELSE claims' = [claims EXCEPT ![c] = @ + 1] /\ UNCHANGED passed

\* Mutant: what was due when it was read is taken for due now.
ClaimUnchecked(p, a, s, skip) ==
  /\ tick[p].at = "scan" /\ <<a, s, skip>> \in tick[p].found
  /\ Handled(a, s, skip) /\ Count(<<a, s>>, skip)
  /\ tick' = [tick EXCEPT ![p].at = IF skip THEN "note" ELSE "scan",
                          ![p].found = @ \ {<<a, s, skip>>},
                          ![p].skip = IF skip THEN {<<a, s>>} ELSE {},
                          ![p].start = IF skip THEN @ ELSE @ \cup {<<a, s>>}]
  /\ UNCHANGED <<now, firing, running, phase, tasks, records, rewound, hurt, saves, faults>>

Claim(p, a, s, skip) ==
  /\ tick[p].at = "scan" /\ <<a, s, skip>> \in tick[p].found
  /\ s \in Due(a)
  /\ Handled(a, s, skip) /\ Count(<<a, s>>, skip)
  /\ tick' = [tick EXCEPT ![p].at = IF skip THEN "note" ELSE "scan",
                          ![p].found = @ \ {<<a, s, skip>>},
                          ![p].skip = IF skip THEN {<<a, s>>} ELSE {},
                          ![p].start = IF skip THEN @ ELSE @ \cup {<<a, s>>}]
  /\ UNCHANGED <<now, firing, running, phase, tasks, records, rewound, hurt, saves, faults>>

\* Claimed elsewhere, switched off or saved since it was read.
NotClaimed(p, a, s, skip) ==
  /\ tick[p].at = "scan" /\ <<a, s, skip>> \in tick[p].found
  /\ s \notin Due(a)
  /\ tick' = [tick EXCEPT ![p].found = @ \ {<<a, s, skip>>}]
  /\ UNCHANGED <<now, store, firing, running, phase, tasks, records, history, hurt, saves, faults>>

\* The store cannot be written, or its folder not be synced.  The tick is
\* over, and what it claimed before is started by nobody.
ClaimFails(p, a, s, skip) ==
  /\ tick[p].at = "scan" /\ <<a, s, skip>> \in tick[p].found
  /\ Fail /\ Abandon(p)
  /\ \/ UNCHANGED <<store, claims, passed>>
     \/ s \in Due(a) /\ Handled(a, s, skip) /\ Count(<<a, s>>, skip)
  /\ UNCHANGED <<now, firing, running, phase, tasks, records, rewound, hurt, saves>>

NoteSkipped(p, c) ==
  /\ tick[p].at = "note" /\ c \in tick[p].skip
  /\ \/ /\ Recorded(c, "skipped")
        /\ tick' = [tick EXCEPT ![p].at = "scan", ![p].skip = {}]
     \/ RecordingFails(c, "skipped") /\ Abandon(p)
  /\ UNCHANGED <<now, firing, running, phase, tasks, history, saves>>

\* The claims become tasks, unless the scheduler was stopped meanwhile.
EndTick(p) ==
  /\ tick[p].at = "scan" /\ tick[p].found = {}
  /\ Abandon(p)
  /\ tasks' = [tasks EXCEPT ![p] = IF phase[p] = "open" THEN @ \cup tick[p].start ELSE @]
  /\ UNCHANGED <<now, store, firing, running, phase, records, history, hurt, saves, faults>>

-----------------------------------------------------------------------------
(* Runs. *)

\* A run takes the automation's lock.  While another run of it has the lock,
\* it is recorded as skipped.
BeginRun(p, c) ==
  /\ c \in tasks[p]
  /\ tasks' = [tasks EXCEPT ![p] = @ \ {c}]
  /\ IF running[c[1]] = NoRun
       THEN /\ running' = [running EXCEPT ![c[1]] = <<p, c[2]>>]
            /\ UNCHANGED <<records, store, hurt, faults>>
       ELSE /\ Recorded(c, "skipped") \/ RecordingFails(c, "skipped")
            /\ UNCHANGED running
  /\ UNCHANGED <<now, firing, phase, tick, history, saves>>

\* The run ends, whatever came of it, in one record.  When that fails the
\* failure is recorded, or tried to.
EndRun(p, c) ==
  /\ running[c[1]] = <<p, c[2]>>
  /\ running' = [running EXCEPT ![c[1]] = NoRun]
  /\ \/ Recorded(c, "ended")
     \/ /\ Fail
        /\ hurt' = hurt \cup {c}
        /\ \E n \in 1 .. 2 : \E m \in 1 .. n : Record(c, "ended", n) /\ Unmark(c, m)
     \/ RecordingFails(c, "ended")
  /\ UNCHANGED <<now, firing, phase, tick, tasks, history, saves>>

\* "Run now" in any Dream process, with a scheduler or without; while a run is
\* going, it is refused.  It may end, or its process may, at any time.
RunNow(a) ==
  /\ store[a].kept /\ running[a] = NoRun
  /\ running' = [running EXCEPT ![a] = Manual]
  /\ UNCHANGED <<now, store, firing, phase, tick, tasks, records, history, hurt, saves, faults>>

RunNowEnds(a) ==
  /\ running[a] = Manual
  /\ running' = [running EXCEPT ![a] = NoRun]
  /\ UNCHANGED <<now, store, firing, phase, tick, tasks, records, history, hurt, saves, faults>>

-----------------------------------------------------------------------------
(* Processes. *)

Open(p) ==
  /\ phase[p] = "closed"
  /\ phase' = [phase EXCEPT ![p] = "open"]
  /\ UNCHANGED <<now, store, firing, running, tick, tasks, records, history, hurt, saves, faults>>

Release(p) == firing' = IF firing = p THEN NoProc ELSE firing

\* Mutant: the lock is given up before the cancelled runs are over.
StopAtOnce(p) ==
  /\ phase[p] = "open"
  /\ phase' = [phase EXCEPT ![p] = "stopping"]
  /\ tasks' = [tasks EXCEPT ![p] = {}]
  /\ Release(p)
  /\ UNCHANGED <<now, store, running, tick, records, history, hurt, saves, faults>>

\* Scheduler.stop cancels its tasks and waits for them before it gives up the
\* lock.  The runs that have begun end as cancelled, or just in time.
Stop(p) ==
  /\ phase[p] = "open"
  /\ phase' = [phase EXCEPT ![p] = "stopping"]
  /\ tasks' = [tasks EXCEPT ![p] = {}]
  /\ UNCHANGED tick \/ (tick[p].at = "none" /\ At(p, "late"))
  /\ UNCHANGED <<now, store, firing, running, records, history, hurt, saves, faults>>

RunCancelled(p, c) ==
  /\ phase[p] = "stopping" /\ running[c[1]] = <<p, c[2]>>
  /\ running' = [running EXCEPT ![c[1]] = NoRun]
  /\ UNCHANGED <<now, store, firing, phase, tick, tasks, records, history, hurt, saves, faults>>

\* A tick that was recovering marks goes on without the lock, beside the next
\* process that recovers them.
Stopped(p) ==
  /\ phase[p] = "stopping"
  /\ \A c \in Slots : running[c[1]] # <<p, c[2]>>
  /\ phase' = [phase EXCEPT ![p] = "stopped"]
  /\ Release(p)
  /\ hurt' = hurt \cup Left(tick[p])
  /\ UNCHANGED <<now, store, running, tick, tasks, records, history, saves, faults>>

Gone(p) ==
  /\ phase' = [phase EXCEPT ![p] = "closed"]
  /\ Abandon(p)
  /\ Release(p)
  /\ tasks' = [tasks EXCEPT ![p] = {}]
  /\ running' = [a \in Automations |-> IF running[a][1] = p THEN NoRun ELSE running[a]]

\* The process ends, after its threads.
Exit(p) ==
  /\ phase[p] = "stopped" /\ tick[p].at = "none"
  /\ Gone(p)
  /\ UNCHANGED <<now, store, records, history, hurt, saves, faults>>

\* What p may be recording, and as what.
Recording(p) ==
  {<<c, "interrupted">> : c \in Left(tick[p])}
    \cup {<<c, "skipped">> : c \in tick[p].skip \cup {d \in tasks[p] : running[d[1]] # NoRun}}
    \cup {<<c, "ended">> : c \in {d \in Slots : running[d[1]] = <<p, d[2]>>}}

\* The process is killed, perhaps between a record and its mark.
Crash(p) ==
  /\ phase[p] # "closed"
  /\ Gone(p)
  /\ \/ UNCHANGED <<records, hurt, faults>>
     \/ Fail /\ \E r \in Recording(p) : Record(r[1], r[2], 1) /\ hurt' = hurt \cup {r[1]}
  /\ UNCHANGED <<now, store, history, saves>>

-----------------------------------------------------------------------------
Thread(p) ==
  \/ Tick(p) \/ LateTick(p) \/ LoadMarks(p) \/ Recovered(p) \/ Read(p) \/ EndTick(p)
  \/ \E c \in Slots : Recover(p, c) \/ NoteSkipped(p, c)
  \/ \E a \in Automations, s \in SlotTimes, skip \in BOOLEAN :
       Claim(p, a, s, skip) \/ NotClaimed(p, a, s, skip) \/ ClaimFails(p, a, s, skip)

Loop(p) ==
  \/ \E c \in Slots : BeginRun(p, c) \/ EndRun(p, c) \/ RunCancelled(p, c)
  \/ Open(p) \/ Stop(p) \/ Stopped(p) \/ Exit(p) \/ Crash(p)

Next ==
  \/ Clock
  \/ \E a \in Automations : Save(a) \/ Delete(a) \/ RunNow(a) \/ RunNowEnds(a)
  \/ \E p \in Procs : Thread(p) \/ Loop(p)

Spec == Init /\ [][Next]_vars

-----------------------------------------------------------------------------
(* Properties. *)

Recordings(c) == records[c].ended + records[c].skipped + records[c].interrupted
Marks(c) == store[c[1]].marks[c[2]]

\* Types; a mark is there for each of its claims at most.
TypeOK ==
  /\ now \in 0 .. MaxTime
  /\ store \in [Automations -> [kept : BOOLEAN, enabled : BOOLEAN, missed : {"run_once", "skip"},
                                last : 0 .. MaxTime, marks : [SlotTimes -> Nat]]]
  /\ firing \in Procs \cup {NoProc}
  /\ running \in [Automations -> {NoRun, Manual} \cup Procs \X SlotTimes]
  /\ phase \in [Procs -> {"closed", "open", "stopping", "stopped"}]
  /\ tick \in [Procs -> [at : {"none", "late", "marks", "recover", "read", "scan", "note"},
                         marks : [Slots -> Nat],
                         found : SUBSET (Automations \X SlotTimes \X BOOLEAN),
                         skip : SUBSET Slots, start : SUBSET Slots]]
  /\ tasks \in [Procs -> SUBSET Slots]
  /\ records \in [Slots -> [Kinds -> Nat]]
  /\ \A c \in Slots : Marks(c) <= claims[c]

\* "Two Dream windows or servers never run the same slot twice", whatever the
\* owner edits and however the clock steps, but for a save made while the
\* clock was behind the slot it had handled.
ClaimedOnce ==
  \A c \in Slots : claims[c] + passed[c] > 1 => c[1] \in rewound

\* A claimed slot is recorded once at most, by its run, as skipped or as
\* interrupted, unless its recording was cut in two.
RecordedOnce ==
  \A c \in Slots : Recordings(c) > claims[c] + passed[c] => c \in hurt

\* Every slot once: claimed once among all processes and, once claimed,
\* recorded once, whoever records it.
SlotsOnce == TypeOK /\ ClaimedOnce /\ RecordedOnce

\* A claimed run that has no record is still marked, through edits, failing
\* writes, stops and crashes, so that the next firing process finds it.
MarkedUntilRecorded ==
  \A c \in Slots : store[c[1]].kept => claims[c] <= Marks(c) + Recordings(c)

\* No run is recorded as interrupted while it is going or about to begin, by
\* its own process or by another, unless a thread goes on recovering after its
\* scheduler was stopped.
InterruptedIsOver ==
  [][\A c \in Slots :
       /\ records'[c].interrupted > records[c].interrupted
       /\ \A p \in Procs : tick[p].at = "recover" => firing = p
     => \A p \in Procs : running'[c[1]] # <<p, c[2]>> /\ c \notin tasks'[p]]_vars

\* As long as processes go on taking over the schedule and recovering what
\* they find, no mark stays for ever.
MarksSettle ==
  []<><<\E p \in Procs : Recovered(p)>>_vars =>
    \A c \in Slots : [](Marks(c) > 0 => <>(Marks(c) = 0))

\* "Scheduled runs the last firing process never finished" (scheduler.py): a
\* run recorded as interrupted has no record of its end.  The code breaks this.
InterruptedNeverEnded ==
  \A c \in Slots : records[c].interrupted > 0 => records[c].ended = 0
=============================================================================
