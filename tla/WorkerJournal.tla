---------------------------- MODULE WorkerJournal ----------------------------
(***************************************************************************)
(* The ledger of one delegated worker run (WorkerJournal,                  *)
(* dream/core/worker_checkpoints.py): an append-only, fsynced file behind  *)
(* a non-blocking file lock, and the process that drives the run through   *)
(* it.  Each operation admits, changes a copy of the state, appends one    *)
(* row and only then takes the copy as its own.  Any storage error latches *)
(* _failed: the object answers nothing more, and the next process to open  *)
(* the ledger sees what reading the file yields.                           *)
(*                                                                         *)
(* The file is represented by that reading: ledger.state and               *)
(* ledger.started are the loop variables of _load after the last row, and  *)
(* ledger.readable is FALSE once _load would raise "corrupt".  The calls   *)
(* may come in any order and from any process that gets the lock; the wall *)
(* clock may show anything, backwards steps included.                      *)
(*                                                                         *)
(* Binding, scope and snapshots are data nothing here depends on; a        *)
(* message is one of a count.                                              *)
(***************************************************************************)
EXTENDS Naturals, FiniteSets

CONSTANTS
  Procs,         \* processes that open the ledger
  NoProc,
  Tools,         \* identities of tool calls within one request
  MaxTools,      \* 128 in the code: tool calls of one pending request
  MaxRounds,     \* max_rounds of the run
  MaxMessages,   \* 32 in the code: unconsumed owner messages
  MaxRows,       \* capacity of the ledger (MAX_LEDGER_BYTES), in rows
  MaxClock       \* bound on what the wall clock shows

ASSUME NoProcAssumption == NoProc \notin Procs
ASSUME LimitAssumption == /\ MaxTools \in Nat
                          /\ MaxRounds \in Nat \ {0}
                          /\ MaxMessages \in Nat
                          /\ MaxRows \in Nat
                          /\ MaxClock \in Nat
ASSUME ToolsAssumption == IsFiniteSet(Tools)

VARIABLES
  lock,       \* the process whose descriptor holds the file lock
  ledger,     \* what _load would read: a view, and whether it is readable
  view,       \* view[p]: _state, _seq and _pause_started_ns of p's object
  failed,     \* failed[p]: _failed
  torn,       \* was a row ever cut off in the middle?
  allowance,  \* the run time given at creation: its deadline less its clock
  active,     \* recorded time that passed while the run was not paused
  sent,       \* provider requests the journal let out
  entered     \* tool calls let in whose outcome is not on disk

vars == <<lock, ledger, view, failed, torn, allowance, active, sent, entered>>

Clock == 1 .. MaxClock

NoTools == [t \in Tools |-> "unused"]

\* The row state.  control is "none" in an empty ledger; pending says whether
\* a request is unsettled, and tools what became of its tool calls.
States ==
  [requests : 0 .. MaxRounds, clock : 0 .. MaxClock, deadline : 0 .. 2 * MaxClock,
   control : {"none", "running", "paused", "stopped"}, messages : 0 .. MaxMessages,
   pending : BOOLEAN, tools : [Tools -> {"unused", "intent", "returned"}],
   outcome : {"none", "completed", "incomplete"}, acknowledged : BOOLEAN]

NoState == [requests |-> 0, clock |-> 0, deadline |-> 0, control |-> "none",
            messages |-> 0, pending |-> FALSE, tools |-> NoTools,
            outcome |-> "none", acknowledged |-> FALSE]

Views == [state : States, seq : 0 .. MaxRows, started : 0 .. MaxClock]

NoView == [state |-> NoState, seq |-> 0, started |-> 0]

Intents(s) == {t \in Tools : s.tools[t] = "intent"}

-----------------------------------------------------------------------------
(* What a state and a row must satisfy: _validate and the loop of _load.   *)

\* Mutant: the deadline itself still counts as in time.
InTimeAtDeadline(clock, deadline) == clock <= deadline

InTime(clock, deadline) == clock < deadline

Valid(s) ==
  /\ InTime(s.clock, s.deadline)
  /\ s.requests <= MaxRounds /\ s.messages <= MaxMessages
  /\ s.outcome = "completed" => s.messages = 0 /\ ~s.pending
  /\ Cardinality({t \in Tools : s.tools[t] # "unused"}) <= MaxTools

\* What reading one more row does to the recorded start of a pause.
StartedAfter(started, event, s) ==
  IF event = "paused" THEN s.clock
  ELSE IF s.control # "paused" \/ s.outcome # "none" THEN 0 ELSE started

FollowsOn(old, started, event, s) ==
  /\ s.requests \in old.requests .. old.requests + 1
  /\ old.clock <= s.clock
  /\ old.control = "stopped" => s.control = "stopped"
  /\ old.outcome # "none" => s = [old EXCEPT !.acknowledged = s.acknowledged]
  /\ old.acknowledged => s.acknowledged
  /\ event = "paused" => /\ old.control = "running"
                         /\ s = [old EXCEPT !.control = "paused", !.clock = s.clock]
  /\ event = "checkpointed" => s = old
  /\ IF event = "resumed"
     THEN /\ started # 0
          /\ old.control = "paused" /\ old.clock = started
          /\ s = [old EXCEPT !.control = "running", !.clock = s.clock,
                             !.deadline = @ + (s.clock - started)]
     ELSE s.deadline = old.deadline

Accepted(seq, event, s) ==
  /\ ledger.readable /\ seq = ledger.seq + 1
  /\ Valid(s)
  /\ IF ledger.seq = 0
     THEN event = "created" /\ s.requests = 0 /\ ~s.pending /\ s.outcome = "none"
     ELSE FollowsOn(ledger.state, ledger.started, event, s)

-----------------------------------------------------------------------------
(* _append.                                                                *)

\* The file with the row in it, and the recorded running time it adds.
Store(seq, event, s) ==
  /\ ledger' = IF Accepted(seq, event, s)
               THEN [state |-> s, seq |-> seq, readable |-> TRUE,
                     started |-> StartedAfter(ledger.started, event, s)]
               ELSE [ledger EXCEPT !.readable = FALSE, !.seq = @ + 1]
  /\ active' = IF ledger.state.control = "running" /\ s.clock > ledger.state.clock
               THEN active + (s.clock - ledger.state.clock) ELSE active
  /\ UNCHANGED <<lock, allowance>>

Latch(p) ==
  /\ failed' = [failed EXCEPT ![p] = TRUE]
  /\ UNCHANGED view

\* The row is synced, and the process may act on it: the caller sends the
\* request or enters the tool's handler.
Written(p, event, s) ==
  /\ Store(view[p].seq + 1, event, s)
  /\ view' = [view EXCEPT ![p] =
                [state |-> s, seq |-> @.seq + 1,
                 started |-> StartedAfter(@.started, event, s)]]
  /\ sent' = IF event = "request" THEN sent + 1 ELSE sent
  /\ entered' = IF event = "tool_intent"
                THEN entered \cup (Intents(s) \ Intents(view[p].state))
                ELSE entered \ {t \in Tools : s.tools[t] = "returned"}
  /\ UNCHANGED <<failed, torn>>

\* The row is in the file, and an error (fsync, a signal) hides that.
Unconfirmed(p, event, s) ==
  /\ Store(view[p].seq + 1, event, s)
  /\ Latch(p)
  /\ entered' = entered \ {t \in Tools : s.tools[t] = "returned"}
  /\ UNCHANGED <<torn, sent>>

\* A row cut off by a full disk or by the death of the process.
Truncated(p) ==
  /\ ledger' = [ledger EXCEPT !.readable = FALSE]
  /\ torn' = TRUE
  /\ Latch(p)
  /\ UNCHANGED <<lock, allowance, active, sent, entered>>

NothingWritten(p) ==
  /\ Latch(p)
  /\ UNCHANGED <<lock, ledger, torn, allowance, active, sent, entered>>

Writable(p, s) == /\ view[p].seq = ledger.seq
                  /\ ledger.seq < MaxRows
                  /\ Valid(s)

\* Mutant: an error of the write is reported and forgotten.
AppendUnlatched(p, event, s) ==
  /\ Writable(p, s)
  /\ \/ Written(p, event, s)
     \/ /\ Store(view[p].seq + 1, event, s)
        /\ entered' = entered \ {t \in Tools : s.tools[t] = "returned"}
        /\ UNCHANGED <<view, failed, torn, sent>>

Append(p, event, s) ==
  \/ /\ Writable(p, s)
     /\ Written(p, event, s) \/ Unconfirmed(p, event, s) \/ Truncated(p)
  \/ ~Writable(p, s) /\ NothingWritten(p)

-----------------------------------------------------------------------------
(* Opening and closing.                                                    *)

\* __enter__ and _load; a ledger that does not read is refused.
Open(p) ==
  /\ lock = NoProc
  /\ ledger.readable
  /\ lock' = p
  /\ view' = [view EXCEPT ![p] = [state |-> ledger.state, seq |-> ledger.seq,
                                  started |-> ledger.started]]
  /\ UNCHANGED <<ledger, failed, torn, allowance, active, sent, entered>>

\* close, or the end of the process at any point between two operations.
Close(p) ==
  /\ lock = p
  /\ lock' = NoProc
  /\ view' = [view EXCEPT ![p] = NoView]
  /\ failed' = [failed EXCEPT ![p] = FALSE]
  /\ UNCHANGED <<ledger, torn, allowance, active, sent, entered>>

\* _check_paths, inspect or _snapshot fails before anything is written.
StorageFails(p) ==
  /\ lock = p /\ ~failed[p]
  /\ NothingWritten(p)

-----------------------------------------------------------------------------
(* The operations.                                                         *)

Current(p) == view[p].state

\* _check_paths passed, and there is a state (create apart).
Usable(p) == lock = p /\ ~failed[p] /\ view[p].seq > 0

Unfinished(p) == Usable(p) /\ Current(p).outcome = "none"

\* Mutant: only a pause keeps work out.
AdmitUnlessPaused(p, now) ==
  /\ Unfinished(p)
  /\ Current(p).control # "paused"
  /\ Current(p).clock <= now /\ InTime(now, Current(p).deadline)

\* _admit: the state it returns is AtClock.
Admit(p, now) ==
  /\ Unfinished(p)
  /\ Current(p).control = "running"
  /\ Current(p).clock <= now /\ InTime(now, Current(p).deadline)

AtClock(p, now) == [Current(p) EXCEPT !.clock = now]

Create(p, now, deadline) ==
  /\ lock = p /\ ~failed[p] /\ view[p].seq = 0
  /\ InTime(now, deadline)
  /\ LET s == [NoState EXCEPT !.clock = now, !.deadline = deadline,
                              !.control = "running"] IN
     \/ /\ Writable(p, s)
        /\ ledger' = [state |-> s, seq |-> 1, started |-> 0, readable |-> TRUE]
        /\ allowance' = deadline - now
        /\ \/ /\ view' = [view EXCEPT ![p] = [state |-> s, seq |-> 1, started |-> 0]]
              /\ UNCHANGED failed
           \/ Latch(p)
        /\ UNCHANGED <<lock, torn, active, sent, entered>>
     \/ Writable(p, s) /\ Truncated(p)
     \/ ~Writable(p, s) /\ NothingWritten(p)

Resume(p, now) ==
  /\ Admit(p, now)
  /\ ~Current(p).pending
  /\ Current(p).requests < MaxRounds
  /\ Append(p, "control", AtClock(p, now))

\* Mutant: a request is counted when its row is confirmed, not by the row.
RequestUncounted(p, now) ==
  /\ Admit(p, now)
  /\ ~Current(p).pending
  /\ Current(p).requests < MaxRounds
  /\ Append(p, "request", [AtClock(p, now) EXCEPT !.pending = TRUE])

RequestStarted(p, now) ==
  /\ Admit(p, now)
  /\ ~Current(p).pending
  /\ Current(p).requests < MaxRounds
  /\ Append(p, "request", [AtClock(p, now) EXCEPT !.requests = @ + 1,
                                                  !.pending = TRUE])

ToolStarted(p, now, t) ==
  /\ Admit(p, now)
  /\ Current(p).pending /\ Current(p).tools[t] = "unused"
  /\ Append(p, "tool_intent", [AtClock(p, now) EXCEPT !.tools[t] = "intent"])

\* No admission: an outcome is recorded after Stop and after the deadline too.
ToolFinished(p, t) ==
  /\ Unfinished(p)
  /\ Current(p).pending /\ Current(p).tools[t] = "intent"
  /\ Append(p, "tool_outcome", [Current(p) EXCEPT !.tools[t] = "returned"])

\* Mutant: settle does not ask whether a tool call is still open.
SettleOpen(p, now, consumed) ==
  /\ Admit(p, now)
  /\ consumed <= Current(p).messages
  /\ Append(p, "settled", [AtClock(p, now) EXCEPT !.messages = @ - consumed,
                                                  !.pending = FALSE,
                                                  !.tools = NoTools])

Settle(p, now, consumed) ==
  /\ Admit(p, now)
  /\ Intents(Current(p)) = {}
  /\ consumed <= Current(p).messages
  /\ Append(p, "settled", [AtClock(p, now) EXCEPT !.messages = @ - consumed,
                                                  !.pending = FALSE,
                                                  !.tools = NoTools])

Checkpoint(p) == Unfinished(p) /\ Append(p, "checkpointed", Current(p))

Message(p) ==
  /\ Unfinished(p)
  /\ Current(p).control # "stopped"
  /\ Current(p).messages < MaxMessages
  /\ Append(p, "message", [Current(p) EXCEPT !.messages = @ + 1])

Stop(p) == Unfinished(p) /\ Append(p, "control", [Current(p) EXCEPT !.control = "stopped"])

\* Mutant: a repeated pause is recorded as well.
PauseAgain(p, now) ==
  /\ Unfinished(p)
  /\ Current(p).control # "stopped"
  /\ Current(p).clock <= now /\ InTime(now, Current(p).deadline)
  /\ Append(p, "paused", [AtClock(p, now) EXCEPT !.control = "paused"])

Pause(p, now) ==
  /\ Admit(p, now)
  /\ Append(p, "paused", [AtClock(p, now) EXCEPT !.control = "paused"])

\* control("running") of a run that is running.
KeepRunning(p, now) == Admit(p, now) /\ Append(p, "control", AtClock(p, now))

\* The pause's length, which the deadline is moved by.
Credit(p, now) == now - view[p].started

Unpause(p, now) ==
  /\ Unfinished(p)
  /\ Current(p).control = "paused" /\ view[p].started # 0
  /\ Current(p).clock <= now
  /\ Append(p, "resumed", [AtClock(p, now) EXCEPT !.control = "running",
                                                  !.deadline = @ + Credit(p, now)])

\* A pause whose start no row recorded earns nothing.
UnpauseUncredited(p, now) ==
  /\ Unfinished(p)
  /\ Current(p).control = "paused" /\ view[p].started = 0
  /\ Current(p).clock <= now /\ InTime(now, Current(p).deadline)
  /\ Append(p, "control", [AtClock(p, now) EXCEPT !.control = "running"])

FinishCompleted(p, now) ==
  /\ Admit(p, now)
  /\ Current(p).messages = 0
  /\ Intents(Current(p)) = {}
  /\ Append(p, "finished", [AtClock(p, now) EXCEPT !.outcome = "completed",
                                                   !.pending = FALSE,
                                                   !.tools = NoTools])

\* No admission, and what is open stays on record.
FinishIncomplete(p) ==
  /\ Unfinished(p)
  /\ Append(p, "finished", [Current(p) EXCEPT !.outcome = "incomplete"])

Acknowledge(p) ==
  /\ Usable(p)
  /\ Current(p).outcome # "none" /\ ~Current(p).acknowledged
  /\ Append(p, "acknowledged", [Current(p) EXCEPT !.acknowledged = TRUE])

-----------------------------------------------------------------------------

Operate(p) ==
  \/ Checkpoint(p) \/ Message(p) \/ Stop(p)
  \/ FinishIncomplete(p) \/ Acknowledge(p)
  \/ \E t \in Tools : ToolFinished(p, t)
  \/ \E now \in Clock :
       \/ \E deadline \in Clock : Create(p, now, deadline)
       \/ Resume(p, now) \/ RequestStarted(p, now)
       \/ \E t \in Tools : ToolStarted(p, now, t)
       \/ \E consumed \in 0 .. MaxMessages : Settle(p, now, consumed)
       \/ Pause(p, now) \/ KeepRunning(p, now)
       \/ Unpause(p, now) \/ UnpauseUncredited(p, now)
       \/ FinishCompleted(p, now)

Next == \E p \in Procs : Open(p) \/ Close(p) \/ StorageFails(p) \/ Operate(p)

OldPause(deadline) ==
  [NoState EXCEPT !.clock = 1, !.deadline = deadline, !.control = "paused"]

\* No ledger yet, or one an earlier version left paused, without a record of
\* when the pause began.
Init ==
  /\ lock = NoProc
  /\ view = [p \in Procs |-> NoView]
  /\ failed = [p \in Procs |-> FALSE]
  /\ torn = FALSE /\ active = 0 /\ sent = 0 /\ entered = {}
  /\ \/ /\ ledger = [state |-> NoState, seq |-> 0, started |-> 0, readable |-> TRUE]
        /\ allowance = 0
     \/ \E deadline \in 2 .. MaxClock :
          /\ MaxRows > 1
          /\ ledger = [state |-> OldPause(deadline), seq |-> 2, started |-> 0,
                       readable |-> TRUE]
          /\ allowance = deadline - 1

Spec == Init /\ [][Next]_vars

-----------------------------------------------------------------------------
(* Properties.                                                             *)

TypeOK ==
  /\ lock \in Procs \cup {NoProc}
  /\ ledger \in [state : States, seq : 0 .. MaxRows, started : 0 .. MaxClock,
                  readable : BOOLEAN]
  /\ view \in [Procs -> Views]
  /\ failed \in [Procs -> BOOLEAN]
  /\ torn \in BOOLEAN
  /\ allowance \in 0 .. MaxClock
  /\ active \in Nat /\ sent \in Nat
  /\ entered \subseteq Tools

\* A driver that may still write has exactly the state a reader of the file
\* would have: it decides nothing on a state that a crash would take back or
\* that the file has left behind.
ViewIsLedger ==
  \A p \in Procs : lock = p /\ ~failed[p] =>
    view[p] = [state |-> ledger.state, seq |-> ledger.seq, started |-> ledger.started]

\* No legal sequence of calls writes a row that _load would refuse: only a row
\* cut off in the middle makes a ledger unreadable.
LedgerReloads == ledger.readable \/ torn

\* However often a run is paused, resumed, reopened or its clock stepped, the
\* time on record while it was not paused stays under what it was given.
ActiveTimeBounded == ledger.seq > 0 => active < allowance

\* Every request that left was on disk first and counts against max_rounds
\* for good; no crash or storage error buys another one.
RequestsOnRecord == sent <= ledger.state.requests

\* A tool call that was let in and whose outcome is not on disk stays on
\* record as open: no settlement, completion or restart forgets it.
NoEffectForgotten == entered \subseteq Intents(ledger.state)

\* Once Stop or an outcome is on disk, no request leaves and no tool call is
\* let in any more, in any process, and neither is ever taken back.
ClosedStep ==
  ledger.state.control = "stopped" \/ ledger.state.outcome # "none" =>
    /\ sent' = sent /\ entered' \subseteq entered
    /\ ledger.state.control = "stopped" => ledger'.state.control = "stopped"
    /\ ledger.state.outcome # "none" => ledger'.state.outcome = ledger.state.outcome

ClosedForGood == [][ClosedStep]_vars
=============================================================================
