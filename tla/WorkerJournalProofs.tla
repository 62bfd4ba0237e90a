------------------------- MODULE WorkerJournalProofs -------------------------
(***************************************************************************)
(* Proofs about WorkerJournal for every number of processes, tools,        *)
(* rounds, messages and rows and every range of the clock.                 *)
(*                                                                         *)
(* JournalInv is inductive.  Its heart is that a driver which may still    *)
(* write sees what the file says (ViewIsLedger) and that the deadline has  *)
(* moved by no more than the time spent in recorded pauses (TimeKept).     *)
(* Every operation but create appends a Row: a state that follows on from  *)
(* the driver's view by the rules _load checks, that keeps every open tool *)
(* call open or returned, and that counts a request.  The proof shows      *)
(* that once per operation (OperationWritesRow) and that appending a Row   *)
(* keeps the invariant once and for all (AppendKeepsInv).                  *)
(***************************************************************************)
EXTENDS WorkerJournal, FiniteSetTheorems, TLAPS

\* Only the holder of the lock has an open object.
ClosedUnlessLocked ==
  \A p \in Procs : lock # p => view[p] = NoView /\ ~failed[p]

\* Whoever may still write holds a ledger that reads.
OpenIsReadable == \A p \in Procs : lock = p /\ ~failed[p] => ledger.readable

\* Before the first row nothing has happened.
EmptyIsUnused ==
  ledger.seq = 0 => /\ ledger.state = NoState /\ ledger.started = 0
                    /\ active = 0 /\ sent = 0 /\ entered = {}

RowIsValid ==
  ledger.seq > 0 => Valid(ledger.state) /\ ledger.state.control # "none"

\* A pause with a recorded start is still on, and the run's clock stands at it.
StartIsClock ==
  ledger.started # 0 => /\ ledger.state.control = "paused"
                        /\ ledger.state.clock = ledger.started

\* The deadline has moved no further than the clock has without running.
TimeKept ==
  ledger.seq > 0 =>
    ledger.state.deadline + active <= ledger.state.clock + allowance

JournalInv ==
  /\ TypeOK
  /\ ClosedUnlessLocked
  /\ OpenIsReadable
  /\ ViewIsLedger
  /\ LedgerReloads
  /\ EmptyIsUnused
  /\ RowIsValid
  /\ StartIsClock
  /\ TimeKept
  /\ RequestsOnRecord
  /\ NoEffectForgotten

Row(p, event, s) ==
  /\ Usable(p)
  /\ event # "created"
  /\ s \in States /\ s.control # "none"
  /\ FollowsOn(Current(p), view[p].started, event, s)
  /\ Current(p).control = "paused" /\ s.control = "paused" =>
       s.clock = Current(p).clock
  /\ \A t \in Intents(Current(p)) :
       s.tools[t] = "intent" \/ (event # "tool_intent" /\ s.tools[t] = "returned")
  /\ event = "request" => s.requests = Current(p).requests + 1
  /\ event \in {"request", "tool_intent"} =>
       Current(p).control = "running" /\ Current(p).outcome = "none"

-----------------------------------------------------------------------------

\* The initial states satisfy the invariant.
LEMMA InitInv == Init => JournalInv
<1> SUFFICES ASSUME Init PROVE JournalInv
  OBVIOUS
<1> USE NoProcAssumption, LimitAssumption
<1>1. NoState \in States
  BY DEF NoState, States, NoTools
<1>2. NoView \in Views
  BY <1>1 DEF NoView, Views
<1>3. CASE ledger = [state |-> NoState, seq |-> 0, started |-> 0, readable |-> TRUE]
           /\ allowance = 0
  <2>1. TypeOK
    <3>1. 0 \in 0 .. MaxRows /\ 0 \in 0 .. MaxClock /\ 0 \in Nat
      OBVIOUS
    <3>2. QED
      BY <3>1, <1>1, <1>2, <1>3 DEF Init, TypeOK
  <2>2. NoState.requests = 0 /\ Intents(NoState) \subseteq Tools
    BY DEF NoState, Intents
  <2>3. QED
    BY <2>1, <2>2, <1>3 DEF Init, JournalInv, ClosedUnlessLocked,
      OpenIsReadable, ViewIsLedger, LedgerReloads, EmptyIsUnused, RowIsValid,
      StartIsClock, TimeKept, RequestsOnRecord, NoEffectForgotten
<1>4. ASSUME NEW deadline \in 2 .. MaxClock, MaxRows > 1,
             ledger = [state |-> OldPause(deadline), seq |-> 2, started |-> 0,
                       readable |-> TRUE],
             allowance = deadline - 1
      PROVE  JournalInv
  <2>1. /\ OldPause(deadline) \in States
        /\ OldPause(deadline).clock = 1 /\ OldPause(deadline).deadline = deadline
        /\ OldPause(deadline).control = "paused"
        /\ OldPause(deadline).tools = NoTools
        /\ OldPause(deadline).requests = 0 /\ OldPause(deadline).messages = 0
        /\ OldPause(deadline).outcome = "none"
    <3>1. deadline \in 0 .. 2 * MaxClock /\ 1 \in 0 .. MaxClock
      BY <1>4
    <3>2. OldPause(deadline) \in States
      BY <1>1, <3>1 DEF OldPause, States
    <3>3. /\ NoState.requests = 0 /\ NoState.messages = 0
          /\ NoState.outcome = "none" /\ NoState.tools = NoTools
      BY DEF NoState
    <3>4. QED
      BY <1>1, <3>2, <3>3 DEF OldPause, States
  <2>2. Cardinality({t \in Tools : OldPause(deadline).tools[t] # "unused"}) = 0
    <3>1. {t \in Tools : OldPause(deadline).tools[t] # "unused"} = {}
      BY <2>1 DEF NoTools
    <3>2. QED
      BY <3>1, FS_EmptySet
  <2>3. Valid(OldPause(deadline))
    BY <2>1, <2>2, <1>4 DEF Valid, InTime
  <2>4. TypeOK
    <3>1. allowance \in 0 .. MaxClock /\ 2 \in 0 .. MaxRows /\ 0 \in 0 .. MaxClock
      BY <1>4
    <3>2. QED
      BY <3>1, <1>2, <1>4, <2>1 DEF Init, TypeOK
  <2>5. TimeKept
    BY <1>4, <2>1 DEF Init, TimeKept
  <2>6. QED
    BY <1>4, <2>1, <2>3, <2>4, <2>5 DEF Init, JournalInv,
      ClosedUnlessLocked, OpenIsReadable, ViewIsLedger, LedgerReloads,
      EmptyIsUnused, RowIsValid, StartIsClock, RequestsOnRecord, NoEffectForgotten
<1>5. QED
  BY <1>3, <1>4 DEF Init

-----------------------------------------------------------------------------

\* The row a driver appends is one _load accepts.
LEMMA RowAccepted ==
  ASSUME JournalInv, NEW p \in Procs, NEW event, NEW s,
         Row(p, event, s), Writable(p, s)
  PROVE  /\ Accepted(view[p].seq + 1, event, s)
         /\ view[p] = [state |-> ledger.state, seq |-> ledger.seq,
                       started |-> ledger.started]
         /\ ledger.seq > 0
<1>1. /\ view[p] = [state |-> ledger.state, seq |-> ledger.seq,
                    started |-> ledger.started]
      /\ ledger.readable /\ ledger.seq > 0
  BY DEF JournalInv, ViewIsLedger, OpenIsReadable, Row, Usable
<1>2. QED
  BY <1>1 DEF Row, Usable, Writable, Accepted, Current, JournalInv, TypeOK

\* Storing such a row keeps what the invariant says of the file.
LEMMA StoreKeeps ==
  ASSUME JournalInv, NEW p \in Procs, NEW event, NEW s,
         Row(p, event, s), Writable(p, s),
         Store(view[p].seq + 1, event, s)
  PROVE  /\ ledger' = [state |-> s, seq |-> view[p].seq + 1, readable |-> TRUE,
                       started |-> StartedAfter(view[p].started, event, s)]
         /\ ledger'.seq \in 1 .. MaxRows
         /\ ledger'.started \in 0 .. MaxClock
         /\ active' \in Nat /\ lock' = lock /\ allowance' = allowance
         /\ RowIsValid' /\ StartIsClock' /\ TimeKept'
         /\ s.requests >= ledger.state.requests
<1> USE LimitAssumption
<1>1. /\ Accepted(view[p].seq + 1, event, s)
      /\ view[p] = [state |-> ledger.state, seq |-> ledger.seq,
                    started |-> ledger.started]
      /\ ledger.seq > 0
  BY RowAccepted
<1>2. /\ ledger' = [state |-> s, seq |-> view[p].seq + 1, readable |-> TRUE,
                    started |-> StartedAfter(view[p].started, event, s)]
      /\ lock' = lock /\ allowance' = allowance
      /\ active' = IF ledger.state.control = "running" /\ s.clock > ledger.state.clock
                   THEN active + (s.clock - ledger.state.clock) ELSE active
  BY <1>1 DEF Store
<1>3. /\ ledger.state \in States /\ s \in States
      /\ ledger.seq \in Nat /\ ledger.started \in 0 .. MaxClock
      /\ active \in Nat /\ allowance \in Nat
  BY DEF JournalInv, TypeOK, Row
<1>4. /\ ledger.state.clock \in Nat /\ s.clock \in 0 .. MaxClock
      /\ ledger.state.deadline \in Nat /\ s.deadline \in Nat
      /\ ledger.state.requests \in Nat /\ s.requests \in Nat
  BY <1>3 DEF States
<1>5. FollowsOn(ledger.state, ledger.started, event, s)
  BY <1>1, <1>3 DEF Accepted
<1>6. ledger'.seq \in 1 .. MaxRows /\ ledger'.started \in 0 .. MaxClock
  BY <1>1, <1>2, <1>3, <1>4 DEF Writable, StartedAfter
<1>7. active' \in Nat
  BY <1>2, <1>3, <1>4
<1>8. RowIsValid'
  BY <1>2 DEF RowIsValid, Writable, Row
<1>9. StartIsClock'
  <2>1. CASE event = "paused"
    BY <2>1, <1>2, <1>3, <1>5 DEF FollowsOn, StartIsClock, StartedAfter, States
  <2>2. CASE event # "paused" /\ ledger.started # 0
    <3>1. ledger.state.control = "paused" /\ ledger.state.clock = ledger.started
      BY <2>2 DEF JournalInv, StartIsClock
    <3>2. CASE s.control = "paused" /\ s.outcome = "none"
      <4>1. s.clock = ledger.state.clock
        BY <3>1, <3>2, <1>1 DEF Row, Current
      <4>2. QED
        BY <3>1, <3>2, <4>1, <2>2, <1>1, <1>2 DEF StartIsClock, StartedAfter
    <3>3. CASE s.control # "paused" \/ s.outcome # "none"
      BY <3>3, <2>2, <1>2 DEF StartIsClock, StartedAfter
    <3>4. QED
      BY <3>2, <3>3
  <2>3. CASE event # "paused" /\ ledger.started = 0
    BY <2>3, <1>1, <1>2 DEF StartIsClock, StartedAfter
  <2>4. QED
    BY <2>1, <2>2, <2>3
<1>10. TimeKept'
  <2>1. ledger.state.deadline + active <= ledger.state.clock + allowance
    BY <1>1 DEF JournalInv, TimeKept
  <2>2. ledger.state.clock <= s.clock
    BY <1>5 DEF FollowsOn
  <2>3. CASE event = "resumed"
    <3>1. /\ ledger.state.control = "paused" /\ ledger.state.clock = ledger.started
          /\ s = [ledger.state EXCEPT !.control = "running", !.clock = s.clock,
                     !.deadline = @ + (s.clock - ledger.started)]
      BY <2>3, <1>5 DEF FollowsOn
    <3>2. s.deadline = ledger.state.deadline + (s.clock - ledger.state.clock)
      BY <3>1, <1>3 DEF States
    <3>3. active' = active
      BY <3>1, <1>2
    <3>4. QED
      BY <3>2, <3>3, <2>1, <2>2, <1>2, <1>3, <1>4 DEF TimeKept
  <2>4. CASE event # "resumed"
    BY <2>1, <2>2, <2>4, <1>2, <1>3, <1>4, <1>5 DEF FollowsOn, TimeKept
  <2>5. QED
    BY <2>3, <2>4
<1>11. s.requests >= ledger.state.requests
  BY <1>4, <1>5 DEF FollowsOn
<1>12. QED
  BY <1>2, <1>6, <1>7, <1>8, <1>9, <1>10, <1>11

\* A storage error that adds no row: the driver is latched, and the file is as
\* it was or cut off in its last row.
LEMMA LatchedKeepsInv ==
  ASSUME JournalInv, NEW p \in Procs, lock = p, ~failed[p],
         Truncated(p) \/ NothingWritten(p)
  PROVE  JournalInv'
<1>1. /\ view' = view /\ failed' = [failed EXCEPT ![p] = TRUE]
      /\ UNCHANGED <<lock, allowance, active, sent, entered>>
  BY DEF Truncated, NothingWritten, Latch
<1>2. /\ ledger'.state = ledger.state /\ ledger'.seq = ledger.seq
      /\ ledger'.started = ledger.started
      /\ ledger' \in [state : States, seq : 0 .. MaxRows,
                      started : 0 .. MaxClock, readable : BOOLEAN]
      /\ torn' \in BOOLEAN
      /\ ledger'.readable \/ torn'
  BY DEF Truncated, NothingWritten, JournalInv, TypeOK, LedgerReloads
<1>3. failed \in [Procs -> BOOLEAN]
  BY DEF JournalInv, TypeOK
<1>4. failed'[p] /\ \A q \in Procs : q # p => failed'[q] = failed[q]
  BY <1>1, <1>3
<1>5. TypeOK'
  BY <1>1, <1>2, <1>3 DEF JournalInv, TypeOK
<1>6. ClosedUnlessLocked' /\ OpenIsReadable' /\ ViewIsLedger' /\ LedgerReloads'
  BY <1>1, <1>2, <1>4 DEF JournalInv, ClosedUnlessLocked, OpenIsReadable,
    ViewIsLedger, LedgerReloads
<1>7. /\ EmptyIsUnused' /\ RowIsValid' /\ StartIsClock' /\ TimeKept'
      /\ RequestsOnRecord' /\ NoEffectForgotten'
  BY <1>1, <1>2 DEF JournalInv, EmptyIsUnused, RowIsValid, StartIsClock,
    TimeKept, RequestsOnRecord, NoEffectForgotten
<1>8. QED
  BY <1>5, <1>6, <1>7 DEF JournalInv

\* Appending such a row keeps the invariant, whether or not it succeeds.
LEMMA AppendKeepsInv ==
  ASSUME JournalInv, NEW p \in Procs, NEW event, NEW s,
         Row(p, event, s), Append(p, event, s)
  PROVE  JournalInv'
<1> USE LimitAssumption
<1>1. /\ lock = p /\ ~failed[p] /\ view[p].seq > 0
      /\ view[p] = [state |-> ledger.state, seq |-> ledger.seq,
                    started |-> ledger.started]
      /\ ledger.seq > 0 /\ ledger.readable
  BY DEF JournalInv, ViewIsLedger, OpenIsReadable, Row, Usable
<1>2. /\ s \in States
      /\ view \in [Procs -> Views] /\ failed \in [Procs -> BOOLEAN]
      /\ entered \subseteq Tools /\ sent \in Nat /\ torn \in BOOLEAN
      /\ ledger.state \in States /\ ledger.seq \in Nat
  BY DEF JournalInv, TypeOK, Row
<1>3. ASSUME Writable(p, s), Store(view[p].seq + 1, event, s),
             \/ /\ view' = [view EXCEPT ![p] = [state |-> s, seq |-> @.seq + 1,
                              started |-> StartedAfter(@.started, event, s)]]
                /\ UNCHANGED failed
             \/ Latch(p),
             entered' \subseteq Intents(s), sent' \in Nat, sent' <= s.requests,
             torn' = torn
      PROVE  JournalInv'
  <2>1. /\ ledger' = [state |-> s, seq |-> view[p].seq + 1, readable |-> TRUE,
                      started |-> StartedAfter(view[p].started, event, s)]
        /\ ledger'.seq \in 1 .. MaxRows
        /\ ledger'.started \in 0 .. MaxClock
        /\ active' \in Nat /\ lock' = lock /\ allowance' = allowance
        /\ RowIsValid' /\ StartIsClock' /\ TimeKept'
    BY <1>3, StoreKeeps
  <2>2. /\ view' \in [Procs -> Views] /\ failed' \in [Procs -> BOOLEAN]
        /\ \A q \in Procs : q # p => view'[q] = view[q] /\ failed'[q] = failed[q]
        /\ ~failed'[p] => view'[p] = [state |-> s, seq |-> view[p].seq + 1,
                            started |-> StartedAfter(view[p].started, event, s)]
    <3>1. CASE /\ view' = [view EXCEPT ![p] = [state |-> s, seq |-> @.seq + 1,
                             started |-> StartedAfter(@.started, event, s)]]
               /\ UNCHANGED failed
      <4>1. [state |-> s, seq |-> view[p].seq + 1,
             started |-> StartedAfter(view[p].started, event, s)] \in Views
        BY <1>2, <2>1 DEF Views
      <4>2. QED
        BY <3>1, <4>1, <1>2
    <3>2. CASE Latch(p)
      BY <3>2, <1>2 DEF Latch
    <3>3. QED
      BY <3>1, <3>2, <1>3
  <2>3. TypeOK'
    <3>1. ledger' \in [state : States, seq : 0 .. MaxRows,
                       started : 0 .. MaxClock, readable : BOOLEAN]
      BY <1>2, <2>1
    <3>2. lock' \in Procs \cup {NoProc} /\ allowance' \in 0 .. MaxClock
      BY <2>1 DEF JournalInv, TypeOK
    <3>3. entered' \subseteq Tools
      BY <1>3 DEF Intents
    <3>4. QED
      BY <3>1, <3>2, <3>3, <2>1, <2>2, <1>2, <1>3 DEF TypeOK
  <2>4. ClosedUnlessLocked'
    BY <1>1, <2>1, <2>2 DEF JournalInv, ClosedUnlessLocked
  <2>5. OpenIsReadable' /\ ViewIsLedger' /\ LedgerReloads'
    BY <1>1, <2>1, <2>2 DEF OpenIsReadable, ViewIsLedger, LedgerReloads
  <2>6. EmptyIsUnused'
    BY <2>1 DEF EmptyIsUnused
  <2>7. RequestsOnRecord' /\ NoEffectForgotten'
    BY <2>1, <1>3 DEF RequestsOnRecord, NoEffectForgotten
  <2>8. QED
    BY <2>1, <2>3, <2>4, <2>5, <2>6, <2>7 DEF JournalInv
<1>4. \A t \in Intents(ledger.state) :
        s.tools[t] = "intent" \/ (event # "tool_intent" /\ s.tools[t] = "returned")
  BY <1>1 DEF Row, Current
<1>5. entered \ {t \in Tools : s.tools[t] = "returned"} \subseteq Intents(s)
  BY <1>2, <1>4 DEF JournalInv, NoEffectForgotten, Intents
<1>6. CASE Writable(p, s) /\ Written(p, event, s)
  <2>1. entered' \subseteq Intents(s)
    <3>1. CASE event = "tool_intent"
      <4>1. entered' = entered \cup (Intents(s) \ Intents(view[p].state))
        BY <3>1, <1>6 DEF Written
      <4>2. entered \subseteq Intents(s)
        BY <3>1, <1>2, <1>4 DEF JournalInv, NoEffectForgotten, Intents
      <4>3. QED
        BY <4>1, <4>2
    <3>2. CASE event # "tool_intent"
      BY <3>2, <1>5, <1>6 DEF Written
    <3>3. QED
      BY <3>1, <3>2
  <2>2. sent' \in Nat /\ sent' <= s.requests
    <3>1. s.requests >= ledger.state.requests
      BY <1>6, StoreKeeps DEF Written
    <3>2. s.requests \in Nat /\ ledger.state.requests \in Nat
      BY <1>2 DEF States
    <3>3. sent <= ledger.state.requests
      BY DEF JournalInv, RequestsOnRecord
    <3>4. CASE event = "request"
      <4>1. s.requests = ledger.state.requests + 1
        BY <3>4, <1>1 DEF Row, Current
      <4>2. QED
        BY <3>2, <3>3, <3>4, <4>1, <1>2, <1>6 DEF Written
    <3>5. CASE event # "request"
      BY <3>1, <3>2, <3>3, <3>5, <1>2, <1>6 DEF Written
    <3>6. QED
      BY <3>4, <3>5
  <2>3. QED
    BY <1>3, <1>6, <2>1, <2>2 DEF Written
<1>7. CASE Writable(p, s) /\ Unconfirmed(p, event, s)
  <2>1. s.requests >= ledger.state.requests
    BY <1>7, StoreKeeps DEF Unconfirmed
  <2>2. s.requests \in Nat /\ ledger.state.requests \in Nat
    BY <1>2 DEF States
  <2>3. sent' \in Nat /\ sent' <= s.requests
    BY <2>1, <2>2, <1>2, <1>7 DEF JournalInv, RequestsOnRecord, Unconfirmed
  <2>4. QED
    BY <1>3, <1>5, <1>7, <2>3 DEF Unconfirmed
<1>8. CASE Truncated(p)
  BY <1>8, LatchedKeepsInv DEF Row, Usable
<1>9. CASE NothingWritten(p)
  BY <1>9, LatchedKeepsInv DEF Row, Usable
<1>10. QED
  BY <1>6, <1>7, <1>8, <1>9 DEF Append

\* A run that is stopped or finished lets no request and no tool call out.
LEMMA AppendStaysClosed ==
  ASSUME JournalInv, NEW p \in Procs, NEW event, NEW s,
         Row(p, event, s), Append(p, event, s)
  PROVE  ClosedStep
<1> SUFFICES ASSUME ledger.state.control = "stopped" \/ ledger.state.outcome # "none"
             PROVE  /\ sent' = sent /\ entered' \subseteq entered
                    /\ ledger.state.control = "stopped" =>
                         ledger'.state.control = "stopped"
                    /\ ledger.state.outcome # "none" =>
                         ledger'.state.outcome = ledger.state.outcome
  BY DEF ClosedStep
<1>1. /\ view[p].state = ledger.state /\ view[p].started = ledger.started
      /\ ledger.state \in States
  BY DEF JournalInv, TypeOK, ViewIsLedger, Row, Usable
<1>2. event \notin {"request", "tool_intent"}
  BY <1>1 DEF Row, Current
<1>3. FollowsOn(ledger.state, ledger.started, event, s)
  BY <1>1 DEF Row, Current
<1>4. /\ ledger.state.control = "stopped" => s.control = "stopped"
      /\ ledger.state.outcome # "none" => s.outcome = ledger.state.outcome
  BY <1>1, <1>3 DEF FollowsOn, States
<1>5. ASSUME Writable(p, s), Store(view[p].seq + 1, event, s)
      PROVE  ledger'.state = s
  BY <1>5, StoreKeeps
<1>6. CASE Writable(p, s) /\ Written(p, event, s)
  BY <1>2, <1>4, <1>5, <1>6 DEF Written
<1>7. CASE Writable(p, s) /\ Unconfirmed(p, event, s)
  BY <1>4, <1>5, <1>7 DEF Unconfirmed
<1>8. CASE Truncated(p) \/ NothingWritten(p)
  BY <1>8 DEF Truncated, NothingWritten, JournalInv, TypeOK
<1>9. QED
  BY <1>6, <1>7, <1>8 DEF Append

LEMMA RowKeepsInv ==
  ASSUME JournalInv, NEW p \in Procs, NEW event, NEW s,
         Row(p, event, s), Append(p, event, s)
  PROVE  JournalInv' /\ ClosedStep
BY AppendKeepsInv, AppendStaysClosed

-----------------------------------------------------------------------------

\* What an operation knows of the driver's state when it may write.
LEMMA CurrentFacts ==
  ASSUME JournalInv, NEW p \in Procs, Usable(p)
  PROVE  /\ Current(p) \in States /\ Current(p).control # "none"
         /\ view[p].started \in 0 .. MaxClock
         /\ view[p].started # 0 => /\ Current(p).control = "paused"
                                   /\ Current(p).clock = view[p].started
         /\ Current(p).deadline <= Current(p).clock + MaxClock
         /\ Current(p) = ledger.state /\ ledger.seq > 0
<1> USE LimitAssumption
<1>1. /\ view[p] = [state |-> ledger.state, seq |-> ledger.seq,
                    started |-> ledger.started]
      /\ ledger.seq > 0
  BY DEF JournalInv, ViewIsLedger, Usable
<1>2. Current(p) = ledger.state /\ view[p].started = ledger.started
  BY <1>1 DEF Current
<1>3. /\ ledger.state \in States /\ ledger.started \in 0 .. MaxClock
      /\ active \in Nat /\ allowance \in 0 .. MaxClock
  BY DEF JournalInv, TypeOK
<1>4. ledger.state.clock \in Nat /\ ledger.state.deadline \in Nat
  BY <1>3 DEF States
<1>5. ledger.state.deadline <= ledger.state.clock + MaxClock
  BY <1>1, <1>3, <1>4 DEF JournalInv, TimeKept
<1>6. QED
  BY <1>1, <1>2, <1>3, <1>5 DEF JournalInv, RowIsValid, StartIsClock

\* Every operation of an open ledger but create appends a Row.
LEMMA OperationWritesRow ==
  ASSUME JournalInv, NEW p \in Procs, Operate(p),
         ~\E now \in Clock, deadline \in Clock : Create(p, now, deadline)
  PROVE  JournalInv' /\ ClosedStep
<1> USE LimitAssumption
<1>1. Usable(p)
  BY DEF Operate, Checkpoint, Message, Stop, FinishIncomplete, Acknowledge,
    ToolFinished, Resume, RequestStarted, ToolStarted, Settle, Pause, KeepRunning,
    Unpause, UnpauseUncredited, FinishCompleted, Admit, Unfinished
<1> DEFINE c == Current(p)
<1>2. /\ c \in States /\ c.control # "none"
      /\ view[p].started \in 0 .. MaxClock
      /\ view[p].started # 0 => c.control = "paused" /\ c.clock = view[p].started
      /\ c.deadline <= c.clock + MaxClock
  BY <1>1, CurrentFacts
<1>3. /\ c.requests \in 0 .. MaxRounds /\ c.messages \in 0 .. MaxMessages
      /\ c.clock \in 0 .. MaxClock /\ c.deadline \in 0 .. 2 * MaxClock
      /\ c.tools \in [Tools -> {"unused", "intent", "returned"}]
      /\ c.acknowledged \in BOOLEAN /\ c.pending \in BOOLEAN
      /\ c.outcome \in {"none", "completed", "incomplete"}
      /\ c.control \in {"none", "running", "paused", "stopped"}
  BY <1>2 DEF States
<1>4. NoTools \in [Tools -> {"unused", "intent", "returned"}]
  BY DEF NoTools
<1>5. Clock \subseteq 0 .. MaxClock
  BY DEF Clock
\* Rows that leave the clock alone.
<1>6. CASE Checkpoint(p)
  <2>1. Row(p, "checkpointed", c)
    BY <1>1, <1>2, <1>3, <1>6 DEF Checkpoint, Unfinished, Row, FollowsOn, Intents
  <2>2. QED
    BY <2>1, <1>2, <1>6, RowKeepsInv DEF Checkpoint
<1>7. CASE Message(p)
  <2> DEFINE s == [c EXCEPT !.messages = @ + 1]
  <2>1. c.outcome = "none" /\ c.messages + 1 \in 0 .. MaxMessages
    BY <1>3, <1>7 DEF Message, Unfinished
  <2>2. s \in States
    BY <2>1, <1>2 DEF States
  <2>3. Row(p, "message", s)
    BY <2>1, <2>2, <1>1, <1>2, <1>3 DEF Row, FollowsOn, Intents, States
  <2>4. QED
    BY <2>2, <2>3, <1>7, RowKeepsInv DEF Message
<1>8. CASE Stop(p)
  <2> DEFINE s == [c EXCEPT !.control = "stopped"]
  <2>1. c.outcome = "none"
    BY <1>8 DEF Stop, Unfinished
  <2>2. s \in States
    BY <1>2 DEF States
  <2>3. Row(p, "control", s)
    BY <2>1, <2>2, <1>1, <1>2, <1>3 DEF Row, FollowsOn, Intents, States
  <2>4. QED
    BY <2>2, <2>3, <1>8, RowKeepsInv DEF Stop
<1>9. CASE FinishIncomplete(p)
  <2> DEFINE s == [c EXCEPT !.outcome = "incomplete"]
  <2>1. c.outcome = "none"
    BY <1>9 DEF FinishIncomplete, Unfinished
  <2>2. s \in States
    BY <1>2 DEF States
  <2>3. Row(p, "finished", s)
    BY <2>1, <2>2, <1>1, <1>2, <1>3 DEF Row, FollowsOn, Intents, States
  <2>4. QED
    BY <2>2, <2>3, <1>9, RowKeepsInv DEF FinishIncomplete
<1>10. CASE Acknowledge(p)
  <2> DEFINE s == [c EXCEPT !.acknowledged = TRUE]
  <2>1. s \in States
    BY <1>2 DEF States
  <2>2. Row(p, "acknowledged", s)
    BY <2>1, <1>1, <1>2, <1>3 DEF Row, FollowsOn, Intents, States
  <2>3. QED
    BY <2>1, <2>2, <1>10, RowKeepsInv DEF Acknowledge
<1>11. ASSUME NEW t \in Tools, ToolFinished(p, t)
       PROVE  JournalInv' /\ ClosedStep
  <2> DEFINE s == [c EXCEPT !.tools[t] = "returned"]
  <2>1. c.outcome = "none"
    BY <1>11 DEF ToolFinished, Unfinished
  <2>2. s \in States
    BY <1>2 DEF States
  <2>3. \A u \in Intents(c) : s.tools[u] \in {"intent", "returned"}
    BY <1>2 DEF Intents, States
  <2>4. Row(p, "tool_outcome", s)
    BY <2>1, <2>2, <2>3, <1>1, <1>2, <1>3 DEF Row, FollowsOn, States
  <2>5. QED
    BY <2>2, <2>4, <1>11, RowKeepsInv DEF ToolFinished
\* Rows of admitted work, which move the clock.
<1>12. ASSUME NEW now \in Clock, Admit(p, now)
       PROVE  /\ c.outcome = "none" /\ c.control = "running" /\ c.clock <= now
              /\ now \in 0 .. MaxClock
              /\ AtClock(p, now) \in States
              /\ AtClock(p, now) = [c EXCEPT !.clock = now]
  BY <1>2, <1>5, <1>12 DEF Admit, Unfinished, AtClock, States
<1>13. ASSUME NEW now \in Clock, Resume(p, now) \/ KeepRunning(p, now)
       PROVE  JournalInv' /\ ClosedStep
  <2> DEFINE s == AtClock(p, now)
  <2>1. Admit(p, now) /\ Append(p, "control", s)
    BY <1>13 DEF Resume, KeepRunning
  <2>2. /\ s \in States /\ s = [c EXCEPT !.clock = now] /\ c.clock <= now
        /\ c.outcome = "none" /\ c.control = "running" /\ now \in 0 .. MaxClock
    BY <2>1, <1>12
  <2>3. Row(p, "control", s)
    BY <2>2, <1>1, <1>2, <1>3 DEF Row, FollowsOn, Intents, States
  <2>4. QED
    BY <2>1, <2>2, <2>3, RowKeepsInv
<1>14. ASSUME NEW now \in Clock, RequestStarted(p, now)
       PROVE  JournalInv' /\ ClosedStep
  <2> DEFINE s == [AtClock(p, now) EXCEPT !.requests = @ + 1, !.pending = TRUE]
  <2>1. /\ Admit(p, now) /\ c.requests < MaxRounds
        /\ Append(p, "request", s)
    BY <1>14 DEF RequestStarted
  <2>2. /\ AtClock(p, now) \in States /\ AtClock(p, now) = [c EXCEPT !.clock = now]
        /\ c.clock <= now
        /\ c.outcome = "none" /\ c.control = "running" /\ now \in 0 .. MaxClock
    BY <2>1, <1>12
  <2>3. s \in States
    <3>1. c.requests + 1 \in 0 .. MaxRounds
      BY <2>1, <1>3
    <3>2. QED
      BY <3>1, <2>2, <1>2 DEF States
  <2>4. Row(p, "request", s)
    BY <2>2, <2>3, <1>1, <1>2, <1>3 DEF Row, FollowsOn, Intents, States
  <2>5. QED
    BY <2>1, <2>3, <2>4, RowKeepsInv
<1>15. ASSUME NEW now \in Clock, NEW t \in Tools, ToolStarted(p, now, t)
       PROVE  JournalInv' /\ ClosedStep
  <2> DEFINE s == [AtClock(p, now) EXCEPT !.tools[t] = "intent"]
  <2>1. Admit(p, now) /\ Append(p, "tool_intent", s)
    BY <1>15 DEF ToolStarted
  <2>2. /\ AtClock(p, now) \in States /\ AtClock(p, now) = [c EXCEPT !.clock = now]
        /\ c.clock <= now
        /\ c.outcome = "none" /\ c.control = "running" /\ now \in 0 .. MaxClock
    BY <2>1, <1>12
  <2>3. s \in States
    BY <2>2, <1>2 DEF States
  <2>4. \A u \in Intents(c) : s.tools[u] = "intent"
    BY <2>2, <1>2 DEF Intents, States
  <2>5. Row(p, "tool_intent", s)
    BY <2>2, <2>3, <2>4, <1>1, <1>2, <1>3 DEF Row, FollowsOn, States
  <2>6. QED
    BY <2>1, <2>3, <2>5, RowKeepsInv
<1>16. ASSUME NEW now \in Clock, NEW consumed \in 0 .. MaxMessages,
              Settle(p, now, consumed)
       PROVE  JournalInv' /\ ClosedStep
  <2> DEFINE s == [AtClock(p, now) EXCEPT !.messages = @ - consumed,
                                          !.pending = FALSE, !.tools = NoTools]
  <2>1. /\ Admit(p, now) /\ Intents(c) = {} /\ consumed <= c.messages
        /\ Append(p, "settled", s)
    BY <1>16 DEF Settle
  <2>2. /\ AtClock(p, now) \in States /\ AtClock(p, now) = [c EXCEPT !.clock = now]
        /\ c.clock <= now
        /\ c.outcome = "none" /\ c.control = "running" /\ now \in 0 .. MaxClock
    BY <2>1, <1>12
  <2>3. s \in States
    <3>1. c.messages - consumed \in 0 .. MaxMessages
      BY <2>1, <1>3
    <3>2. QED
      BY <3>1, <2>2, <1>2, <1>4 DEF States
  <2>4. Row(p, "settled", s)
    BY <2>1, <2>2, <2>3, <1>1, <1>2, <1>3 DEF Row, FollowsOn, States
  <2>5. QED
    BY <2>1, <2>3, <2>4, RowKeepsInv
<1>17. ASSUME NEW now \in Clock, Pause(p, now)
       PROVE  JournalInv' /\ ClosedStep
  <2> DEFINE s == [AtClock(p, now) EXCEPT !.control = "paused"]
  <2>1. Admit(p, now) /\ Append(p, "paused", s)
    BY <1>17 DEF Pause
  <2>2. /\ AtClock(p, now) \in States /\ AtClock(p, now) = [c EXCEPT !.clock = now]
        /\ c.clock <= now
        /\ c.outcome = "none" /\ c.control = "running" /\ now \in 0 .. MaxClock
    BY <2>1, <1>12
  <2>3. s \in States /\ s = [c EXCEPT !.control = "paused", !.clock = s.clock]
    BY <2>2, <1>2 DEF States
  <2>99. /\ s.control = "paused" /\ s.clock = now /\ s.deadline = c.deadline
        /\ s.requests = c.requests /\ s.tools = c.tools
        /\ s.acknowledged = c.acknowledged
    BY <2>2, <1>2 DEF States
  <2> HIDE DEF s
  <2>4. Row(p, "paused", s)
    <3>1. s.requests \in c.requests .. c.requests + 1
      BY <2>99, <1>3
    <3>2. FollowsOn(c, view[p].started, "paused", s)
      BY <2>2, <2>3, <2>99, <3>1 DEF FollowsOn
    <3>3. \A t \in Intents(c) : s.tools[t] = "intent"
      BY <2>99 DEF Intents
    <3>4. QED
      BY <2>2, <2>3, <2>99, <3>2, <3>3, <1>1 DEF Row
  <2>5. QED
    BY <2>1, <2>3, <2>4, RowKeepsInv
<1>18. ASSUME NEW now \in Clock, Unpause(p, now)
       PROVE  JournalInv' /\ ClosedStep
  <2> DEFINE s == [AtClock(p, now) EXCEPT !.control = "running",
                                          !.deadline = @ + Credit(p, now)]
  <2>1. /\ c.outcome = "none" /\ c.control = "paused" /\ view[p].started # 0
        /\ c.clock <= now /\ Append(p, "resumed", s)
    BY <1>18 DEF Unpause, Unfinished
  <2>2. c.clock = view[p].started /\ Credit(p, now) = now - view[p].started
    BY <2>1, <1>2 DEF Credit
  <2>3. now \in 0 .. MaxClock /\ AtClock(p, now) = [c EXCEPT !.clock = now]
    BY <1>5 DEF AtClock
  <2>4. c.deadline + Credit(p, now) \in 0 .. 2 * MaxClock
    BY <2>1, <2>2, <2>3, <1>2, <1>3
  <2>5. s \in States
    BY <2>3, <2>4, <1>2 DEF States
  <2>6. s = [c EXCEPT !.control = "running", !.clock = s.clock,
                      !.deadline = @ + (s.clock - view[p].started)]
    BY <2>2, <2>3, <1>2 DEF States
  <2>99. /\ s.control = "running" /\ s.clock = now
        /\ s.requests = c.requests /\ s.tools = c.tools
        /\ s.acknowledged = c.acknowledged
    BY <2>3, <1>2 DEF States
  <2> HIDE DEF s
  <2>7. Row(p, "resumed", s)
    BY <2>1, <2>2, <2>3, <2>5, <2>6, <2>99, <1>1, <1>2, <1>3
       DEF Row, FollowsOn, Intents
  <2>8. QED
    BY <2>1, <2>5, <2>7, RowKeepsInv
<1>19. ASSUME NEW now \in Clock, UnpauseUncredited(p, now)
       PROVE  JournalInv' /\ ClosedStep
  <2> DEFINE s == [AtClock(p, now) EXCEPT !.control = "running"]
  <2>1. /\ c.outcome = "none" /\ c.clock <= now /\ Append(p, "control", s)
        /\ now \in 0 .. MaxClock /\ AtClock(p, now) = [c EXCEPT !.clock = now]
    BY <1>5, <1>19 DEF UnpauseUncredited, Unfinished, AtClock
  <2>2. s \in States
    BY <2>1, <1>2 DEF States
  <2>3. c.control = "paused"
    BY <1>19 DEF UnpauseUncredited
  <2>99. /\ s.control = "running" /\ s.clock = now /\ s.deadline = c.deadline
        /\ s.requests = c.requests /\ s.tools = c.tools
        /\ s.acknowledged = c.acknowledged
    BY <2>1, <1>2 DEF States
  <2> HIDE DEF s
  <2>4. Row(p, "control", s)
    BY <2>1, <2>2, <2>3, <2>99, <1>1, <1>2, <1>3 DEF Row, FollowsOn, Intents
  <2>5. QED
    BY <2>1, <2>2, <2>4, RowKeepsInv
<1>20. ASSUME NEW now \in Clock, FinishCompleted(p, now)
       PROVE  JournalInv' /\ ClosedStep
  <2> DEFINE s == [AtClock(p, now) EXCEPT !.outcome = "completed",
                                          !.pending = FALSE, !.tools = NoTools]
  <2>1. Admit(p, now) /\ Intents(c) = {} /\ Append(p, "finished", s)
    BY <1>20 DEF FinishCompleted
  <2>2. /\ AtClock(p, now) \in States /\ AtClock(p, now) = [c EXCEPT !.clock = now]
        /\ c.clock <= now
        /\ c.outcome = "none" /\ c.control = "running" /\ now \in 0 .. MaxClock
    BY <2>1, <1>12
  <2>3. s \in States
    BY <2>2, <1>2, <1>4 DEF States
  <2>99. /\ s.control = "running" /\ s.clock = now /\ s.deadline = c.deadline
        /\ s.requests = c.requests /\ s.acknowledged = c.acknowledged
    BY <2>2, <1>2 DEF States
  <2> HIDE DEF s
  <2>4. Row(p, "finished", s)
    BY <2>1, <2>2, <2>3, <2>99, <1>1, <1>2, <1>3 DEF Row, FollowsOn
  <2>5. QED
    BY <2>1, <2>3, <2>4, RowKeepsInv
<1>21. QED
  BY <1>6, <1>7, <1>8, <1>9, <1>10, <1>11, <1>13, <1>14, <1>15, <1>16, <1>17,
     <1>18, <1>19, <1>20 DEF Operate

-----------------------------------------------------------------------------

\* create writes the first row of an empty ledger.
LEMMA CreateKeepsInv ==
  ASSUME JournalInv, NEW p \in Procs, NEW now \in Clock, NEW deadline \in Clock,
         Create(p, now, deadline)
  PROVE  JournalInv' /\ ClosedStep
<1> USE LimitAssumption
<1> DEFINE s == [NoState EXCEPT !.clock = now, !.deadline = deadline,
                                !.control = "running"]
<1>1. lock = p /\ ~failed[p] /\ view[p].seq = 0 /\ now < deadline
  BY DEF Create, InTime
<1>2. /\ view[p] = [state |-> ledger.state, seq |-> ledger.seq,
                    started |-> ledger.started]
      /\ ledger.seq = 0 /\ ledger.readable /\ ledger.state = NoState
      /\ active = 0 /\ sent = 0 /\ entered = {}
  BY <1>1 DEF JournalInv, ViewIsLedger, OpenIsReadable, EmptyIsUnused
<1>3. ledger.state \in States /\ view \in [Procs -> Views]
      /\ failed \in [Procs -> BOOLEAN] /\ torn \in BOOLEAN
  BY DEF JournalInv, TypeOK
<1>4. /\ now \in 0 .. MaxClock /\ deadline \in 0 .. 2 * MaxClock
      /\ deadline - now \in 0 .. MaxClock /\ 0 \in 0 .. MaxClock
  BY <1>1 DEF Clock
<1>5. NoState.requests = 0 /\ NoState.control = "none" /\ NoState.outcome = "none"
  BY DEF NoState
<1>6. /\ s \in States /\ s.clock = now /\ s.deadline = deadline
      /\ s.control = "running" /\ s.requests = 0
  BY <1>2, <1>3, <1>4, <1>5 DEF States
<1> HIDE DEF s
<1>7. ClosedStep
  BY <1>2, <1>5 DEF ClosedStep
<1>8. ASSUME Writable(p, s),
             ledger' = [state |-> s, seq |-> 1, started |-> 0, readable |-> TRUE],
             allowance' = deadline - now,
             \/ /\ view' = [view EXCEPT ![p] = [state |-> s, seq |-> 1, started |-> 0]]
                /\ UNCHANGED failed
             \/ Latch(p),
             UNCHANGED <<lock, torn, active, sent, entered>>
      PROVE  JournalInv'
  <2>1. 1 \in 0 .. MaxRows
    BY <1>2, <1>8 DEF Writable
  <2>2. /\ view' \in [Procs -> Views] /\ failed' \in [Procs -> BOOLEAN]
        /\ \A q \in Procs : q # p => view'[q] = view[q] /\ failed'[q] = failed[q]
        /\ ~failed'[p] => view'[p] = [state |-> s, seq |-> 1, started |-> 0]
    <3>1. [state |-> s, seq |-> 1, started |-> 0] \in Views
      BY <1>4, <1>6, <2>1 DEF Views
    <3>2. QED
      BY <3>1, <1>3, <1>8 DEF Latch
  <2>3. TypeOK'
    <3>1. ledger' \in [state : States, seq : 0 .. MaxRows,
                       started : 0 .. MaxClock, readable : BOOLEAN]
      BY <1>4, <1>6, <1>8, <2>1
    <3>2. QED
      BY <3>1, <1>4, <1>8, <2>2 DEF JournalInv, TypeOK
  <2>4. ClosedUnlessLocked' /\ OpenIsReadable' /\ ViewIsLedger' /\ LedgerReloads'
    BY <1>1, <1>8, <2>2 DEF JournalInv, ClosedUnlessLocked, OpenIsReadable,
      ViewIsLedger, LedgerReloads
  <2>5. RowIsValid'
    BY <1>6, <1>8 DEF RowIsValid, Writable
  <2>6. EmptyIsUnused' /\ StartIsClock' /\ TimeKept' /\ RequestsOnRecord'
        /\ NoEffectForgotten'
    BY <1>2, <1>4, <1>6, <1>8 DEF EmptyIsUnused, StartIsClock, TimeKept,
      RequestsOnRecord, NoEffectForgotten
  <2>7. QED
    BY <2>3, <2>4, <2>5, <2>6 DEF JournalInv
<1>9. CASE Truncated(p) \/ NothingWritten(p)
  BY <1>1, <1>7, <1>9, LatchedKeepsInv
<1>10. QED
  BY <1>7, <1>8, <1>9 DEF Create, s

\* Opening, closing and a storage error between operations.
LEMMA OpenKeepsInv ==
  ASSUME JournalInv, NEW p \in Procs, Open(p)
  PROVE  JournalInv' /\ ClosedStep
<1> DEFINE v == [state |-> ledger.state, seq |-> ledger.seq,
                 started |-> ledger.started]
<1>1. /\ lock = NoProc /\ ledger.readable /\ lock' = p
      /\ view' = [view EXCEPT ![p] = v]
      /\ UNCHANGED <<ledger, failed, torn, allowance, active, sent, entered>>
  BY DEF Open
<1>2. view \in [Procs -> Views] /\ v \in Views
  BY DEF JournalInv, TypeOK, Views
<1>3. TypeOK'
  BY <1>1, <1>2 DEF JournalInv, TypeOK
<1>4. view'[p] = v /\ \A q \in Procs : q # p => view'[q] = view[q]
  BY <1>1, <1>2
<1>5. \A q \in Procs : view[q] = NoView /\ ~failed[q]
  BY <1>1, NoProcAssumption DEF JournalInv, ClosedUnlessLocked
<1>6. ClosedUnlessLocked' /\ OpenIsReadable' /\ ViewIsLedger' /\ LedgerReloads'
  BY <1>1, <1>4, <1>5 DEF ClosedUnlessLocked, OpenIsReadable, ViewIsLedger,
    LedgerReloads
<1>7. QED
  BY <1>1, <1>3, <1>6 DEF JournalInv, EmptyIsUnused, RowIsValid, StartIsClock,
    TimeKept, RequestsOnRecord, NoEffectForgotten, ClosedStep

LEMMA CloseKeepsInv ==
  ASSUME JournalInv, NEW p \in Procs, Close(p)
  PROVE  JournalInv' /\ ClosedStep
<1> USE LimitAssumption
<1>1. NoView \in Views
  <2>1. NoTools \in [Tools -> {"unused", "intent", "returned"}]
    BY DEF NoTools
  <2>2. NoState \in States
    BY <2>1 DEF NoState, States
  <2>3. QED
    BY <2>2 DEF NoView, Views
<1>2. view \in [Procs -> Views] /\ failed \in [Procs -> BOOLEAN]
  BY DEF JournalInv, TypeOK
<1>3. /\ view'[p] = NoView /\ ~failed'[p]
      /\ \A q \in Procs : q # p => view'[q] = view[q] /\ failed'[q] = failed[q]
  BY <1>2 DEF Close
<1>4. TypeOK'
  BY <1>1, <1>2 DEF JournalInv, TypeOK, Close
<1>5. ClosedUnlessLocked' /\ OpenIsReadable' /\ ViewIsLedger' /\ LedgerReloads'
  BY <1>3, NoProcAssumption DEF JournalInv, ClosedUnlessLocked, OpenIsReadable,
    ViewIsLedger, LedgerReloads, Close
<1>6. QED
  BY <1>4, <1>5 DEF JournalInv, EmptyIsUnused, RowIsValid, StartIsClock,
    TimeKept, RequestsOnRecord, NoEffectForgotten, ClosedStep, Close

LEMMA NextKeepsInv == JournalInv /\ [Next]_vars => JournalInv'
<1> SUFFICES ASSUME JournalInv, [Next]_vars PROVE JournalInv'
  OBVIOUS
<1>1. ASSUME NEW p \in Procs, Open(p) PROVE JournalInv'
  BY <1>1, OpenKeepsInv
<1>2. ASSUME NEW p \in Procs, Close(p) PROVE JournalInv'
  BY <1>2, CloseKeepsInv
<1>3. ASSUME NEW p \in Procs, StorageFails(p) PROVE JournalInv'
  BY <1>3, LatchedKeepsInv DEF StorageFails
<1>4. ASSUME NEW p \in Procs, Operate(p) PROVE JournalInv'
  BY <1>4, OperationWritesRow, CreateKeepsInv
<1>5. CASE UNCHANGED vars
  BY <1>5 DEF vars, JournalInv, TypeOK, ClosedUnlessLocked, OpenIsReadable,
    ViewIsLedger, LedgerReloads, EmptyIsUnused, RowIsValid, StartIsClock, TimeKept,
    RequestsOnRecord, NoEffectForgotten
<1>6. QED
  BY <1>1, <1>2, <1>3, <1>4, <1>5 DEF Next

LEMMA NextStaysClosed == JournalInv /\ [Next]_vars => [ClosedStep]_vars
<1> SUFFICES ASSUME JournalInv, Next PROVE ClosedStep
  OBVIOUS
<1>1. ASSUME NEW p \in Procs, Open(p) \/ Close(p) PROVE ClosedStep
  BY <1>1, OpenKeepsInv, CloseKeepsInv
<1>2. ASSUME NEW p \in Procs, StorageFails(p) PROVE ClosedStep
  BY <1>2 DEF StorageFails, NothingWritten, ClosedStep
<1>3. ASSUME NEW p \in Procs, Operate(p) PROVE ClosedStep
  BY <1>3, OperationWritesRow, CreateKeepsInv
<1>4. QED
  BY <1>1, <1>2, <1>3 DEF Next

-----------------------------------------------------------------------------

\* The invariant of the journal.
THEOREM JournalInvariant == Spec => []JournalInv
BY InitInv, NextKeepsInv, PTL DEF Spec

\* The state of the journal has its type, and the deadline its bound.
THEOREM TypeCorrect == Spec => []TypeOK
<1>1. JournalInv => TypeOK
  BY DEF JournalInv
<1>2. QED
  BY <1>1, JournalInvariant, PTL

\* A driver that may still write has the state a reader of the file would have.
THEOREM DriverSeesLedger == Spec => []ViewIsLedger
<1>1. JournalInv => ViewIsLedger
  BY DEF JournalInv
<1>2. QED
  BY <1>1, JournalInvariant, PTL

\* What the operations write, in any order, _load reads back.
THEOREM LedgersReload == Spec => []LedgerReloads
<1>1. JournalInv => LedgerReloads
  BY DEF JournalInv
<1>2. QED
  BY <1>1, JournalInvariant, PTL

\* Pauses, restarts and a stepped clock do not stretch the time a run is given.
THEOREM ActiveTimeIsBounded == Spec => []ActiveTimeBounded
<1>1. JournalInv => ActiveTimeBounded
  <2> SUFFICES ASSUME JournalInv, ledger.seq > 0 PROVE active < allowance
    BY DEF ActiveTimeBounded
  <2>1. /\ ledger.state.clock < ledger.state.deadline
        /\ ledger.state.deadline + active <= ledger.state.clock + allowance
    BY DEF JournalInv, RowIsValid, Valid, InTime, TimeKept
  <2>2. /\ ledger.state.clock \in Nat /\ ledger.state.deadline \in Nat
        /\ active \in Nat /\ allowance \in Nat
    BY LimitAssumption DEF JournalInv, TypeOK, States
  <2>3. QED
    BY <2>1, <2>2
<1>2. QED
  BY <1>1, JournalInvariant, PTL

\* Every request that left is on disk and counted.
THEOREM RequestsAreOnRecord == Spec => []RequestsOnRecord
<1>1. JournalInv => RequestsOnRecord
  BY DEF JournalInv
<1>2. QED
  BY <1>1, JournalInvariant, PTL

\* A tool call without an outcome on disk stays open on disk.
THEOREM EffectsAreRemembered == Spec => []NoEffectForgotten
<1>1. JournalInv => NoEffectForgotten
  BY DEF JournalInv
<1>2. QED
  BY <1>1, JournalInvariant, PTL

\* A stopped or finished run lets nothing out any more.
THEOREM ClosedRunsStayClosed == Spec => ClosedForGood
BY JournalInvariant, NextStaysClosed, PTL DEF Spec, ClosedForGood
=============================================================================
