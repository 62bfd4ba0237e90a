-------------------------- MODULE SleepwalkProofs --------------------------
(***************************************************************************)
(* Proofs about Sleepwalk for every set of processes, automations and      *)
(* slots, every clock and every number of edits and failures.              *)
(*                                                                         *)
(* SleepInv is inductive.  Data is about the store and the history alone:  *)
(* a claim moves "last" to its slot and leaves a mark, a record takes at   *)
(* most the mark of the slot it counts.  Places says that only the process *)
(* with the scheduler lock has runs, and none of its own while it recovers *)
(* the runs of an earlier one.  Counted is the account of one slot: what   *)
(* is recorded, and what a mark, a run, a loaded mark or a thread about to *)
(* note a skip may still record, never exceed what was claimed, unless a   *)
(* recording was cut in two.                                               *)
(***************************************************************************)
EXTENDS Sleepwalk, FiniteSetTheorems, TLAPS

Entries ==
  [kept : BOOLEAN, enabled : BOOLEAN, missed : {"run_once", "skip"},
   last : 0 .. MaxTime, marks : [SlotTimes -> Nat]]

Ticks ==
  [at : {"none", "late", "marks", "recover", "read", "scan", "note"},
   marks : [Slots -> Nat],
   found : SUBSET (Automations \X SlotTimes \X BOOLEAN),
   skip : SUBSET Slots, start : SUBSET Slots]

----------------------------------------------------------------------------
(* The store and the history.                                              *)

DataTyped ==
  /\ now \in 0 .. MaxTime
  /\ store \in [Automations -> Entries]
  /\ records \in [Slots -> [Kinds -> Nat]]
  /\ claims \in [Slots -> Nat] /\ passed \in [Slots -> Nat]

Claimed(c) == claims[c] + passed[c]

\* A slot that was claimed is not later than the last one handled.
LastHolds ==
  \A c \in Slots : Claimed(c) > 0 => c[1] \in rewound \/ c[2] <= store[c[1]].last

Data ==
  /\ DataTyped
  /\ \A c \in Slots : Marks(c) <= claims[c]
  /\ MarkedUntilRecorded /\ LastHolds /\ ClaimedOnce

----------------------------------------------------------------------------
(* Where the runs are.                                                     *)

PlaceTyped ==
  /\ firing \in Procs \cup {NoProc}
  /\ running \in [Automations -> {NoRun, Manual} \cup Procs \X SlotTimes]
  /\ phase \in [Procs -> {"closed", "open", "stopping", "stopped"}]
  /\ tick \in [Procs -> Ticks]
  /\ tasks \in [Procs -> SUBSET Slots]

Going(p, c) == running[c[1]] = <<p, c[2]>>

Idle(p) == tasks[p] = {} /\ \A c \in Slots : ~Going(p, c)

\* Only the process with the lock has runs, or a tick while it is open; what
\* another one goes on recovering is hurt.  One that has stopped has no runs,
\* although a late thread of it may have the lock.
Place(p) ==
  /\ firing = p => phase[p] # "closed"
  /\ phase[p] = "stopped" => Idle(p)
  /\ firing # p => Idle(p) /\ Left(tick[p]) \subseteq hurt
  /\ firing # p /\ phase[p] = "open" => tick[p].at = "none"
  /\ phase[p] = "closed" => tick[p].at = "none"
  /\ phase[p] # "open" => tasks[p] = {}
  /\ tick[p].at \in {"none", "late", "marks", "recover", "read"} => tick[p].start = {}
  /\ tick[p].at \in {"marks", "recover"} /\ firing = p => Idle(p)
  /\ tick[p].at # "recover" => Left(tick[p]) = {}

Places == \A p \in Procs : Place(p)

----------------------------------------------------------------------------
(* The account of a slot.                                                  *)

One(b) == IF b THEN 1 ELSE 0

Starting(c) == \E p \in Procs : phase[p] = "open" /\ c \in tick[p].start
Waiting(c)  == \E p \in Procs : c \in tasks[p]
Underway(c) == \E p \in Procs : Going(p, c)
Runs(c) == One(Starting(c)) + One(Waiting(c)) + One(Underway(c))

Skipping(c) == {p \in Procs : c \in tick[p].skip}
Noted(c) == Recordings(c) + Cardinality(Skipping(c))

Counted(c) ==
  /\ IsFiniteSet(Skipping(c))
  /\ c \notin hurt =>
       /\ Noted(c) + Marks(c) <= Claimed(c)
       /\ Noted(c) + Runs(c) <= Claimed(c)
       /\ \A p \in Procs : firing = p => Noted(c) + tick[p].marks[c] <= Claimed(c)

Account == \A c \in Slots : Counted(c)

\* The inductive invariant.
SleepInv == Data /\ PlaceTyped /\ Places /\ Account

----------------------------------------------------------------------------
(* Helpers.                                                                *)

LEMMA FewerElements ==
  ASSUME NEW S, NEW T, IsFiniteSet(S), T \subseteq S
  PROVE  /\ IsFiniteSet(T) /\ Cardinality(T) \in Nat /\ Cardinality(S) \in Nat
         /\ Cardinality(T) <= Cardinality(S)
         /\ \A x \in S \ T : Cardinality(T) + 1 <= Cardinality(S)
<1>1. /\ IsFiniteSet(T) /\ Cardinality(T) \in Nat /\ Cardinality(S) \in Nat
      /\ Cardinality(T) <= Cardinality(S)
  BY FS_Subset, FS_CardinalityType
<1>2. ASSUME NEW x \in S \ T PROVE Cardinality(T) + 1 <= Cardinality(S)
  <2>1. T # S
    BY <1>2
  <2> QED BY <1>1, <2>1, FS_Subset
<1> QED BY <1>1, <1>2

LEMMA OneMore ==
  ASSUME NEW S, NEW T, NEW x, IsFiniteSet(S), T \subseteq S \cup {x}
  PROVE  /\ IsFiniteSet(T) /\ Cardinality(T) \in Nat /\ Cardinality(S) \in Nat
         /\ Cardinality(T) <= Cardinality(S) + 1
<1>1. /\ IsFiniteSet(S \cup {x}) /\ Cardinality(S) \in Nat
      /\ Cardinality(S \cup {x}) <= Cardinality(S) + 1
  <2>1. /\ IsFiniteSet(S \cup {x})
        /\ Cardinality(S \cup {x}) = IF x \in S THEN Cardinality(S) ELSE Cardinality(S) + 1
    BY FS_AddElement
  <2>2. Cardinality(S) \in Nat
    BY FS_CardinalityType
  <2> QED BY <2>1, <2>2
<1>2. Cardinality(T) \in Nat /\ Cardinality(T) <= Cardinality(S \cup {x})
  BY <1>1, FewerElements
<1>3. IsFiniteSet(T) /\ Cardinality(S \cup {x}) \in Nat
  BY <1>1, FewerElements
<1> QED BY <1>1, <1>2, <1>3

LEMMA SlotParts ==
  ASSUME NEW c \in Slots
  PROVE  c[1] \in Automations /\ c[2] \in SlotTimes /\ c = <<c[1], c[2]>>
         /\ c[2] \in Nat /\ c[2] <= MaxTime
<1>1. c[1] \in Automations /\ c[2] \in SlotTimes /\ c = <<c[1], c[2]>>
  BY DEF Slots
<1>2. c[2] \in 1 .. MaxTime /\ MaxTime \in Nat
  BY <1>1, SlotAssumption, BoundAssumption
<1> QED BY <1>1, <1>2

LEMMA DataNumbers ==
  ASSUME DataTyped, NEW c \in Slots
  PROVE  /\ Marks(c) \in Nat /\ claims[c] \in Nat /\ passed[c] \in Nat /\ Claimed(c) \in Nat
         /\ records[c].ended \in Nat /\ records[c].skipped \in Nat /\ records[c].interrupted \in Nat
         /\ Recordings(c) \in Nat
         /\ store[c[1]] \in Entries /\ store[c[1]].last \in Nat
<1>1. /\ store[c[1]] \in Entries /\ c[2] \in SlotTimes
      /\ claims[c] \in Nat /\ passed[c] \in Nat
      /\ records[c] \in [Kinds -> Nat]
  BY SlotParts DEF DataTyped
<1>2. "ended" \in Kinds /\ "skipped" \in Kinds /\ "interrupted" \in Kinds
  BY DEF Kinds
<1>3. /\ records[c].ended \in Nat /\ records[c].skipped \in Nat /\ records[c].interrupted \in Nat
  BY <1>1, <1>2
<1>4. Marks(c) \in Nat /\ store[c[1]].last \in Nat
  BY <1>1, BoundAssumption DEF Marks, Entries
<1> QED BY <1>1, <1>3, <1>4 DEF Claimed, Recordings

LEMMA RunNumbers ==
  ASSUME NEW c \in Slots
  PROVE  /\ Runs(c) \in 0 .. 3
         /\ Starting(c) \/ Waiting(c) \/ Underway(c) => Runs(c) >= 1
         /\ ~Starting(c) /\ ~Waiting(c) /\ ~Underway(c) => Runs(c) = 0
<1>1. One(Starting(c)) = IF Starting(c) THEN 1 ELSE 0
  BY DEF One
<1>2. One(Waiting(c)) = IF Waiting(c) THEN 1 ELSE 0
  BY DEF One
<1>3. One(Underway(c)) = IF Underway(c) THEN 1 ELSE 0
  BY DEF One
<1> HIDE DEF One
<1> QED BY <1>1, <1>2, <1>3 DEF Runs

LEMMA DataStands ==
  ASSUME Data, UNCHANGED <<store, records, claims, passed>>, rewound \subseteq rewound',
         now' \in 0 .. MaxTime
  PROVE  Data'
BY DEF Data, DataTyped, MarkedUntilRecorded, LastHolds, ClaimedOnce, Marks, Recordings, Claimed

----------------------------------------------------------------------------
(* Writes of the store.                                                    *)

LEMMA UnmarkFacts ==
  ASSUME DataTyped, NEW c \in Slots, NEW n \in Nat, Unmark(c, n)
  PROVE  /\ store' \in [Automations -> Entries]
         /\ \A a \in Automations : store'[a].kept = store[a].kept /\ store'[a].last = store[a].last
         /\ \A d \in Slots : Marks(d)' = IF d # c THEN Marks(d)
                                         ELSE IF Marks(c) > n THEN Marks(c) - n ELSE 0
<1> DEFINE left == IF Marks(c) > n THEN Marks(c) - n ELSE 0
<1>1. left \in Nat
  BY DataNumbers
<1>2. store' = [store EXCEPT ![c[1]].marks[c[2]] = left]
  BY DEF Unmark, Marks
<1> HIDE DEF left
<1>3. store \in [Automations -> Entries] /\ c[1] \in Automations /\ c[2] \in SlotTimes
  BY SlotParts DEF DataTyped
<1>4. store' \in [Automations -> Entries]
  BY <1>1, <1>2, <1>3 DEF Entries
<1>5. \A a \in Automations : store'[a].kept = store[a].kept /\ store'[a].last = store[a].last
  BY <1>1, <1>2, <1>3 DEF Entries
<1>6. ASSUME NEW d \in Slots
      PROVE  Marks(d)' = IF d # c THEN Marks(d) ELSE left
  <2>1. d[1] \in Automations /\ d[2] \in SlotTimes /\ (d[1] = c[1] /\ d[2] = c[2] => d = c)
    BY SlotParts
  <2>2. store'[d[1]].marks[d[2]] = IF d[1] = c[1] /\ d[2] = c[2] THEN left ELSE store[d[1]].marks[d[2]]
    BY <1>1, <1>2, <1>3, <2>1 DEF Entries
  <2> QED BY <2>1, <2>2 DEF Marks
<1> QED BY <1>4, <1>5, <1>6 DEF left

LEMMA RecordFacts ==
  ASSUME DataTyped, NEW c \in Slots, NEW kind \in Kinds, NEW n \in Nat, Record(c, kind, n)
  PROVE  /\ records' \in [Slots -> [Kinds -> Nat]]
         /\ \A d \in Slots : /\ Recordings(d)' = IF d = c THEN Recordings(c) + n ELSE Recordings(d)
                             /\ d # c \/ kind # "interrupted" =>
                                  records'[d].interrupted = records[d].interrupted
<1>1. records \in [Slots -> [Kinds -> Nat]] /\ records' = [records EXCEPT ![c][kind] = @ + n]
  BY DEF DataTyped, Record
<1>2. records' \in [Slots -> [Kinds -> Nat]]
  BY <1>1
<1>3. ASSUME NEW d \in Slots
      PROVE  \A k \in Kinds : records'[d][k] = IF d = c /\ k = kind THEN records[d][k] + n
                                                ELSE records[d][k]
  BY <1>1
<1>4. ASSUME NEW d \in Slots
      PROVE  /\ Recordings(d)' = IF d = c THEN Recordings(c) + n ELSE Recordings(d)
             /\ d # c \/ kind # "interrupted" => records'[d].interrupted = records[d].interrupted
  <2>1. /\ records'[d].ended = IF d = c /\ kind = "ended" THEN records[d].ended + n ELSE records[d].ended
        /\ records'[d].skipped = IF d = c /\ kind = "skipped" THEN records[d].skipped + n
                                 ELSE records[d].skipped
        /\ records'[d].interrupted = IF d = c /\ kind = "interrupted" THEN records[d].interrupted + n
                                     ELSE records[d].interrupted
    BY <1>3 DEF Kinds
  <2>2. /\ records[d].ended \in Nat /\ records[d].skipped \in Nat /\ records[d].interrupted \in Nat
    BY DataNumbers
  <2> QED BY <2>1, <2>2 DEF Recordings, Kinds
<1> QED BY <1>2, <1>4

LEMMA DataRecorded ==
  ASSUME Data, NEW c \in Slots, NEW kind \in Kinds, NEW n \in Nat, NEW m \in Nat, m <= n,
         Record(c, kind, n), Unmark(c, m) \/ UNCHANGED store,
         UNCHANGED <<now, claims, passed, rewound>>
  PROVE  Data'
<1>1. DataTyped
  BY DEF Data
<1>2. /\ store' \in [Automations -> Entries]
      /\ \A a \in Automations : store'[a].kept = store[a].kept /\ store'[a].last = store[a].last
      /\ \A d \in Slots : \/ Marks(d)' = Marks(d)
                          \/ d = c /\ Marks(d)' = IF Marks(c) > m THEN Marks(c) - m ELSE 0
  <2>1. CASE Unmark(c, m)
    BY <1>1, <2>1, UnmarkFacts
  <2>2. CASE UNCHANGED store
    BY <1>1, <2>2 DEF DataTyped, Marks
  <2> QED BY <2>1, <2>2
<1>3. /\ records' \in [Slots -> [Kinds -> Nat]]
      /\ \A d \in Slots : Recordings(d)' = IF d = c THEN Recordings(c) + n ELSE Recordings(d)
  BY <1>1, RecordFacts
<1>4. DataTyped'
  BY <1>1, <1>2, <1>3 DEF DataTyped
<1>5. ASSUME NEW d \in Slots
      PROVE  /\ Marks(d)' <= claims'[d]
             /\ store'[d[1]].kept => claims'[d] <= Marks(d)' + Recordings(d)'
  <2>1. /\ Marks(d) <= claims[d]
        /\ store[d[1]].kept => claims[d] <= Marks(d) + Recordings(d)
    BY DEF Data, MarkedUntilRecorded
  <2>2. /\ Marks(d) \in Nat /\ claims[d] \in Nat /\ Recordings(d) \in Nat
        /\ d[1] \in Automations
    BY <1>1, DataNumbers, SlotParts
  <2>3. store'[d[1]].kept = store[d[1]].kept /\ claims'[d] = claims[d]
    BY <1>2, <2>2
  <2>4. CASE d = c
    BY <1>2, <1>3, <2>1, <2>2, <2>3, <2>4
  <2>5. CASE d # c
    BY <1>2, <1>3, <2>1, <2>2, <2>3, <2>5
  <2> QED BY <2>4, <2>5
<1>6. MarkedUntilRecorded' /\ \A d \in Slots : Marks(d)' <= claims'[d]
  BY <1>5 DEF MarkedUntilRecorded, Marks, Recordings
<1>7. LastHolds' /\ ClaimedOnce'
  BY <1>2, SlotParts DEF Data, LastHolds, ClaimedOnce, Claimed
<1> QED BY <1>4, <1>6, <1>7 DEF Data

\* One recording, whole or cut in two.
LEMMA Recording1 ==
  ASSUME Data, NEW c \in Slots, NEW kind \in Kinds,
         Recorded(c, kind) \/ RecordingFails(c, kind),
         UNCHANGED <<now, claims, passed, rewound>>
  PROVE  /\ Data' /\ hurt \subseteq hurt'
         /\ \A d \in Slots :
              /\ Claimed(d)' = Claimed(d)
              /\ d # c \/ kind # "interrupted" => records'[d].interrupted = records[d].interrupted
              /\ d \notin hurt' =>
                   \/ Recordings(d)' = Recordings(d) /\ Marks(d)' = Marks(d)
                   \/ /\ d = c /\ Recordings(d)' = Recordings(d) + 1
                      /\ Marks(d)' = IF Marks(d) > 1 THEN Marks(d) - 1 ELSE 0
<1>1. \A d \in Slots : Claimed(d)' = Claimed(d)
  BY DEF Claimed
<1>2. CASE UNCHANGED <<records, store, hurt>>
  BY <1>1, <1>2, DataStands DEF Data, DataTyped, Recordings, Marks
<1>3. CASE Record(c, kind, 1) /\ UNCHANGED store /\ hurt' = hurt \cup {c}
  <2>1. Data'
    BY <1>3, DataRecorded
  <2>2. \A d \in Slots : Marks(d)' = Marks(d)
    BY <1>3 DEF Marks
  <2>3. DataTyped
    BY DEF Data
  <2> QED BY <1>1, <1>3, <2>1, <2>2, <2>3, RecordFacts
<1>4. CASE Record(c, kind, 1) /\ Unmark(c, 1) /\ hurt' \in {hurt, hurt \cup {c}}
  <2>1. Data'
    BY <1>4, DataRecorded
  <2>2. DataTyped
    BY DEF Data
  <2>3. \A d \in Slots : Marks(d)' = IF d # c THEN Marks(d)
                                     ELSE IF Marks(c) > 1 THEN Marks(c) - 1 ELSE 0
    BY <1>4, <2>2, UnmarkFacts
  <2>4. \A d \in Slots : /\ Recordings(d)' = IF d = c THEN Recordings(c) + 1 ELSE Recordings(d)
                         /\ d # c \/ kind # "interrupted" =>
                                records'[d].interrupted = records[d].interrupted
    BY <1>4, <2>2, RecordFacts
  <2> QED BY <1>1, <1>4, <2>1, <2>3, <2>4
<1> QED BY <1>2, <1>3, <1>4 DEF Recorded, RecordingFails

\* One claim.
LEMMA ClaimFacts ==
  ASSUME Data, NEW a \in Automations, NEW s \in SlotTimes, NEW skip \in BOOLEAN, s \in Due(a),
         Handled(a, s, skip), Count(<<a, s>>, skip), UNCHANGED <<now, records, rewound>>
  PROVE  /\ Data'
         /\ \A d \in Slots :
              /\ Recordings(d)' = Recordings(d)
              /\ d # <<a, s>> => Claimed(d)' = Claimed(d) /\ Marks(d)' = Marks(d)
              /\ d = <<a, s>> => /\ Claimed(d)' = Claimed(d) + 1
                                 /\ Marks(d)' = Marks(d) + IF skip THEN 0 ELSE 1
<1> DEFINE c == <<a, s>>
           more == IF skip THEN 0 ELSE 1
<1>1. DataTyped /\ c \in Slots /\ s \in Nat /\ s \in 0 .. MaxTime /\ more \in {0, 1}
  <2>1. s \in 1 .. MaxTime /\ MaxTime \in Nat
    BY SlotAssumption, BoundAssumption
  <2> QED BY <2>1 DEF Data, Slots
<1>2. store \in [Automations -> Entries] /\ store' = [store EXCEPT ![a].last = s, ![a].marks[s] = @ + more]
  BY DEF Handled, Data, DataTyped
<1>3. /\ claims \in [Slots -> Nat] /\ passed \in [Slots -> Nat]
      /\ claims' \in [Slots -> Nat] /\ passed' \in [Slots -> Nat]
      /\ \A d \in Slots \ {c} : claims'[d] = claims[d] /\ passed'[d] = passed[d]
      /\ claims'[c] = claims[c] + more /\ passed'[c] = passed[c] + (1 - more)
  <2>1. claims \in [Slots -> Nat] /\ passed \in [Slots -> Nat]
    BY <1>1 DEF DataTyped
  <2>2. CASE skip
    <3>1. claims' = claims /\ passed' = [passed EXCEPT ![c] = @ + 1]
      BY <2>2 DEF Count
    <3> QED BY <1>1, <2>1, <2>2, <3>1
  <2>3. CASE ~skip
    <3>1. passed' = passed /\ claims' = [claims EXCEPT ![c] = @ + 1]
      BY <2>3 DEF Count
    <3> QED BY <1>1, <2>1, <2>3, <3>1
  <2> QED BY <2>2, <2>3
<1> HIDE DEF more
<1>4. /\ store' \in [Automations -> Entries]
      /\ \A b \in Automations : /\ store'[b].kept = store[b].kept
                                /\ store'[b].last = IF b = a THEN s ELSE store[b].last
  <2> DEFINE marks == [store[a].marks EXCEPT ![s] = @ + more]
             entry == [store[a] EXCEPT !.last = s, !.marks = marks]
  <2>1. store[a] \in Entries
    BY <1>2
  <2>2. marks \in [SlotTimes -> Nat]
    BY <1>1, <2>1 DEF Entries
  <2>3. store' = [store EXCEPT ![a] = entry]
    BY <1>2
  <2> HIDE DEF marks
  <2>4. entry \in Entries /\ entry.kept = store[a].kept /\ entry.last = s
    BY <1>1, <2>1, <2>2 DEF Entries
  <2> HIDE DEF entry
  <2> QED BY <1>2, <2>3, <2>4
<1>5. ASSUME NEW d \in Slots
      PROVE  Marks(d)' = IF d = c THEN Marks(d) + more ELSE Marks(d)
  <2>1. d[1] \in Automations /\ d[2] \in SlotTimes /\ (d[1] = a /\ d[2] = s <=> d = c)
    BY SlotParts
  <2>2. store'[d[1]].marks[d[2]] = IF d[1] = a /\ d[2] = s THEN store[d[1]].marks[d[2]] + more
                                   ELSE store[d[1]].marks[d[2]]
    BY <1>1, <1>2, <2>1 DEF Entries
  <2> QED BY <2>1, <2>2 DEF Marks
<1>6. \A d \in Slots : Recordings(d)' = Recordings(d)
  BY DEF Recordings
<1>7. DataTyped'
  BY <1>1, <1>3, <1>4 DEF DataTyped
<1>8. store[a].last < s /\ store[a].last \in Nat
  <2>1. store[a].last \in Nat
    BY <1>1, DataNumbers
  <2> QED BY <1>1, <2>1 DEF Due
<1>9. Claimed(c) = 0 \/ a \in rewound
  <2>1. Claimed(c) \in Nat
    BY <1>1, DataNumbers
  <2>2. Claimed(c) > 0 => a \in rewound \/ s <= store[a].last
    BY <1>1 DEF Data, LastHolds
  <2> QED BY <1>1, <1>8, <2>1, <2>2
<1>10. ASSUME NEW d \in Slots
       PROVE  /\ d # c => Claimed(d)' = Claimed(d)
              /\ d = c => Claimed(d)' = Claimed(d) + 1
  <2>1. claims[d] \in Nat /\ passed[d] \in Nat
    BY <1>3
  <2> QED BY <1>1, <1>3, <2>1 DEF Claimed
<1>11. ASSUME NEW d \in Slots
       PROVE  /\ Marks(d)' <= claims'[d]
              /\ store'[d[1]].kept => claims'[d] <= Marks(d)' + Recordings(d)'
  <2>1. /\ Marks(d) <= claims[d]
        /\ store[d[1]].kept => claims[d] <= Marks(d) + Recordings(d)
    BY DEF Data, MarkedUntilRecorded
  <2>2. Marks(d) \in Nat /\ claims[d] \in Nat /\ Recordings(d) \in Nat /\ d[1] \in Automations
    BY <1>1, DataNumbers, SlotParts
  <2>3. store'[d[1]].kept = store[d[1]].kept
    BY <1>4, <2>2
  <2>4. claims'[d] = IF d = c THEN claims[d] + more ELSE claims[d]
    BY <1>3
  <2> QED BY <1>1, <1>5, <1>6, <2>1, <2>2, <2>3, <2>4
<1>12. MarkedUntilRecorded' /\ \A d \in Slots : Marks(d)' <= claims'[d]
  BY <1>11 DEF MarkedUntilRecorded, Marks, Recordings
<1>13. LastHolds'
  <2> SUFFICES ASSUME NEW d \in Slots, Claimed(d)' > 0
               PROVE  d[1] \in rewound \/ d[2] <= store'[d[1]].last
    BY DEF LastHolds
  <2>1. d[1] \in Automations /\ d[2] \in Nat /\ d = <<d[1], d[2]>> /\ store[d[1]].last \in Nat
    BY <1>1, SlotParts, DataNumbers
  <2>2. CASE d = c
    BY <1>1, <1>4, <2>1, <2>2
  <2>3. CASE d # c
    <3>1. d[1] \in rewound \/ d[2] <= store[d[1]].last
      BY <1>10, <2>3 DEF Data, LastHolds
    <3>2. store'[d[1]].last >= store[d[1]].last
      BY <1>1, <1>4, <1>8, <2>1
    <3>3. store'[d[1]].last \in Nat
      BY <1>1, <1>4, <2>1
    <3> QED BY <2>1, <3>1, <3>2, <3>3
  <2> QED BY <2>2, <2>3
<1>14. ClaimedOnce'
  <2> SUFFICES ASSUME NEW d \in Slots, Claimed(d)' > 1
               PROVE  d[1] \in rewound
    BY DEF ClaimedOnce, Claimed
  <2>1. CASE d = c
    BY <1>9, <1>10, <2>1
  <2>2. CASE d # c
    BY <1>10, <2>2 DEF Data, ClaimedOnce, Claimed
  <2> QED BY <2>1, <2>2
<1>15. Data'
  BY <1>7, <1>12, <1>13, <1>14 DEF Data
<1> QED BY <1>5, <1>6, <1>10, <1>15 DEF more

----------------------------------------------------------------------------
(* What a step leaves alone.                                               *)

LEMMA RunsFewer ==
  ASSUME NEW c \in Slots, Starting(c)' => Starting(c), Waiting(c)' => Waiting(c),
         Underway(c)' => Underway(c)
  PROVE  Runs(c) \in Nat /\ Runs(c)' \in Nat /\ Runs(c)' <= Runs(c)
<1>1. /\ One(Starting(c)) = IF Starting(c) THEN 1 ELSE 0
      /\ One(Waiting(c)) = IF Waiting(c) THEN 1 ELSE 0
      /\ One(Underway(c)) = IF Underway(c) THEN 1 ELSE 0
  BY DEF One
<1>2. /\ One(Starting(c))' = IF Starting(c)' THEN 1 ELSE 0
      /\ One(Waiting(c))' = IF Waiting(c)' THEN 1 ELSE 0
      /\ One(Underway(c))' = IF Underway(c)' THEN 1 ELSE 0
  BY DEF One
<1>3. Runs(c)' = One(Starting(c))' + One(Waiting(c))' + One(Underway(c))'
  BY DEF Runs
<1> HIDE DEF One, Starting, Waiting, Underway
<1> QED BY <1>1, <1>2, <1>3 DEF Runs

LEMMA SkippingFewer ==
  ASSUME DataTyped, NEW c \in Slots, IsFiniteSet(Skipping(c)), Skipping(c)' \subseteq Skipping(c),
         Recordings(c)' \in Nat
  PROVE  /\ IsFiniteSet(Skipping(c)') /\ Noted(c) \in Nat /\ Noted(c)' \in Nat
         /\ Noted(c)' + Recordings(c) <= Noted(c) + Recordings(c)'
         /\ \A p \in Skipping(c) \ Skipping(c)' :
              Noted(c)' + 1 + Recordings(c) <= Noted(c) + Recordings(c)'
<1>1. /\ IsFiniteSet(Skipping(c)') /\ Cardinality(Skipping(c)') \in Nat
      /\ Cardinality(Skipping(c)) \in Nat /\ Cardinality(Skipping(c)') <= Cardinality(Skipping(c))
      /\ \A p \in Skipping(c) \ Skipping(c)' : Cardinality(Skipping(c)') + 1 <= Cardinality(Skipping(c))
  BY FewerElements
<1>2. Recordings(c) \in Nat
  BY DataNumbers
<1>3. Noted(c)' = Recordings(c)' + Cardinality(Skipping(c)')
  BY DEF Noted
<1> QED BY <1>1, <1>2, <1>3 DEF Noted

\* The account of a slot stands as long as nothing grows.
LEMMA SlotHolds ==
  ASSUME DataTyped, PlaceTyped, NEW c \in Slots, Counted(c), hurt \subseteq hurt',
         IsFiniteSet(Skipping(c)'), Noted(c) \in Nat, Noted(c)' \in Nat, Noted(c)' <= Noted(c),
         Claimed(c)' = Claimed(c), Marks(c)' \in Nat, Marks(c)' <= Marks(c),
         Runs(c)' \in Nat, Runs(c)' <= Runs(c),
         \A p \in Procs : firing' = p =>
           \/ tick'[p].marks[c] \in {0, Marks(c)}
           \/ firing = p /\ tick'[p].marks[c] = tick[p].marks[c]
  PROVE  Counted(c)'
<1>1. Marks(c) \in Nat /\ Claimed(c) \in Nat /\ Runs(c) \in Nat
  BY DataNumbers, RunNumbers
<1>2. ASSUME c \notin hurt'
      PROVE  /\ Noted(c)' + Marks(c)' <= Claimed(c)'
             /\ Noted(c)' + Runs(c)' <= Claimed(c)'
             /\ \A p \in Procs : firing' = p => Noted(c)' + tick'[p].marks[c] <= Claimed(c)'
  <2>1. /\ Noted(c) + Marks(c) <= Claimed(c)
        /\ Noted(c) + Runs(c) <= Claimed(c)
        /\ \A p \in Procs : firing = p => Noted(c) + tick[p].marks[c] <= Claimed(c)
    BY <1>2 DEF Counted
  <2>2. Noted(c)' + Marks(c)' <= Claimed(c)' /\ Noted(c)' + Runs(c)' <= Claimed(c)'
    BY <1>1, <2>1
  <2>3. ASSUME NEW p \in Procs, firing' = p
        PROVE  Noted(c)' + tick'[p].marks[c] <= Claimed(c)'
    <3>1. CASE tick'[p].marks[c] \in {0, Marks(c)}
      BY <1>1, <2>1, <3>1
    <3>2. CASE firing = p /\ tick'[p].marks[c] = tick[p].marks[c]
      <4>1. tick[p].marks[c] \in Nat
        BY DEF PlaceTyped, Ticks
      <4> QED BY <1>1, <2>1, <3>2, <4>1
    <3> QED BY <2>3, <3>1, <3>2
  <2> QED BY <2>2, <2>3
<1> QED BY <1>2 DEF Counted

LEMMA SlotStands ==
  ASSUME DataTyped, PlaceTyped, NEW c \in Slots, Counted(c), hurt \subseteq hurt',
         Recordings(c)' = Recordings(c), Claimed(c)' = Claimed(c),
         Marks(c)' \in Nat, Marks(c)' <= Marks(c), Skipping(c)' \subseteq Skipping(c),
         Starting(c)' => Starting(c), Waiting(c)' => Waiting(c), Underway(c)' => Underway(c),
         \A p \in Procs : firing' = p =>
           \/ tick'[p].marks[c] \in {0, Marks(c)}
           \/ firing = p /\ tick'[p].marks[c] = tick[p].marks[c]
  PROVE  Counted(c)'
<1>1. Recordings(c) \in Nat
  BY DataNumbers
<1>2. Runs(c) \in Nat /\ Runs(c)' \in Nat /\ Runs(c)' <= Runs(c)
  BY RunsFewer
<1>3. /\ IsFiniteSet(Skipping(c)') /\ Noted(c) \in Nat /\ Noted(c)' \in Nat
      /\ Noted(c)' + Recordings(c) <= Noted(c) + Recordings(c)'
  BY <1>1, SkippingFewer DEF Counted
<1>4. Noted(c)' <= Noted(c)
  BY <1>1, <1>3
<1> QED BY <1>2, <1>3, <1>4, SlotHolds

\* A record that takes the place of a run or of a loaded mark.
LEMMA SlotSettles ==
  ASSUME DataTyped, PlaceTyped, NEW c \in Slots, Counted(c), hurt \subseteq hurt',
         Recordings(c)' = Recordings(c) + 1, Claimed(c)' = Claimed(c),
         Marks(c)' = (IF Marks(c) > 1 THEN Marks(c) - 1 ELSE 0),
         Skipping(c)' \subseteq Skipping(c), Runs(c)' \in Nat,
         c \notin hurt => Noted(c) + Runs(c)' + 1 <= Claimed(c),
         \A p \in Procs : firing' = p =>
           \/ tick'[p].marks[c] = 0
           \/ firing = p /\ tick'[p].marks[c] + 1 = tick[p].marks[c] /\ tick'[p].marks[c] \in Nat
  PROVE  Counted(c)'
<1>1. Marks(c) \in Nat /\ Claimed(c) \in Nat /\ Recordings(c) \in Nat
  BY DataNumbers
<1>2. /\ IsFiniteSet(Skipping(c)') /\ Noted(c) \in Nat /\ Noted(c)' \in Nat
      /\ Noted(c)' + Recordings(c) <= Noted(c) + Recordings(c)'
  BY <1>1, SkippingFewer DEF Counted
<1>3. Noted(c)' <= Noted(c) + 1
  BY <1>1, <1>2
<1>4. ASSUME c \notin hurt'
      PROVE  /\ Noted(c)' + Marks(c)' <= Claimed(c)'
             /\ Noted(c)' + Runs(c)' <= Claimed(c)'
             /\ \A p \in Procs : firing' = p => Noted(c)' + tick'[p].marks[c] <= Claimed(c)'
  <2>1. /\ Noted(c) + Marks(c) <= Claimed(c)
        /\ Noted(c) + Runs(c)' + 1 <= Claimed(c)
        /\ \A p \in Procs : firing = p => Noted(c) + tick[p].marks[c] <= Claimed(c)
    BY <1>4 DEF Counted
  <2>2. Noted(c)' + Runs(c)' <= Claimed(c)'
    BY <1>1, <1>2, <1>3, <2>1
  <2>3. Noted(c)' + Marks(c)' <= Claimed(c)'
    BY <1>1, <1>2, <1>3, <2>1
  <2>4. ASSUME NEW p \in Procs, firing' = p
        PROVE  Noted(c)' + tick'[p].marks[c] <= Claimed(c)'
    <3>1. CASE tick'[p].marks[c] = 0
      BY <1>1, <1>2, <1>3, <2>1, <3>1
    <3>2. CASE firing = p /\ tick'[p].marks[c] + 1 = tick[p].marks[c] /\ tick'[p].marks[c] \in Nat
      BY <1>1, <1>2, <1>3, <2>1, <3>2
    <3> QED BY <2>4, <3>1, <3>2
  <2> QED BY <2>2, <2>3, <2>4
<1> QED BY <1>2, <1>4 DEF Counted

\* A claim, of a slot to be skipped or to be run.
LEMMA SlotClaimed ==
  ASSUME DataTyped, PlaceTyped, NEW c \in Slots, Counted(c), hurt \subseteq hurt',
         NEW skip \in BOOLEAN, NEW p \in Procs,
         Recordings(c)' = Recordings(c), Claimed(c)' = Claimed(c) + 1,
         Marks(c)' = Marks(c) + (IF skip THEN 0 ELSE 1),
         Skipping(c)' \subseteq (IF skip THEN Skipping(c) \cup {p} ELSE Skipping(c)),
         Waiting(c)' = Waiting(c), Underway(c)' = Underway(c),
         skip => (Starting(c)' => Starting(c)),
         \A q \in Procs : firing' = q =>
           \/ tick'[q].marks[c] = 0
           \/ firing = q /\ tick'[q].marks[c] = tick[q].marks[c]
  PROVE  Counted(c)'
<1>1. Marks(c) \in Nat /\ Claimed(c) \in Nat /\ Recordings(c) \in Nat
  BY DataNumbers
<1> DEFINE n == IF skip THEN 1 ELSE 0
<1>2. /\ IsFiniteSet(Skipping(c)') /\ Noted(c) \in Nat /\ Noted(c)' \in Nat
      /\ Noted(c)' <= Noted(c) + n
  <2>1. /\ IsFiniteSet(Skipping(c)') /\ Cardinality(Skipping(c)') \in Nat
        /\ Cardinality(Skipping(c)) \in Nat /\ Cardinality(Skipping(c)') <= Cardinality(Skipping(c)) + n
    <3>1. CASE skip
      BY <3>1, OneMore DEF Counted
    <3>2. CASE ~skip
      BY <3>2, FewerElements DEF Counted
    <3> QED BY <3>1, <3>2
  <2>2. Noted(c)' = Recordings(c)' + Cardinality(Skipping(c)')
    BY DEF Noted
  <2> QED BY <1>1, <2>1, <2>2 DEF Noted
<1>3. Runs(c) \in Nat /\ Runs(c)' \in Nat /\ Runs(c)' <= Runs(c) + 1 - n
  <2>1. CASE skip
    <3>1. Runs(c) \in Nat /\ Runs(c)' \in Nat /\ Runs(c)' <= Runs(c)
      BY <2>1, RunsFewer
    <3> QED BY <2>1, <3>1
  <2>2. CASE ~skip
    <3>1. /\ One(Starting(c)) \in {0, 1} /\ One(Starting(c))' \in {0, 1}
          /\ One(Waiting(c)) \in {0, 1} /\ One(Underway(c)) \in {0, 1}
          /\ One(Waiting(c))' = One(Waiting(c)) /\ One(Underway(c))' = One(Underway(c))
      BY DEF One
    <3>2. Runs(c)' = One(Starting(c))' + One(Waiting(c))' + One(Underway(c))'
      BY DEF Runs
    <3> HIDE DEF One
    <3> QED BY <2>2, <3>1, <3>2 DEF Runs
  <2> QED BY <2>1, <2>2
<1>4. ASSUME c \notin hurt'
      PROVE  /\ Noted(c)' + Marks(c)' <= Claimed(c)'
             /\ Noted(c)' + Runs(c)' <= Claimed(c)'
             /\ \A q \in Procs : firing' = q => Noted(c)' + tick'[q].marks[c] <= Claimed(c)'
  <2>1. /\ Noted(c) + Marks(c) <= Claimed(c)
        /\ Noted(c) + Runs(c) <= Claimed(c)
        /\ \A q \in Procs : firing = q => Noted(c) + tick[q].marks[c] <= Claimed(c)
    BY <1>4 DEF Counted
  <2>2. Noted(c)' + Marks(c)' <= Claimed(c)' /\ Noted(c)' + Runs(c)' <= Claimed(c)'
    BY <1>1, <1>2, <1>3, <2>1
  <2>3. ASSUME NEW q \in Procs, firing' = q
        PROVE  Noted(c)' + tick'[q].marks[c] <= Claimed(c)'
    <3>1. CASE tick'[q].marks[c] = 0
      BY <1>1, <1>2, <2>1, <3>1
    <3>2. CASE firing = q /\ tick'[q].marks[c] = tick[q].marks[c]
      <4>1. tick[q].marks[c] \in Nat
        BY DEF PlaceTyped, Ticks
      <4> QED BY <1>1, <1>2, <2>1, <3>2, <4>1
    <3> QED BY <2>3, <3>1, <3>2
  <2> QED BY <2>2, <2>3
<1> QED BY <1>2, <1>4 DEF Counted

LEMMA OtherPlace ==
  ASSUME NEW q \in Procs, Place(q), tick'[q] = tick[q], phase'[q] = phase[q], tasks'[q] = tasks[q],
         firing' = q <=> firing = q, \A c \in Slots : Going(q, c)' => Going(q, c), hurt \subseteq hurt'
  PROVE  Place(q)'
BY DEF Place, Idle, Left

LEMMA NobodyRuns ==
  ASSUME NEW p \in Procs, NEW c \in Slots
  PROVE  NoRun # <<p, c[2]>> /\ Manual # <<p, c[2]>>
BY HolderAssumption DEF NoRun, Manual

\* The world goes on: the clock, the owner, and runs without a slot.
LEMMA WorldKeeps ==
  ASSUME SleepInv, Data', UNCHANGED <<firing, phase, tick, tasks, hurt>>,
         running' \in [Automations -> {NoRun, Manual} \cup Procs \X SlotTimes],
         \A p \in Procs, c \in Slots : Going(p, c)' => Going(p, c),
         \A c \in Slots : /\ Recordings(c)' = Recordings(c) /\ Claimed(c)' = Claimed(c)
                          /\ Marks(c)' <= Marks(c) /\ Marks(c)' \in Nat
  PROVE  SleepInv'
<1>1. PlaceTyped'
  BY DEF SleepInv, PlaceTyped
<1>2. Places'
  BY OtherPlace DEF SleepInv, Places
<1>3. ASSUME NEW c \in Slots PROVE Counted(c)'
  <2>1. Starting(c)' = Starting(c) /\ Waiting(c)' = Waiting(c) /\ Skipping(c)' = Skipping(c)
    BY DEF Starting, Waiting, Skipping
  <2>2. Underway(c)' => Underway(c)
    BY DEF Underway
  <2> QED BY <2>1, <2>2, SlotStands DEF SleepInv, Data, Account
<1> QED BY <1>1, <1>2, <1>3 DEF SleepInv, Account

LEMMA ClockKeeps ==
  ASSUME SleepInv, Clock
  PROVE  SleepInv'
<1>1. /\ now' \in 0 .. MaxTime
      /\ UNCHANGED <<store, firing, running, phase, tick, tasks, records, claims, passed, rewound, hurt>>
  BY DEF Clock, history
<1>2. Data'
  BY <1>1, DataStands DEF SleepInv
<1>3. \A c \in Slots : /\ Recordings(c)' = Recordings(c) /\ Claimed(c)' = Claimed(c)
                       /\ Marks(c)' = Marks(c) /\ Marks(c) \in Nat
  BY <1>1, DataNumbers DEF Recordings, Claimed, Marks, SleepInv, Data
<1>4. running' \in [Automations -> {NoRun, Manual} \cup Procs \X SlotTimes]
      /\ \A p \in Procs, c \in Slots : Going(p, c)' => Going(p, c)
  BY <1>1 DEF SleepInv, PlaceTyped, Going
<1> QED BY <1>1, <1>2, <1>3, <1>4, WorldKeeps

LEMMA RunNowKeeps ==
  ASSUME SleepInv, NEW a \in Automations, RunNow(a) \/ RunNowEnds(a)
  PROVE  SleepInv'
<1>1. /\ UNCHANGED <<now, store, firing, phase, tick, tasks, records, claims, passed, rewound, hurt>>
      /\ \E r \in {NoRun, Manual} : running' = [running EXCEPT ![a] = r]
  BY DEF RunNow, RunNowEnds, history
<1>2. Data'
  BY <1>1, DataStands DEF SleepInv, Data, DataTyped
<1>3. \A c \in Slots : /\ Recordings(c)' = Recordings(c) /\ Claimed(c)' = Claimed(c)
                       /\ Marks(c)' = Marks(c) /\ Marks(c) \in Nat
  BY <1>1, DataNumbers DEF Recordings, Claimed, Marks, SleepInv, Data
<1>4. running \in [Automations -> {NoRun, Manual} \cup Procs \X SlotTimes]
  BY DEF SleepInv, PlaceTyped
<1>5. running' \in [Automations -> {NoRun, Manual} \cup Procs \X SlotTimes]
  BY <1>1, <1>4
<1>6. ASSUME NEW p \in Procs, NEW c \in Slots, Going(p, c)'
      PROVE  Going(p, c)
  BY <1>1, <1>4, <1>6, NobodyRuns, SlotParts DEF Going
<1> QED BY <1>1, <1>2, <1>3, <1>5, <1>6, WorldKeeps

LEMMA SaveKeeps ==
  ASSUME SleepInv, NEW a \in Automations, Save(a)
  PROVE  SleepInv'
<1>1. PICK on \in BOOLEAN, missed \in {"run_once", "skip"} :
        store' = [store EXCEPT ![a] = [@ EXCEPT !.enabled = on, !.missed = missed, !.last = now]]
  BY DEF Save
<1>2. /\ UNCHANGED <<now, firing, running, phase, tick, tasks, records, claims, passed, hurt>>
      /\ rewound' = IF now < store[a].last THEN rewound \cup {a} ELSE rewound
  BY DEF Save
<1>3. DataTyped /\ store[a] \in Entries /\ now \in 0 .. MaxTime /\ store \in [Automations -> Entries]
  BY DEF SleepInv, Data, DataTyped
<1> DEFINE entry == [store[a] EXCEPT !.enabled = on, !.missed = missed, !.last = now]
<1>4. /\ entry \in Entries /\ entry.kept = store[a].kept /\ entry.last = now
      /\ entry.marks = store[a].marks
  BY <1>3 DEF Entries
<1>5. store' = [store EXCEPT ![a] = entry]
  BY <1>1
<1> HIDE DEF entry
<1>6. /\ store' \in [Automations -> Entries]
      /\ \A b \in Automations : /\ store'[b].kept = store[b].kept /\ store'[b].marks = store[b].marks
                                /\ store'[b].last = IF b = a THEN now ELSE store[b].last
  BY <1>3, <1>4, <1>5
<1>7. \A c \in Slots : /\ Recordings(c)' = Recordings(c) /\ Claimed(c)' = Claimed(c)
                       /\ Marks(c)' = Marks(c) /\ Marks(c) \in Nat /\ claims'[c] = claims[c]
  BY <1>2, <1>3, <1>6, DataNumbers, SlotParts DEF Recordings, Claimed, Marks
<1>8. Data'
  <2>1. DataTyped'
    BY <1>2, <1>3, <1>6 DEF DataTyped
  <2>2. MarkedUntilRecorded' /\ \A c \in Slots : Marks(c)' <= claims'[c]
    <3>1. MarkedUntilRecorded /\ \A c \in Slots : Marks(c) <= claims[c]
      BY DEF SleepInv, Data
    <3>2. \A c \in Slots : store'[c[1]].kept = store[c[1]].kept
      BY <1>6, SlotParts
    <3> QED BY <1>7, <3>1, <3>2 DEF MarkedUntilRecorded
  <2>3. LastHolds'
    <3> SUFFICES ASSUME NEW c \in Slots, Claimed(c) > 0
                 PROVE  c[1] \in rewound' \/ c[2] <= store'[c[1]].last
      BY <1>7 DEF LastHolds
    <3>1. c[1] \in rewound \/ c[2] <= store[c[1]].last
      BY DEF SleepInv, Data, LastHolds
    <3>2. c[1] \in Automations /\ c[2] \in Nat /\ store[c[1]].last \in Nat /\ now \in Nat
      BY <1>3, SlotParts, DataNumbers, BoundAssumption
    <3>3. CASE c[1] = a
      BY <1>2, <1>6, <3>1, <3>2, <3>3
    <3>4. CASE c[1] # a
      BY <1>2, <1>6, <3>1, <3>2, <3>4
    <3> QED BY <3>3, <3>4
  <2>4. ClaimedOnce'
    BY <1>2 DEF SleepInv, Data, ClaimedOnce
  <2> QED BY <2>1, <2>2, <2>3, <2>4 DEF Data
<1>9. running' \in [Automations -> {NoRun, Manual} \cup Procs \X SlotTimes]
      /\ \A p \in Procs, c \in Slots : Going(p, c)' => Going(p, c)
  BY <1>2 DEF SleepInv, PlaceTyped, Going
<1> QED BY <1>2, <1>7, <1>8, <1>9, WorldKeeps

LEMMA DeleteKeeps ==
  ASSUME SleepInv, NEW a \in Automations, Delete(a)
  PROVE  SleepInv'
<1> DEFINE entry == [store[a] EXCEPT !.kept = FALSE, !.enabled = FALSE,
                                     !.marks = [s \in SlotTimes |-> 0]]
<1>1. /\ UNCHANGED <<now, firing, running, phase, tick, tasks, records, claims, passed, rewound, hurt>>
      /\ store' = [store EXCEPT ![a].kept = FALSE, ![a].enabled = FALSE,
                                ![a].marks = [s \in SlotTimes |-> 0]]
  BY DEF Delete, history
<1>2. DataTyped /\ store[a] \in Entries /\ store \in [Automations -> Entries]
  BY DEF SleepInv, Data, DataTyped
<1>3. /\ entry \in Entries /\ ~entry.kept /\ entry.last = store[a].last
      /\ \A s \in SlotTimes : entry.marks[s] = 0
  BY <1>2 DEF Entries
<1>4. store' = [store EXCEPT ![a] = entry]
  BY <1>1, <1>2
<1> HIDE DEF entry
<1>5. /\ store' \in [Automations -> Entries]
      /\ \A b \in Automations : /\ store'[b].last = store[b].last
                                /\ b # a => store'[b] = store[b]
                                /\ b = a => ~store'[b].kept /\ \A s \in SlotTimes : store'[b].marks[s] = 0
  BY <1>2, <1>3, <1>4
<1>6. ASSUME NEW c \in Slots
      PROVE  /\ Recordings(c)' = Recordings(c) /\ Claimed(c)' = Claimed(c)
             /\ Marks(c)' \in Nat /\ Marks(c)' <= Marks(c) /\ Marks(c) \in Nat
             /\ c[1] # a => Marks(c)' = Marks(c)
  BY <1>1, <1>2, <1>5, DataNumbers, SlotParts DEF Recordings, Claimed, Marks
<1>7. Data'
  <2>1. DataTyped'
    BY <1>1, <1>2, <1>5 DEF DataTyped, SleepInv, Data
  <2>2. ASSUME NEW c \in Slots
        PROVE  Marks(c)' <= claims'[c] /\ (store'[c[1]].kept => claims'[c] <= Marks(c)' + Recordings(c)')
    <3>1. Marks(c) <= claims[c] /\ (store[c[1]].kept => claims[c] <= Marks(c) + Recordings(c))
      BY DEF SleepInv, Data, MarkedUntilRecorded
    <3>2. claims'[c] = claims[c] /\ claims[c] \in Nat /\ c[1] \in Automations
      BY <1>1, <1>2, DataNumbers, SlotParts
    <3> QED BY <1>5, <1>6, <3>1, <3>2
  <2>3. MarkedUntilRecorded' /\ \A c \in Slots : Marks(c)' <= claims'[c]
    BY <2>2 DEF MarkedUntilRecorded
  <2>4. LastHolds' /\ ClaimedOnce'
    BY <1>1, <1>5, SlotParts DEF SleepInv, Data, LastHolds, ClaimedOnce, Claimed
  <2> QED BY <2>1, <2>3, <2>4 DEF Data
<1>8. running' \in [Automations -> {NoRun, Manual} \cup Procs \X SlotTimes]
      /\ \A p \in Procs, c \in Slots : Going(p, c)' => Going(p, c)
  BY <1>1 DEF SleepInv, PlaceTyped, Going
<1> QED BY <1>1, <1>6, <1>7, <1>8, WorldKeeps

----------------------------------------------------------------------------
(* The thread of a tick.                                                   *)

\* A step of one thread leaves the other processes where they are.
LEMMA TickPlaces ==
  ASSUME SleepInv, NEW p \in Procs, NEW t \in Ticks, tick' = [tick EXCEPT ![p] = t],
         UNCHANGED <<phase, tasks, running>>,
         firing' = firing \/ (firing = NoProc /\ firing' = p),
         hurt \subseteq hurt', Place(p)'
  PROVE  /\ PlaceTyped' /\ Places'
         /\ tick'[p] = t /\ \A q \in Procs : q # p => tick'[q] = tick[q]
         /\ \A c \in Slots : Waiting(c)' = Waiting(c) /\ Underway(c)' = Underway(c)
<1>1. tick \in [Procs -> Ticks] /\ PlaceTyped
  BY DEF SleepInv, PlaceTyped
<1>2. tick'[p] = t /\ \A q \in Procs : q # p => tick'[q] = tick[q]
  BY <1>1
<1>3. PlaceTyped'
  BY <1>1 DEF PlaceTyped
<1>4. ASSUME NEW q \in Procs PROVE Place(q)'
  <2>1. CASE q # p
    <3>1. Place(q) /\ (firing' = q <=> firing = q) /\ phase'[q] = phase[q] /\ tasks'[q] = tasks[q]
      BY <2>1, HolderAssumption DEF SleepInv, Places
    <3>2. \A c \in Slots : Going(q, c)' => Going(q, c)
      BY DEF Going
    <3> QED BY <1>2, <2>1, <3>1, <3>2, OtherPlace
  <2> QED BY <2>1
<1>5. \A c \in Slots : Waiting(c)' = Waiting(c) /\ Underway(c)' = Underway(c)
  BY DEF Waiting, Underway, Going
<1> QED BY <1>2, <1>3, <1>4, <1>5 DEF Places

LEMMA TickSlot ==
  ASSUME SleepInv, NEW p \in Procs, NEW c \in Slots, UNCHANGED phase,
         \A q \in Procs : q # p => tick'[q] = tick[q],
         c \in tick'[p].start => c \in tick[p].start, c \in tick'[p].skip => c \in tick[p].skip,
         Waiting(c)' = Waiting(c), Underway(c)' = Underway(c),
         firing' = firing \/ (firing = NoProc /\ firing' = p), hurt \subseteq hurt',
         \/ tick'[p].marks[c] \in {0, Marks(c)}
         \/ firing' = firing /\ tick'[p].marks[c] = tick[p].marks[c],
         Recordings(c)' = Recordings(c), Claimed(c)' = Claimed(c), Marks(c)' = Marks(c)
  PROVE  Counted(c)'
<1>1. Starting(c)' => Starting(c)
  BY DEF Starting
<1>2. Skipping(c)' \subseteq Skipping(c)
  BY DEF Skipping
<1>3. \A q \in Procs : firing' = q =>
           \/ tick'[q].marks[c] \in {0, Marks(c)}
           \/ firing = q /\ tick'[q].marks[c] = tick[q].marks[c]
  BY HolderAssumption
<1>4. DataTyped /\ PlaceTyped /\ Counted(c) /\ Marks(c)' \in Nat /\ Marks(c)' <= Marks(c)
  BY DataNumbers DEF SleepInv, Data, Account
<1> QED BY <1>1, <1>2, <1>3, <1>4, SlotStands

\* A step of the thread that neither writes nor claims.
LEMMA QuietTick ==
  ASSUME SleepInv, NEW p \in Procs, NEW t \in Ticks, tick' = [tick EXCEPT ![p] = t],
         UNCHANGED <<now, store, running, phase, tasks, records, claims, passed, rewound, hurt>>,
         firing' = firing \/ (firing = NoProc /\ firing' = p),
         t.start \subseteq tick[p].start, t.skip \subseteq tick[p].skip,
         t.marks = NoTick.marks \/ (t.marks = tick[p].marks /\ firing' = firing),
         Place(p)'
  PROVE  SleepInv'
<1>1. Data'
  BY DataStands DEF SleepInv, Data, DataTyped
<1>2. /\ PlaceTyped' /\ Places'
      /\ tick'[p] = t /\ \A q \in Procs : q # p => tick'[q] = tick[q]
      /\ \A c \in Slots : Waiting(c)' = Waiting(c) /\ Underway(c)' = Underway(c)
  BY TickPlaces
<1>3. ASSUME NEW c \in Slots PROVE Counted(c)'
  <2>1. Recordings(c)' = Recordings(c) /\ Claimed(c)' = Claimed(c) /\ Marks(c)' = Marks(c)
    BY DEF Recordings, Claimed, Marks
  <2>2. t.marks[c] = 0 \/ (t.marks[c] = tick[p].marks[c] /\ firing' = firing)
    BY DEF NoTick
  <2> QED BY <1>2, <2>1, <2>2, TickSlot
<1> QED BY <1>1, <1>2, <1>3 DEF SleepInv, Account

LEMMA NoTickIsTick ==
  /\ NoTick \in Ticks /\ Left(NoTick) = {} /\ NoTick.at = "none"
  /\ NoTick.start = {} /\ NoTick.skip = {} /\ NoTick.marks = [c \in Slots |-> 0]
BY DEF NoTick, Ticks, Left

\* A thread takes the lock, or goes on under it, while its process is open or
\* after it was told to stop.
LEMMA LockKeeps ==
  ASSUME SleepInv, NEW p \in Procs, Lock(p), tick[p].at \in {"none", "late"}, phase[p] # "closed",
         UNCHANGED <<now, store, running, phase, tasks, records, claims, passed, rewound, hurt>>
  PROVE  SleepInv'
<1>1. tick[p] \in Ticks /\ tick \in [Procs -> Ticks] /\ Place(p)
  BY DEF SleepInv, PlaceTyped, Places
<1>3. tick[p].marks = NoTick.marks
  <2>1. Left(tick[p]) = {}
    BY <1>1 DEF Place
  <2>2. tick[p].marks \in [Slots -> Nat]
    BY <1>1 DEF Ticks
  <2>3. \A c \in Slots : tick[p].marks[c] = 0
    BY <2>1, <2>2 DEF Left
  <2> QED BY <2>2, <2>3 DEF NoTick
<1>4. PICK l \in {"read", "marks"} :
        /\ tick' = [tick EXCEPT ![p].at = l]
        /\ l = "read" => firing = p /\ firing' = firing
        /\ l = "marks" => firing = NoProc /\ firing' = p
  BY DEF Lock, At
<1> DEFINE t == [tick[p] EXCEPT !.at = l]
<1>5. /\ t \in Ticks /\ tick' = [tick EXCEPT ![p] = t] /\ t.at = l /\ t.start = tick[p].start
      /\ t.skip = tick[p].skip /\ t.marks = tick[p].marks
  BY <1>1, <1>4 DEF Ticks
<1> HIDE DEF t
<1>6. Place(p)'
  <2>1. tick'[p] = t /\ phase'[p] = phase[p] /\ tasks'[p] = tasks[p] /\ Left(t) = Left(tick[p])
    BY <1>1, <1>5 DEF Left
  <2>2. Idle(p)' = Idle(p)
    BY DEF Idle, Going
  <2>3. /\ tick[p].start = {} /\ Left(tick[p]) = {} /\ (firing # p => Idle(p))
        /\ phase[p] = "stopped" => Idle(p)
        /\ phase[p] # "open" => tasks[p] = {}
    BY <1>1 DEF Place
  <2>4. firing' = p /\ (l = "marks" => Idle(p))
    BY <1>4, <2>3, HolderAssumption
  <2>5. /\ tick'[p].at \in {"read", "marks"} /\ tick'[p].start = {} /\ Left(tick[p])' = {}
        /\ tick'[p].at = "marks" => Idle(p)'
    BY <1>5, <2>1, <2>2, <2>3, <2>4
  <2>6. phase'[p] # "closed" /\ firing' = p
    BY <2>1, <2>4
  <2> HIDE DEF Idle, Left
  <2> QED BY <2>1, <2>2, <2>3, <2>5, <2>6 DEF Place
<1>7. firing' = firing \/ (firing = NoProc /\ firing' = p)
  BY <1>4
<1>8. t.marks = NoTick.marks /\ t.start \subseteq tick[p].start /\ t.skip \subseteq tick[p].skip
  BY <1>3, <1>5
<1> QED BY <1>5, <1>6, <1>7, <1>8, QuietTick

LEMMA TickKeeps ==
  ASSUME SleepInv, NEW p \in Procs, Tick(p)
  PROVE  SleepInv'
BY LockKeeps DEF Tick, history

\* A thread that finds the lock taken by another process gives up.
LEMMA GiveUpKeeps ==
  ASSUME SleepInv, NEW p \in Procs, tick[p].at = "late", tick' = [tick EXCEPT ![p] = NoTick],
         UNCHANGED <<now, store, firing, running, phase, tasks, records, claims, passed, rewound, hurt>>
  PROVE  SleepInv'
<1>1. tick \in [Procs -> Ticks] /\ Place(p)
  BY DEF SleepInv, PlaceTyped, Places
<1>2. tick'[p] = NoTick /\ tick[p].start = {} /\ Left(tick[p]) = {} /\ phase[p] # "closed"
  BY <1>1 DEF Place
<1>3. Idle(p)' = Idle(p)
  BY DEF Idle, Going
<1>4. Left(tick[p])' = {} /\ tick'[p].at = "none" /\ tick'[p].start = {}
  BY <1>2, NoTickIsTick DEF Left
<1>5. Place(p)'
  <2> HIDE DEF Idle, Left
  <2> QED BY <1>1, <1>3, <1>4 DEF Place
<1> QED BY <1>5, NoTickIsTick, QuietTick

LEMMA LateTickKeeps ==
  ASSUME SleepInv, NEW p \in Procs, LateTick(p)
  PROVE  SleepInv'
<1>1. /\ tick[p].at = "late" /\ phase[p] # "closed"
      /\ UNCHANGED <<now, store, running, phase, tasks, records, claims, passed, rewound, hurt>>
  BY DEF LateTick, history, SleepInv, Places, Place
<1>2. CASE Lock(p)
  BY <1>1, <1>2, LockKeeps
<1>3. CASE Abandon(p) /\ UNCHANGED firing
  BY <1>1, <1>3, GiveUpKeeps DEF Abandon
<1> QED BY <1>2, <1>3 DEF LateTick

LEMMA ReadKeeps ==
  ASSUME SleepInv, NEW p \in Procs,
         \/ Recovered(p) \/ Read(p)
         \/ \E a \in Automations, s \in SlotTimes, skip \in BOOLEAN : NotClaimed(p, a, s, skip)
  PROVE  SleepInv'
<1>1. tick[p] \in Ticks /\ tick \in [Procs -> Ticks] /\ Place(p)
  BY DEF SleepInv, PlaceTyped, Places
<1>2. UNCHANGED <<now, store, firing, running, phase, tasks, records, claims, passed, rewound, hurt>>
  BY DEF Recovered, Read, NotClaimed, history
<1>3. PICK l \in {"read", "scan"}, f \in SUBSET (Automations \X SlotTimes \X BOOLEAN) :
        /\ tick' = [tick EXCEPT ![p] = [tick[p] EXCEPT !.at = l, !.found = f]]
        /\ \/ tick[p].at = "recover" /\ Left(tick[p]) = {} /\ l = "read"
           \/ tick[p].at \in {"read", "scan"} /\ l = "scan"
  <2>0. tick[p].found \in SUBSET (Automations \X SlotTimes \X BOOLEAN)
    BY <1>1 DEF Ticks
  <2>1. CASE Recovered(p)
    <3>1. /\ tick' = [tick EXCEPT ![p] = [tick[p] EXCEPT !.at = "read", !.found = tick[p].found]]
          /\ tick[p].at = "recover"
      BY <1>1, <2>1 DEF Recovered, At, Ticks
    <3>2. Left(tick[p]) = {}
      <4>1. tick[p].marks = [c \in Slots |-> 0]
        BY <2>1 DEF Recovered, NoTick
      <4>2. \A c \in Slots : ~(tick[p].marks[c] > 0)
        BY <4>1
      <4> QED BY <4>2 DEF Left
    <3> QED BY <2>0, <3>1, <3>2
  <2>2. CASE Read(p)
    <3> DEFINE f == {<<c[1], c[2], now > c[2] /\ store[c[1]].missed = "skip">> :
                       c \in {d \in Slots : d[2] \in Due(d[1])}}
    <3>1. f \in SUBSET (Automations \X SlotTimes \X BOOLEAN)
      <4> SUFFICES ASSUME NEW c \in Slots
                   PROVE  <<c[1], c[2], now > c[2] /\ store[c[1]].missed = "skip">>
                            \in Automations \X SlotTimes \X BOOLEAN
        OBVIOUS
      <4> DEFINE late == now > c[2] /\ store[c[1]].missed = "skip"
      <4>1. late \in BOOLEAN
        OBVIOUS
      <4> HIDE DEF late
      <4>2. <<c[1], c[2], late>> \in Automations \X SlotTimes \X BOOLEAN
        BY <4>1, SlotParts
      <4> QED BY <4>2 DEF late
    <3>2. tick' = [tick EXCEPT ![p].at = "scan", ![p].found = f] /\ tick[p].at = "read"
      BY <2>2 DEF Read
    <3> HIDE DEF f
    <3>3. tick' = [tick EXCEPT ![p] = [tick[p] EXCEPT !.at = "scan", !.found = f]]
      BY <1>1, <3>2
    <3> QED BY <3>1, <3>2, <3>3
  <2>3. CASE \E a \in Automations, s \in SlotTimes, skip \in BOOLEAN : NotClaimed(p, a, s, skip)
    <3> PICK a \in Automations, s \in SlotTimes, skip \in BOOLEAN : NotClaimed(p, a, s, skip)
      BY <2>3
    <3> DEFINE f == tick[p].found \ {<<a, s, skip>>}
    <3>1. tick' = [tick EXCEPT ![p].found = f] /\ tick[p].at = "scan"
      BY DEF NotClaimed
    <3>2. f \in SUBSET (Automations \X SlotTimes \X BOOLEAN)
      BY <2>0
    <3> HIDE DEF f
    <3>3. tick' = [tick EXCEPT ![p] = [tick[p] EXCEPT !.at = "scan", !.found = f]]
      BY <1>1, <3>1 DEF Ticks
    <3> QED BY <3>1, <3>2, <3>3
  <2> QED BY <2>1, <2>2, <2>3
<1> DEFINE t == [tick[p] EXCEPT !.at = l, !.found = f]
<1>4. /\ t \in Ticks /\ tick' = [tick EXCEPT ![p] = t] /\ t.at = l /\ t.start = tick[p].start
      /\ t.skip = tick[p].skip /\ t.marks = tick[p].marks
  BY <1>1, <1>3 DEF Ticks
<1>5. tick[p].at \in {"recover", "read", "scan"} /\ (tick[p].at = "recover" => Left(tick[p]) = {} /\ l = "read")
      /\ (tick[p].at = "read" => l = "scan") /\ (tick[p].at = "scan" => l = "scan")
  BY <1>3
<1> HIDE DEF t
<1>6. Place(p)'
  <2>1. tick'[p] = t /\ phase'[p] = phase[p] /\ tasks'[p] = tasks[p] /\ Left(t) = Left(tick[p])
    BY <1>1, <1>2, <1>4 DEF Left
  <2>2. Idle(p)' = Idle(p)
    BY <1>2 DEF Idle, Going
  <2>3. l \in {"read", "scan"} /\ (l = "read" => tick[p].start = {})
    BY <1>1, <1>5 DEF Place
  <2>4. Left(tick[p]) = {}
    BY <1>1, <1>5 DEF Place
  <2>5. /\ tick'[p].at = l /\ tick'[p].start = tick[p].start /\ Left(tick[p])' = {}
        /\ phase'[p] = phase[p] /\ tasks'[p] = tasks[p] /\ firing' = firing
    BY <1>2, <1>4, <2>1, <2>4
  <2>6. tick[p].at # "none"
    BY <1>5
  <2> HIDE DEF Idle, Left
  <2> QED BY <1>1, <2>2, <2>3, <2>5, <2>6 DEF Place
<1> QED BY <1>2, <1>4, <1>6, QuietTick

LEMMA LoadKeeps ==
  ASSUME SleepInv, NEW p \in Procs, LoadMarks(p)
  PROVE  SleepInv'
<1>1. tick[p] \in Ticks /\ tick \in [Procs -> Ticks] /\ Place(p) /\ DataTyped
  BY DEF SleepInv, PlaceTyped, Places, Data
<1> DEFINE loaded == [c \in Slots |-> store[c[1]].marks[c[2]]]
           t == [tick[p] EXCEPT !.at = "recover", !.marks = loaded]
<1>2. /\ tick[p].at = "marks"
      /\ tick' = [tick EXCEPT ![p].at = "recover", ![p].marks = loaded]
      /\ hurt' = IF firing = p THEN hurt ELSE hurt \cup Left(tick'[p])
      /\ UNCHANGED <<now, store, firing, running, phase, tasks, records, claims, passed, rewound>>
  BY DEF LoadMarks, history
<1>3. loaded \in [Slots -> Nat] /\ \A c \in Slots : loaded[c] = Marks(c)
  BY <1>1, DataNumbers DEF Marks
<1> HIDE DEF loaded
<1>4. /\ t \in Ticks /\ tick' = [tick EXCEPT ![p] = t] /\ t.at = "recover" /\ t.start = tick[p].start
      /\ t.skip = tick[p].skip /\ t.marks = loaded
  BY <1>1, <1>2, <1>3 DEF Ticks
<1> HIDE DEF t
<1>5. Place(p)'
  <2>1. tick'[p] = t /\ phase'[p] = phase[p] /\ tasks'[p] = tasks[p] /\ firing' = firing
    BY <1>1, <1>2, <1>4
  <2>2. Idle(p)' = Idle(p)
    BY <1>2 DEF Idle, Going
  <2>3. /\ tick[p].start = {} /\ tick[p].at # "none" /\ Idle(p)
        /\ firing # p => Left(tick[p])' \subseteq hurt'
    BY <1>1, <1>2 DEF Place
  <2> HIDE DEF Idle, Left
  <2> QED BY <1>1, <1>4, <2>1, <2>2, <2>3 DEF Place
<1>6. hurt \subseteq hurt'
  BY <1>2
<1>7. Data'
  BY <1>1, <1>2, DataStands DEF SleepInv, DataTyped
<1>8. /\ PlaceTyped' /\ Places'
      /\ tick'[p] = t /\ \A q \in Procs : q # p => tick'[q] = tick[q]
      /\ \A c \in Slots : Waiting(c)' = Waiting(c) /\ Underway(c)' = Underway(c)
  BY <1>2, <1>4, <1>5, <1>6, TickPlaces
<1>9. ASSUME NEW c \in Slots PROVE Counted(c)'
  <2>1. Recordings(c)' = Recordings(c) /\ Claimed(c)' = Claimed(c) /\ Marks(c)' = Marks(c)
    BY <1>2 DEF Recordings, Claimed, Marks
  <2>2. tick'[p].marks[c] \in {0, Marks(c)} /\ tick'[p].start = tick[p].start /\ tick'[p].skip = tick[p].skip
    BY <1>3, <1>4, <1>8
  <2> QED BY <1>2, <1>6, <1>8, <2>1, <2>2, TickSlot
<1> QED BY <1>7, <1>8, <1>9 DEF SleepInv, Account

\* Only the process with the lock has runs.
LEMMA OnlyHolderRuns ==
  ASSUME Places, NEW c \in Slots, NEW p \in Procs, firing = p
  PROVE  /\ Starting(c) => phase[p] = "open" /\ c \in tick[p].start
         /\ Waiting(c) => c \in tasks[p]
         /\ Underway(c) => Going(p, c)
<1>1. ASSUME NEW q \in Procs, q # p
      PROVE  c \notin tasks[q] /\ ~Going(q, c) /\ ~(phase[q] = "open" /\ c \in tick[q].start)
  BY <1>1 DEF Places, Place, Idle
<1> QED BY <1>1 DEF Starting, Waiting, Underway

LEMMA RecoverKeeps ==
  ASSUME SleepInv, NEW p \in Procs, NEW c \in Slots, Recover(p, c)
  PROVE  SleepInv'
<1>1. tick[p] \in Ticks /\ tick \in [Procs -> Ticks] /\ Place(p) /\ DataTyped /\ PlaceTyped
  BY DEF SleepInv, PlaceTyped, Places, Data
<1>2. /\ tick[p].at = "recover" /\ tick[p].marks[c] > 0 /\ tick[p].start = {}
      /\ UNCHANGED <<now, firing, running, phase, tasks, claims, passed, rewound>>
  BY <1>1 DEF Recover, Place, history
<1>3. tick[p].marks \in [Slots -> Nat]
  BY <1>1 DEF Ticks
<1>4. PICK t \in Ticks :
        /\ tick' = [tick EXCEPT ![p] = t] /\ t.skip \subseteq tick[p].skip /\ t.start = {}
        /\ t.at \in {"recover", "none"}
        /\ t.at = "none" => RecordingFails(c, "interrupted") /\ \A d \in Slots : t.marks[d] = 0
        /\ t.at = "recover" => /\ Recorded(c, "interrupted")
                               /\ \A d \in Slots : t.marks[d] = IF d = c THEN tick[p].marks[d] - 1
                                                                 ELSE tick[p].marks[d]
  <2>1. CASE Recorded(c, "interrupted") /\ tick' = [tick EXCEPT ![p].marks[c] = @ - 1]
    <3> DEFINE less == [tick[p].marks EXCEPT ![c] = tick[p].marks[c] - 1]
               t == [tick[p] EXCEPT !.marks = less]
    <3>1. less \in [Slots -> Nat] /\ \A d \in Slots : less[d] = IF d = c THEN tick[p].marks[d] - 1
                                                                ELSE tick[p].marks[d]
      BY <1>2, <1>3
    <3>2. tick' = [tick EXCEPT ![p].marks = less]
      BY <2>1
    <3> HIDE DEF less
    <3>3. t \in Ticks /\ t.at = tick[p].at /\ t.skip = tick[p].skip /\ t.start = tick[p].start /\ t.marks = less
      BY <1>1, <3>1 DEF Ticks
    <3>4. tick' = [tick EXCEPT ![p] = t]
      BY <1>1, <3>2
    <3> HIDE DEF t
    <3> QED BY ZenonT(40), <1>2, <2>1, <3>1, <3>3, <3>4
  <2>2. CASE RecordingFails(c, "interrupted") /\ Abandon(p)
    <3>1. NoTick \in Ticks /\ NoTick.at = "none" /\ NoTick.skip = {} /\ NoTick.start = {}
          /\ \A d \in Slots : NoTick.marks[d] = 0
      BY NoTickIsTick
    <3> QED BY <2>2, <3>1 DEF Abandon
  <2> QED BY <2>1, <2>2 DEF Recover
<1>5. tick'[p] = t
  BY <1>1, <1>4
<1>6. /\ Data' /\ hurt \subseteq hurt'
      /\ \A d \in Slots :
           /\ Claimed(d)' = Claimed(d)
           /\ d \notin hurt' =>
                   \/ Recordings(d)' = Recordings(d) /\ Marks(d)' = Marks(d)
                   \/ /\ d = c /\ Recordings(d)' = Recordings(d) + 1
                      /\ Marks(d)' = IF Marks(d) > 1 THEN Marks(d) - 1 ELSE 0
  BY <1>2, <1>4, Recording1 DEF Kinds, SleepInv
<1>7. \A d \in Slots : t.marks[d] > 0 => tick[p].marks[d] > 0 /\ t.at = "recover"
  BY <1>2, <1>3, <1>4
<1>8. Place(p)'
  <2>1. phase'[p] = phase[p] /\ tasks'[p] = tasks[p] /\ firing' = firing
    BY <1>2
  <2>2. Idle(p)' = Idle(p)
    BY <1>2 DEF Idle, Going
  <2>3. Left(t) \subseteq Left(tick[p]) /\ (t.at # "recover" => Left(t) = {})
    BY <1>7 DEF Left
  <2>4. Left(tick[p])' = Left(t)
    BY <1>5 DEF Left
  <2> HIDE DEF Idle, Left
  <2> QED BY <1>1, <1>2, <1>4, <1>5, <1>6, <2>1, <2>2, <2>3, <2>4 DEF Place
<1>9. /\ PlaceTyped' /\ Places'
      /\ \A q \in Procs : q # p => tick'[q] = tick[q]
      /\ \A d \in Slots : Waiting(d)' = Waiting(d) /\ Underway(d)' = Underway(d)
  BY <1>2, <1>4, <1>6, <1>8, TickPlaces
<1>10. ASSUME NEW d \in Slots PROVE Counted(d)'
  <2>1. Counted(d) /\ Marks(d) \in Nat /\ Recordings(d) \in Nat
    BY <1>1, DataNumbers DEF SleepInv, Account
  <2>2. Skipping(d)' \subseteq Skipping(d) /\ (Starting(d)' => Starting(d))
    BY <1>2, <1>4, <1>5, <1>9 DEF Skipping, Starting
  <2>3. CASE d \in hurt'
    <3>1. IsFiniteSet(Skipping(d)')
      BY <2>1, <2>2, FewerElements DEF Counted
    <3> QED BY <2>3, <3>1 DEF Counted
  <2>4. CASE d \notin hurt' /\ Recordings(d)' = Recordings(d) /\ Marks(d)' = Marks(d)
    <3>1. t.at = "recover" => d # c
      BY <1>1, <1>4, <2>1, <2>4, RecordFacts DEF Recorded, Kinds
    <3>2. t.marks[d] \in {0, Marks(d)} \/ t.marks[d] = tick[p].marks[d]
      BY <1>4, <3>1
    <3>3. /\ tick'[p].marks[d] \in {0, Marks(d)} \/ (firing' = firing /\ tick'[p].marks[d] = tick[p].marks[d])
          /\ d \in tick'[p].start => d \in tick[p].start
          /\ d \in tick'[p].skip => d \in tick[p].skip
          /\ firing' = firing \/ (firing = NoProc /\ firing' = p)
      BY <1>2, <1>4, <1>5, <3>2
    <3> QED BY <1>2, <1>6, <1>9, <2>4, <3>3, TickSlot
  <2>5. CASE d \notin hurt' /\ d = c /\ Recordings(d)' = Recordings(d) + 1
             /\ Marks(d)' = IF Marks(d) > 1 THEN Marks(d) - 1 ELSE 0
    <3>1. firing = p
      BY <1>1, <1>2, <1>6, <2>5 DEF Place, Left
    <3>2. t.at = "recover"
      <4>1. CASE t.at = "none"
        <5>1. RecordingFails(c, "interrupted") /\ c \notin hurt'
          BY <1>4, <2>5, <4>1
        <5>2. Recordings(c)' = Recordings(c)
          BY <5>1 DEF RecordingFails, Recordings
        <5> QED BY <2>1, <2>5, <5>2
      <4> QED BY <1>4, <4>1
    <3>3. Runs(d) = 0 /\ Runs(d)' \in Nat /\ Runs(d)' <= Runs(d)
      <4>1. ~Starting(d) /\ ~Waiting(d) /\ ~Underway(d)
        BY <1>1, <1>2, <3>1, OnlyHolderRuns DEF Place, Idle, SleepInv
      <4> QED BY <1>9, <2>2, <4>1, RunNumbers, RunsFewer
    <3>4. d \notin hurt => Noted(d) + Runs(d)' + 1 <= Claimed(d)
      <4> SUFFICES ASSUME d \notin hurt PROVE Noted(d) + Runs(d)' + 1 <= Claimed(d)
        OBVIOUS
      <4>1. Noted(d) + tick[p].marks[d] <= Claimed(d)
        BY <2>1, <3>1 DEF Counted
      <4>2. Noted(d) \in Nat /\ tick[p].marks[d] \in Nat /\ Claimed(d) \in Nat
        BY <1>1, <1>3, <2>1, DataNumbers, FewerElements, FS_CardinalityType DEF Noted, Counted
      <4>3. Runs(d)' = 0
        BY <3>3
      <4> QED BY <1>2, <2>5, <4>1, <4>2, <4>3
    <3>5. \A q \in Procs : firing' = q =>
             \/ tick'[q].marks[d] = 0
             \/ firing = q /\ tick'[q].marks[d] + 1 = tick[q].marks[d] /\ tick'[q].marks[d] \in Nat
      BY <1>2, <1>3, <1>4, <1>5, <2>5, <3>1, <3>2
    <3> QED BY <1>1, <1>6, <2>1, <2>2, <2>5, <3>3, <3>4, <3>5, SlotSettles
  <2> QED BY <1>6, <2>3, <2>4, <2>5
<1> QED BY <1>6, <1>9, <1>10 DEF SleepInv, Account

\* A claim, whether the tick goes on after it or fails.
LEMMA Claiming ==
  ASSUME SleepInv, NEW p \in Procs, NEW a \in Automations, NEW s \in SlotTimes, NEW skip \in BOOLEAN,
         s \in Due(a), Handled(a, s, skip), Count(<<a, s>>, skip),
         UNCHANGED <<now, firing, running, phase, tasks, records, rewound, hurt>>,
         NEW t \in Ticks, tick' = [tick EXCEPT ![p] = t], Place(p)',
         t.marks \in {tick[p].marks, NoTick.marks},
         t.start \subseteq (IF skip THEN tick[p].start ELSE tick[p].start \cup {<<a, s>>}),
         t.skip \subseteq (IF skip THEN {<<a, s>>} ELSE {})
  PROVE  SleepInv'
<1> DEFINE c == <<a, s>>
<1>1. /\ tick[p] \in Ticks /\ tick \in [Procs -> Ticks] /\ DataTyped /\ PlaceTyped
      /\ c \in Slots
  BY DEF SleepInv, PlaceTyped, Data, Slots
<1>2. /\ Data'
      /\ \A d \in Slots :
           /\ Recordings(d)' = Recordings(d)
           /\ d # c => Claimed(d)' = Claimed(d) /\ Marks(d)' = Marks(d)
           /\ d = c => /\ Claimed(d)' = Claimed(d) + 1
                       /\ Marks(d)' = Marks(d) + IF skip THEN 0 ELSE 1
  BY ClaimFacts DEF SleepInv
<1>3. /\ PlaceTyped' /\ Places' /\ tick'[p] = t
      /\ \A q \in Procs : q # p => tick'[q] = tick[q]
      /\ \A d \in Slots : Waiting(d)' = Waiting(d) /\ Underway(d)' = Underway(d)
  BY TickPlaces
<1> HIDE DEF c
<1>4. /\ t.start \subseteq (IF skip THEN tick[p].start ELSE tick[p].start \cup {c})
      /\ t.skip \subseteq (IF skip THEN {c} ELSE {})
  BY DEF c
<1>5. \A d \in Slots : t.marks[d] \in {0, tick[p].marks[d]}
  BY DEF NoTick
<1>6. ASSUME NEW d \in Slots, d # c PROVE Counted(d)'
  <2>1. /\ tick'[p].marks[d] \in {0, Marks(d)} \/ (firing' = firing /\ tick'[p].marks[d] = tick[p].marks[d])
        /\ d \in tick'[p].start => d \in tick[p].start
        /\ d \in tick'[p].skip => d \in tick[p].skip
    BY <1>3, <1>4, <1>5, <1>6
  <2> QED BY <1>2, <1>3, <1>6, <2>1, TickSlot
<1>7. Counted(c)'
  <2>1. Skipping(c)' \subseteq (IF skip THEN Skipping(c) \cup {p} ELSE Skipping(c))
    BY <1>3, <1>4 DEF Skipping
  <2>2. skip => (Starting(c)' => Starting(c))
    BY <1>3, <1>4 DEF Starting
  <2>3. \A q \in Procs : firing' = q =>
           \/ tick'[q].marks[c] = 0
           \/ firing = q /\ tick'[q].marks[c] = tick[q].marks[c]
    BY <1>1, <1>3, <1>5
  <2>4. Counted(c) /\ hurt \subseteq hurt'
    BY <1>1 DEF SleepInv, Account
  <2> QED BY <1>1, <1>2, <1>3, <2>1, <2>2, <2>3, <2>4, SlotClaimed
<1> QED BY <1>2, <1>3, <1>6, <1>7 DEF SleepInv, Account

\* Where the thread is after its step, when it had read the store before.
LEMMA PlaceAfterRead ==
  ASSUME SleepInv, NEW p \in Procs, tick[p].at \in {"scan", "note"},
         UNCHANGED <<firing, running, phase, tasks>>, hurt \subseteq hurt',
         NEW t \in Ticks, tick' = [tick EXCEPT ![p] = t], t.at \in {"scan", "note", "none"},
         t.at = "none" => t.start = {}, t.marks \in {tick[p].marks, NoTick.marks}
  PROVE  Place(p)'
<1>1. tick \in [Procs -> Ticks] /\ Place(p)
  BY DEF SleepInv, PlaceTyped, Places
<1>2. tick'[p] = t
  BY <1>1
<1>3. Idle(p)' = Idle(p)
  BY DEF Idle, Going
<1>4. Left(tick[p]) = {}
  BY <1>1 DEF Place
<1>5. Left(t) = {}
  BY <1>4 DEF Left, NoTick
<1>6. Left(tick[p])' = {}
  BY <1>2, <1>5 DEF Left
<1>7. phase[p] # "closed" /\ (firing # p => Idle(p) /\ phase[p] # "open")
  BY <1>1 DEF Place
<1> HIDE DEF Idle, Left
<1> QED BY <1>1, <1>2, <1>3, <1>6, <1>7 DEF Place

LEMMA ClaimKeeps ==
  ASSUME SleepInv, NEW p \in Procs, NEW a \in Automations, NEW s \in SlotTimes, NEW skip \in BOOLEAN,
         Claim(p, a, s, skip)
  PROVE  SleepInv'
<1>1. tick[p] \in Ticks /\ tick \in [Procs -> Ticks] /\ <<a, s>> \in Slots
  BY DEF SleepInv, PlaceTyped, Slots
<1> DEFINE l == IF skip THEN "note" ELSE "scan"
           f == tick[p].found \ {<<a, s, skip>>}
           k == IF skip THEN {<<a, s>>} ELSE {}
           st == IF skip THEN tick[p].start ELSE tick[p].start \cup {<<a, s>>}
           t == [tick[p] EXCEPT !.at = l, !.found = f, !.skip = k, !.start = st]
<1>2. /\ tick[p].at = "scan" /\ s \in Due(a) /\ Handled(a, s, skip) /\ Count(<<a, s>>, skip)
      /\ tick' = [tick EXCEPT ![p].at = l, ![p].found = f, ![p].skip = k, ![p].start = st]
      /\ UNCHANGED <<now, firing, running, phase, tasks, records, rewound, hurt>>
  BY DEF Claim
<1>3. /\ l \in {"note", "scan"} /\ f \in SUBSET (Automations \X SlotTimes \X BOOLEAN)
      /\ k \in SUBSET Slots /\ st \in SUBSET Slots
  BY <1>1 DEF Ticks
<1>4. /\ k \subseteq (IF skip THEN {<<a, s>>} ELSE {})
      /\ st \subseteq (IF skip THEN tick[p].start ELSE tick[p].start \cup {<<a, s>>})
  OBVIOUS
<1> HIDE DEF l, f, k, st
<1>5. /\ t \in Ticks /\ t.at = l /\ t.skip = k /\ t.start = st /\ t.marks = tick[p].marks
      /\ tick' = [tick EXCEPT ![p] = t]
  BY <1>1, <1>2, <1>3 DEF Ticks
<1> HIDE DEF t
<1>6. Place(p)'
  BY <1>2, <1>3, <1>5, PlaceAfterRead
<1>7. /\ t.marks \in {tick[p].marks, NoTick.marks}
      /\ t.start \subseteq (IF skip THEN tick[p].start ELSE tick[p].start \cup {<<a, s>>})
      /\ t.skip \subseteq (IF skip THEN {<<a, s>>} ELSE {})
  BY <1>4, <1>5
<1> QED BY <1>2, <1>5, <1>6, <1>7, Claiming

LEMMA ClaimFailsKeeps ==
  ASSUME SleepInv, NEW p \in Procs, NEW a \in Automations, NEW s \in SlotTimes, NEW skip \in BOOLEAN,
         ClaimFails(p, a, s, skip)
  PROVE  SleepInv'
<1>1. /\ tick[p].at = "scan" /\ tick' = [tick EXCEPT ![p] = NoTick]
      /\ UNCHANGED <<now, firing, running, phase, tasks, records, rewound, hurt>>
      /\ \/ UNCHANGED <<store, claims, passed>>
         \/ s \in Due(a) /\ Handled(a, s, skip) /\ Count(<<a, s>>, skip)
  BY DEF ClaimFails, Abandon
<1>2. /\ NoTick \in Ticks /\ NoTick.at = "none" /\ NoTick.start = {} /\ NoTick.skip = {}
      /\ NoTick.marks \in {tick[p].marks, NoTick.marks}
  BY NoTickIsTick
<1>3. Place(p)'
  BY <1>1, <1>2, PlaceAfterRead
<1>4. CASE UNCHANGED <<store, claims, passed>>
  <2>1. NoTick.start \subseteq tick[p].start /\ NoTick.skip \subseteq tick[p].skip
    BY <1>2
  <2> QED BY <1>1, <1>2, <1>3, <1>4, <2>1, QuietTick
<1>5. CASE s \in Due(a) /\ Handled(a, s, skip) /\ Count(<<a, s>>, skip)
  <2>1. /\ NoTick.start \subseteq (IF skip THEN tick[p].start ELSE tick[p].start \cup {<<a, s>>})
        /\ NoTick.skip \subseteq (IF skip THEN {<<a, s>>} ELSE {})
    BY <1>2
  <2> QED BY <1>1, <1>2, <1>3, <1>5, <2>1, Claiming
<1> QED BY <1>1, <1>4, <1>5

LEMMA NoteKeeps ==
  ASSUME SleepInv, NEW p \in Procs, NEW c \in Slots, NoteSkipped(p, c)
  PROVE  SleepInv'
<1>1. tick[p] \in Ticks /\ tick \in [Procs -> Ticks] /\ DataTyped /\ PlaceTyped
  BY DEF SleepInv, PlaceTyped, Data
<1>2. /\ tick[p].at = "note" /\ c \in tick[p].skip
      /\ Recorded(c, "skipped") \/ RecordingFails(c, "skipped")
      /\ UNCHANGED <<now, firing, running, phase, tasks, claims, passed, rewound>>
  BY DEF NoteSkipped, history
<1>3. PICK t \in Ticks :
        /\ tick' = [tick EXCEPT ![p] = t] /\ t.skip = {} /\ t.start \subseteq tick[p].start
        /\ t.at \in {"scan", "none"} /\ t.marks \in {tick[p].marks, NoTick.marks}
        /\ t.at = "none" => t.start = {}
  <2>1. CASE tick' = [tick EXCEPT ![p].at = "scan", ![p].skip = {}]
    <3> DEFINE t == [tick[p] EXCEPT !.at = "scan", !.skip = {}]
    <3>1. /\ t \in Ticks /\ t.skip = {} /\ t.start = tick[p].start /\ t.at = "scan"
          /\ t.marks = tick[p].marks /\ tick' = [tick EXCEPT ![p] = t]
      BY <1>1, <2>1 DEF Ticks
    <3> HIDE DEF t
    <3> QED BY <3>1
  <2>2. CASE Abandon(p)
    BY <2>2, NoTickIsTick DEF Abandon
  <2> QED BY <2>1, <2>2 DEF NoteSkipped
<1>4. tick'[p] = t
  BY <1>1, <1>3
<1>5. /\ Data' /\ hurt \subseteq hurt'
      /\ \A d \in Slots :
           /\ Claimed(d)' = Claimed(d)
           /\ d \notin hurt' =>
                   \/ Recordings(d)' = Recordings(d) /\ Marks(d)' = Marks(d)
                   \/ /\ d = c /\ Recordings(d)' = Recordings(d) + 1
                      /\ Marks(d)' = IF Marks(d) > 1 THEN Marks(d) - 1 ELSE 0
  BY <1>2, Recording1 DEF Kinds, SleepInv
<1>6. Place(p)'
  BY <1>2, <1>3, <1>5, PlaceAfterRead
<1>7. /\ PlaceTyped' /\ Places'
      /\ \A q \in Procs : q # p => tick'[q] = tick[q]
      /\ \A d \in Slots : Waiting(d)' = Waiting(d) /\ Underway(d)' = Underway(d)
  BY <1>2, <1>3, <1>5, <1>6, TickPlaces
<1>8. ASSUME NEW d \in Slots PROVE Counted(d)'
  <2>1. Counted(d) /\ Marks(d) \in Nat /\ Recordings(d) \in Nat
    BY <1>1, DataNumbers DEF SleepInv, Account
  <2>2. Skipping(d)' \subseteq Skipping(d) /\ (Starting(d)' => Starting(d))
    BY <1>2, <1>3, <1>4, <1>7 DEF Skipping, Starting
  <2>3. \A q \in Procs : firing' = q =>
             \/ tick'[q].marks[d] \in {0, Marks(d)}
             \/ firing = q /\ tick'[q].marks[d] = tick[q].marks[d]
    <3>1. t.marks[d] \in {0, tick[p].marks[d]}
      BY <1>3 DEF NoTick
    <3> QED BY <1>2, <1>4, <1>7, <3>1
  <2>4. CASE d \in hurt'
    <3>1. IsFiniteSet(Skipping(d)')
      BY <2>1, <2>2, FewerElements DEF Counted
    <3> QED BY <2>4, <3>1 DEF Counted
  <2>5. CASE d \notin hurt' /\ Recordings(d)' = Recordings(d) /\ Marks(d)' = Marks(d)
    BY <1>1, <1>5, <1>7, <2>1, <2>2, <2>3, <2>5, SlotStands
  <2>6. CASE d \notin hurt' /\ d = c /\ Recordings(d)' = Recordings(d) + 1
             /\ Marks(d)' = IF Marks(d) > 1 THEN Marks(d) - 1 ELSE 0
    <3>1. p \in Skipping(d) \ Skipping(d)'
      BY <1>2, <1>3, <1>4, <2>6 DEF Skipping
    <3>2. /\ IsFiniteSet(Skipping(d)') /\ Noted(d) \in Nat /\ Noted(d)' \in Nat
          /\ Noted(d)' + 1 + Recordings(d) <= Noted(d) + Recordings(d)'
      BY <1>1, <2>1, <2>2, <2>6, <3>1, SkippingFewer DEF Counted
    <3>3. Noted(d)' <= Noted(d)
      BY <2>1, <2>6, <3>2
    <3>4. Runs(d)' \in Nat /\ Runs(d)' <= Runs(d)
      BY <1>7, <2>2, RunsFewer
    <3>5. Marks(d)' \in Nat /\ Marks(d)' <= Marks(d)
      BY <2>1, <2>6
    <3> QED BY <1>1, <1>5, <2>1, <2>3, <3>2, <3>3, <3>4, <3>5, SlotHolds
  <2> QED BY <1>5, <2>4, <2>5, <2>6
<1> QED BY <1>5, <1>7, <1>8 DEF SleepInv, Account

LEMMA EndTickKeeps ==
  ASSUME SleepInv, NEW p \in Procs, EndTick(p)
  PROVE  SleepInv'
<1>1. /\ tick \in [Procs -> Ticks] /\ tasks \in [Procs -> SUBSET Slots]
      /\ tick[p] \in Ticks /\ DataTyped /\ PlaceTyped /\ Places /\ Place(p)
  BY DEF SleepInv, PlaceTyped, Data, Places
<1>2. /\ tick[p].at = "scan" /\ tick' = [tick EXCEPT ![p] = NoTick]
      /\ tasks' = [tasks EXCEPT ![p] = IF phase[p] = "open" THEN tasks[p] \cup tick[p].start ELSE tasks[p]]
      /\ UNCHANGED <<now, store, firing, running, phase, records, claims, passed, rewound, hurt>>
  BY DEF EndTick, Abandon, history
<1>3. /\ tick'[p] = NoTick /\ \A q \in Procs : q # p => tick'[q] = tick[q] /\ tasks'[q] = tasks[q]
      /\ phase[p] = "open" => tasks'[p] = tasks[p] \cup tick[p].start
      /\ phase[p] # "open" => tasks'[p] = tasks[p]
  BY <1>1, <1>2
<1>4. Data'
  BY <1>2, DataStands DEF SleepInv, Data, DataTyped
<1>5. PlaceTyped'
  <2>1. tick[p].start \in SUBSET Slots
    BY <1>1 DEF Ticks
  <2>2. tasks' \in [Procs -> SUBSET Slots]
    BY <1>1, <1>2, <2>1
  <2>3. tick' \in [Procs -> Ticks]
    BY <1>1, <1>2, NoTickIsTick
  <2> QED BY <1>1, <1>2, <2>2, <2>3 DEF PlaceTyped
<1>6. /\ phase[p] = "open" => firing = p
      /\ phase[p] # "closed"
      /\ phase[p] # "open" => tasks[p] = {}
  BY <1>1, <1>2 DEF Place
<1>7. ASSUME NEW q \in Procs PROVE Place(q)'
  <2>1. \A c \in Slots : Going(q, c)' = Going(q, c)
    BY <1>2 DEF Going
  <2>2. CASE q # p
    BY <1>1, <1>2, <1>3, <2>1, <2>2, OtherPlace DEF Places
  <2>3. CASE q = p
    <3>1. firing # p => Idle(p) /\ tasks'[p] = tasks[p]
      BY <1>1, <1>3, <1>6 DEF Place
    <3>2. firing # p => Idle(p)'
      BY <2>1, <2>3, <3>1 DEF Idle
    <3>3. Left(tick[p])' = {} /\ tick'[p].at = "none" /\ tick'[p].start = {}
      BY <1>3, NoTickIsTick DEF Left
    <3>4. phase[p] = "stopped" => Idle(p)'
      BY <1>1, <1>3, <1>6, <2>1, <2>3 DEF Place, Idle
    <3> HIDE DEF Idle, Left
    <3> QED BY <1>2, <1>3, <1>6, <2>3, <3>2, <3>3, <3>4 DEF Place
  <2> QED BY <2>2, <2>3
<1>8. ASSUME NEW c \in Slots PROVE Counted(c)'
  <2>1. Counted(c) /\ Marks(c) \in Nat /\ Recordings(c) \in Nat
    BY <1>1, DataNumbers DEF SleepInv, Account
  <2>2. /\ Recordings(c)' = Recordings(c) /\ Claimed(c)' = Claimed(c) /\ Marks(c)' = Marks(c)
        /\ hurt \subseteq hurt'
    BY <1>2 DEF Recordings, Claimed, Marks
  <2>3. Skipping(c)' \subseteq Skipping(c)
    BY <1>3, NoTickIsTick DEF Skipping
  <2>4. \A q \in Procs : firing' = q =>
             \/ tick'[q].marks[c] \in {0, Marks(c)}
             \/ firing = q /\ tick'[q].marks[c] = tick[q].marks[c]
    BY <1>2, <1>3, NoTickIsTick
  <2>5. Underway(c)' = Underway(c)
    BY <1>2 DEF Underway, Going
  <2>6. Starting(c)' => Starting(c)
    BY <1>2, <1>3, NoTickIsTick DEF Starting
  <2>7. CASE Waiting(c)' => Waiting(c)
    BY <1>1, <2>1, <2>2, <2>3, <2>4, <2>5, <2>6, <2>7, SlotStands
  <2>8. CASE Waiting(c)' /\ ~Waiting(c)
    <3>1. phase[p] = "open" /\ c \in tick[p].start /\ firing = p
      BY <1>3, <1>6, <2>8 DEF Waiting
    <3>2. Starting(c)
      BY <3>1 DEF Starting
    <3>3. ~Starting(c)'
      <4>1. \A q \in Procs : q # p => ~(phase[q] = "open" /\ c \in tick[q].start)
        BY <1>1, <3>1 DEF Places, Place
      <4> QED BY <1>2, <1>3, <4>1, NoTickIsTick DEF Starting
    <3>4. Runs(c)' = Runs(c) /\ Runs(c) \in Nat
      <4>1. /\ One(Starting(c)) = 1 /\ One(Waiting(c)) = 0 /\ One(Underway(c)) \in {0, 1}
            /\ One(Starting(c))' = 0 /\ One(Waiting(c))' = 1 /\ One(Underway(c))' = One(Underway(c))
        BY <2>5, <2>8, <3>2, <3>3 DEF One
      <4>2. Runs(c)' = One(Starting(c))' + One(Waiting(c))' + One(Underway(c))'
        BY DEF Runs
      <4> HIDE DEF One
      <4> QED BY <4>1, <4>2 DEF Runs
    <3>5. /\ IsFiniteSet(Skipping(c)') /\ Noted(c) \in Nat /\ Noted(c)' \in Nat
          /\ Noted(c)' + Recordings(c) <= Noted(c) + Recordings(c)'
      BY <1>1, <2>1, <2>2, <2>3, SkippingFewer DEF Counted
    <3>6. Noted(c)' <= Noted(c)
      BY <2>1, <2>2, <3>5
    <3>7. Runs(c)' \in Nat /\ Runs(c)' <= Runs(c) /\ Marks(c)' \in Nat /\ Marks(c)' <= Marks(c)
      BY <2>1, <2>2, <3>4
    <3> QED BY <1>1, <2>1, <2>2, <2>4, <3>5, <3>6, <3>7, SlotHolds
  <2> QED BY <2>7, <2>8
<1> QED BY <1>4, <1>5, <1>7, <1>8 DEF SleepInv, Places, Account

----------------------------------------------------------------------------
(* The tasks of the loop, and the life of a process.                       *)

\* A step of p's tasks: p has the lock, and nothing loaded.
LEMMA RunPlaces ==
  ASSUME SleepInv, NEW p \in Procs, ~Idle(p), UNCHANGED <<firing, phase, tick>>, hurt \subseteq hurt',
         running' \in [Automations -> {NoRun, Manual} \cup Procs \X SlotTimes],
         tasks' \in [Procs -> SUBSET Slots], tasks'[p] \subseteq tasks[p],
         \A q \in Procs : q # p => tasks'[q] = tasks[q] /\ \A c \in Slots : Going(q, c)' => Going(q, c)
  PROVE  /\ PlaceTyped' /\ Places' /\ firing = p
         /\ \A c \in Slots, q \in Procs : firing' = q => tick'[q].marks[c] = 0
<1>1. PlaceTyped /\ Places /\ Place(p)
  BY DEF SleepInv, Places
<1>2. firing = p /\ tick[p].at \notin {"marks", "recover"} /\ phase[p] \in {"open", "stopping"}
  BY <1>1 DEF Place, PlaceTyped
<1>3. PlaceTyped'
  BY <1>1 DEF PlaceTyped
<1>4. ASSUME NEW q \in Procs PROVE Place(q)'
  <2>1. CASE q # p
    BY <1>1, <2>1, OtherPlace DEF Places
  <2>2. CASE q = p
    <3>1. Left(tick[p])' = {} /\ (phase[p] # "open" => tasks'[p] = {})
      BY <1>1, <1>2 DEF Place, Left
    <3>2. tick[p].at \in {"none", "late", "marks", "recover", "read"} => tick[p].start = {}
      BY <1>1 DEF Place
    <3> HIDE DEF Idle, Left
    <3> QED BY <1>2, <2>2, <3>1, <3>2 DEF Place
  <2> QED BY <2>1, <2>2
<1>5. ASSUME NEW c \in Slots, NEW q \in Procs, firing' = q PROVE tick'[q].marks[c] = 0
  <2>1. Left(tick[p]) = {} /\ q = p
    BY <1>1, <1>2, <1>5 DEF Place
  <2>2. tick[p].marks[c] \in Nat
    BY <1>1 DEF PlaceTyped, Ticks
  <2> QED BY <2>1, <2>2 DEF Left
<1> QED BY <1>2, <1>3, <1>4, <1>5 DEF Places

\* A task records what it is about to run as skipped, or what it ran.
LEMMA RunRecorded ==
  ASSUME SleepInv, NEW p \in Procs, NEW c \in Slots,
         ~Idle(p), UNCHANGED <<firing, phase, tick>>, hurt \subseteq hurt', Data',
         running' \in [Automations -> {NoRun, Manual} \cup Procs \X SlotTimes],
         tasks' \in [Procs -> SUBSET Slots], tasks'[p] \subseteq tasks[p],
         \A q \in Procs : q # p => tasks'[q] = tasks[q],
         \A q \in Procs, d \in Slots : Going(q, d)' => Going(q, d),
         (Waiting(c) /\ ~Waiting(c)') \/ (Underway(c) /\ ~Underway(c)'),
         \A d \in Slots :
           /\ Claimed(d)' = Claimed(d)
           /\ d \notin hurt' =>
                   \/ Recordings(d)' = Recordings(d) /\ Marks(d)' = Marks(d)
                   \/ /\ d = c /\ Recordings(d)' = Recordings(d) + 1
                      /\ Marks(d)' = IF Marks(d) > 1 THEN Marks(d) - 1 ELSE 0
  PROVE  SleepInv'
<1>1. DataTyped /\ PlaceTyped
  BY DEF SleepInv, Data
<1>2. /\ PlaceTyped' /\ Places' /\ firing = p
      /\ \A d \in Slots, q \in Procs : firing' = q => tick'[q].marks[d] = 0
  BY RunPlaces
<1>3. ASSUME NEW d \in Slots PROVE Counted(d)'
  <2>1. Counted(d) /\ Marks(d) \in Nat /\ Recordings(d) \in Nat
    BY <1>1, DataNumbers DEF SleepInv, Account
  <2>2. Skipping(d)' = Skipping(d) /\ Starting(d)' = Starting(d)
    BY DEF Skipping, Starting
  <2>3. (Waiting(d)' => Waiting(d)) /\ (Underway(d)' => Underway(d))
    <3>1. \A q \in Procs : tasks'[q] \subseteq tasks[q]
      OBVIOUS
    <3> QED BY <3>1 DEF Waiting, Underway
  <2>4. CASE d \in hurt'
    BY <2>1, <2>2, <2>4 DEF Counted
  <2>5. CASE d \notin hurt' /\ Recordings(d)' = Recordings(d) /\ Marks(d)' = Marks(d)
    BY <1>1, <1>2, <2>1, <2>2, <2>3, <2>5, SlotStands
  <2>6. CASE d \notin hurt' /\ d = c /\ Recordings(d)' = Recordings(d) + 1
             /\ Marks(d)' = IF Marks(d) > 1 THEN Marks(d) - 1 ELSE 0
    <3>1. Runs(d) \in Nat /\ Runs(d)' \in Nat /\ Runs(d)' + 1 <= Runs(d)
      <4>1. /\ One(Starting(d)) = IF Starting(d) THEN 1 ELSE 0
            /\ One(Waiting(d)) = IF Waiting(d) THEN 1 ELSE 0
            /\ One(Underway(d)) = IF Underway(d) THEN 1 ELSE 0
        BY DEF One
      <4>2. /\ One(Starting(d))' = IF Starting(d)' THEN 1 ELSE 0
            /\ One(Waiting(d))' = IF Waiting(d)' THEN 1 ELSE 0
            /\ One(Underway(d))' = IF Underway(d)' THEN 1 ELSE 0
        BY DEF One
      <4>3. Runs(d)' = One(Starting(d))' + One(Waiting(d))' + One(Underway(d))'
        BY DEF Runs
      <4>4. (Waiting(d) /\ ~Waiting(d)') \/ (Underway(d) /\ ~Underway(d)')
        BY <2>6
      <4> HIDE DEF One, Starting, Waiting, Underway
      <4> QED BY <2>2, <2>3, <4>1, <4>2, <4>3, <4>4 DEF Runs
    <3>2. d \notin hurt => Noted(d) + Runs(d)' + 1 <= Claimed(d)
      <4> SUFFICES ASSUME d \notin hurt PROVE Noted(d) + Runs(d)' + 1 <= Claimed(d)
        OBVIOUS
      <4>1. Noted(d) + Runs(d) <= Claimed(d)
        BY <2>1 DEF Counted
      <4>2. Noted(d) \in Nat /\ Claimed(d) \in Nat
        BY <1>1, <2>1, DataNumbers, FS_CardinalityType DEF Noted, Counted
      <4> QED BY <3>1, <4>1, <4>2
    <3>3. Skipping(d)' \subseteq Skipping(d)
      BY <2>2
    <3> QED BY <1>1, <1>2, <2>1, <2>6, <3>1, <3>2, <3>3, SlotSettles
  <2> QED BY <2>4, <2>5, <2>6
<1> QED BY <1>2, <1>3 DEF SleepInv, Account

LEMMA BeginKeeps ==
  ASSUME SleepInv, NEW p \in Procs, NEW c \in Slots, BeginRun(p, c)
  PROVE  SleepInv'
<1>1. /\ running \in [Automations -> {NoRun, Manual} \cup Procs \X SlotTimes]
      /\ tasks \in [Procs -> SUBSET Slots]
      /\ Places /\ DataTyped /\ PlaceTyped
  BY DEF SleepInv, PlaceTyped, Data
<1>2. /\ c \in tasks[p] /\ tasks' = [tasks EXCEPT ![p] = tasks[p] \ {c}]
      /\ UNCHANGED <<now, firing, phase, tick, claims, passed, rewound>>
  BY DEF BeginRun, history
<1>3. /\ tasks' \in [Procs -> SUBSET Slots] /\ tasks'[p] = tasks[p] \ {c}
      /\ \A q \in Procs : q # p => tasks'[q] = tasks[q]
      /\ ~Idle(p)
  BY <1>1, <1>2 DEF Idle
<1>4. firing = p
  BY <1>1, <1>3 DEF Places, Place
<1>5. Waiting(c) /\ ~Waiting(c)'
  <2>1. \A q \in Procs : q # p => tasks[q] = {}
    BY <1>1, <1>4 DEF Places, Place, Idle
  <2> QED BY <1>2, <1>3, <2>1 DEF Waiting
<1>6. CASE /\ running[c[1]] = NoRun /\ running' = [running EXCEPT ![c[1]] = <<p, c[2]>>]
           /\ UNCHANGED <<records, store, hurt, faults>>
  <2>1. c[1] \in Automations /\ c[2] \in SlotTimes
    BY SlotParts
  <2>2. running' \in [Automations -> {NoRun, Manual} \cup Procs \X SlotTimes]
    BY <1>1, <1>6, <2>1
  <2>3. ASSUME NEW q \in Procs, NEW d \in Slots, q # p \/ d # c, Going(q, d)'
        PROVE  Going(q, d)
    <3>1. d[1] \in Automations /\ d = <<d[1], d[2]>> /\ c = <<c[1], c[2]>>
      BY SlotParts
    <3>2. CASE d[1] = c[1]
      <4>1. <<q, d[2]>> = <<p, c[2]>>
        BY <1>1, <1>6, <2>1, <2>3, <3>2 DEF Going
      <4> QED BY <2>3, <3>1, <3>2, <4>1
    <3>3. CASE d[1] # c[1]
      BY <1>1, <1>6, <2>3, <3>1, <3>3 DEF Going
    <3> QED BY <3>2, <3>3
  <2>4. \A q \in Procs : q # p => tasks'[q] = tasks[q] /\ \A d \in Slots : Going(q, d)' => Going(q, d)
    BY <1>3, <2>3
  <2>5. /\ PlaceTyped' /\ Places'
        /\ \A d \in Slots, q \in Procs : firing' = q => tick'[q].marks[d] = 0
    BY <1>2, <1>3, <1>6, <2>2, <2>4, RunPlaces
  <2>6. Data'
    BY <1>1, <1>2, <1>6, DataStands DEF SleepInv, DataTyped
  <2>7. ASSUME NEW d \in Slots PROVE Counted(d)'
    <3>1. Counted(d) /\ Marks(d) \in Nat /\ Recordings(d) \in Nat
      BY <1>1, DataNumbers DEF SleepInv, Account
    <3>2. /\ Skipping(d)' = Skipping(d) /\ Starting(d)' = Starting(d)
          /\ Recordings(d)' = Recordings(d) /\ Claimed(d)' = Claimed(d) /\ Marks(d)' = Marks(d)
          /\ hurt \subseteq hurt'
      BY <1>2, <1>6 DEF Skipping, Starting, Recordings, Claimed, Marks
    <3>3. Waiting(d)' => Waiting(d)
      BY <1>3 DEF Waiting
    <3>4. CASE d # c
      <4>1. Underway(d)' => Underway(d)
        BY <2>3, <3>4 DEF Underway
      <4> QED BY <1>1, <2>5, <3>1, <3>2, <3>3, <4>1, SlotStands
    <3>5. CASE d = c
      <4>1. ~Underway(c)
        BY <1>6, NobodyRuns DEF Underway, Going
      <4>2. One(Waiting(c)) = 1 /\ One(Waiting(c))' = 0 /\ One(Underway(c)) = 0
            /\ One(Underway(c))' \in {0, 1} /\ One(Starting(c)) \in {0, 1}
            /\ One(Starting(c))' = One(Starting(c))
        BY <1>5, <3>2, <3>5, <4>1 DEF One
      <4>3. Runs(c)' = One(Starting(c))' + One(Waiting(c))' + One(Underway(c))'
        BY DEF Runs
      <4> HIDE DEF One
      <4>4. Runs(c)' \in Nat /\ Runs(c)' <= Runs(c)
        BY <4>2, <4>3 DEF Runs
      <4>5. /\ IsFiniteSet(Skipping(c)') /\ Noted(c) \in Nat /\ Noted(c)' \in Nat
            /\ Noted(c)' + Recordings(c) <= Noted(c) + Recordings(c)'
        BY <1>1, <3>1, <3>2, <3>5, SkippingFewer DEF Counted
      <4>6. Noted(c)' <= Noted(c)
        BY <3>1, <3>2, <3>5, <4>5
      <4>7. Marks(c)' \in Nat /\ Marks(c)' <= Marks(c)
        BY <3>1, <3>2, <3>5
      <4> QED BY <1>1, <2>5, <3>1, <3>2, <3>5, <4>4, <4>5, <4>6, <4>7, SlotHolds
    <3> QED BY <3>4, <3>5
  <2> QED BY <2>5, <2>6, <2>7 DEF SleepInv, Account
<1>7. CASE (Recorded(c, "skipped") \/ RecordingFails(c, "skipped")) /\ UNCHANGED running
  <2>1. /\ Data' /\ hurt \subseteq hurt'
        /\ \A d \in Slots :
             /\ Claimed(d)' = Claimed(d)
             /\ d \notin hurt' =>
                   \/ Recordings(d)' = Recordings(d) /\ Marks(d)' = Marks(d)
                   \/ /\ d = c /\ Recordings(d)' = Recordings(d) + 1
                      /\ Marks(d)' = IF Marks(d) > 1 THEN Marks(d) - 1 ELSE 0
    BY <1>2, <1>7, Recording1 DEF Kinds, SleepInv
  <2>2. /\ running' \in [Automations -> {NoRun, Manual} \cup Procs \X SlotTimes]
        /\ tasks'[p] \subseteq tasks[p]
        /\ \A q \in Procs, d \in Slots : Going(q, d)' => Going(q, d)
    BY <1>1, <1>3, <1>7 DEF Going
  <2> QED BY <1>2, <1>3, <1>5, <2>1, <2>2, RunRecorded
<1> QED BY <1>6, <1>7 DEF BeginRun

LEMMA EndKeeps ==
  ASSUME SleepInv, NEW p \in Procs, NEW c \in Slots, EndRun(p, c)
  PROVE  SleepInv'
<1>1. /\ running \in [Automations -> {NoRun, Manual} \cup Procs \X SlotTimes]
      /\ tasks \in [Procs -> SUBSET Slots]
      /\ Places /\ DataTyped /\ Data
  BY DEF SleepInv, PlaceTyped, Data
<1>2. /\ running[c[1]] = <<p, c[2]>> /\ running' = [running EXCEPT ![c[1]] = NoRun]
      /\ UNCHANGED <<now, firing, phase, tick, tasks, claims, passed, rewound>>
  BY DEF EndRun, history
<1>3. /\ running' \in [Automations -> {NoRun, Manual} \cup Procs \X SlotTimes]
      /\ running'[c[1]] = NoRun
      /\ \A q \in Procs, d \in Slots : Going(q, d)' => Going(q, d)
      /\ ~Idle(p)
  BY <1>1, <1>2, SlotParts, NobodyRuns DEF Idle, Going
<1>4. Underway(c) /\ ~Underway(c)'
  BY <1>2, <1>3, NobodyRuns DEF Underway, Going
<1>5. /\ Data' /\ hurt \subseteq hurt'
      /\ \A d \in Slots :
           /\ Claimed(d)' = Claimed(d)
           /\ d \notin hurt' =>
                   \/ Recordings(d)' = Recordings(d) /\ Marks(d)' = Marks(d)
                   \/ /\ d = c /\ Recordings(d)' = Recordings(d) + 1
                      /\ Marks(d)' = IF Marks(d) > 1 THEN Marks(d) - 1 ELSE 0
  <2>1. CASE Recorded(c, "ended") \/ RecordingFails(c, "ended")
    BY <1>1, <1>2, <2>1, Recording1 DEF Kinds
  <2>2. CASE /\ hurt' = hurt \cup {c}
             /\ \E n \in 1 .. 2 : \E m \in 1 .. n : Record(c, "ended", n) /\ Unmark(c, m)
    <3>1. PICK n \in 1 .. 2, m \in 1 .. 2 : m <= n /\ Record(c, "ended", n) /\ Unmark(c, m)
      BY <2>2
    <3>2. Data'
      BY <1>1, <1>2, <3>1, DataRecorded DEF Kinds
    <3>3. \A d \in Slots : d # c => Recordings(d)' = Recordings(d) /\ Marks(d)' = Marks(d)
      BY <1>1, <3>1, RecordFacts, UnmarkFacts DEF Kinds
    <3>4. \A d \in Slots : Claimed(d)' = Claimed(d)
      BY <1>2 DEF Claimed
    <3> QED BY <2>2, <3>2, <3>3, <3>4
  <2> QED BY <2>1, <2>2 DEF EndRun
<1> QED BY <1>1, <1>2, <1>3, <1>4, <1>5, RunRecorded

LEMMA CancelledKeeps ==
  ASSUME SleepInv, NEW p \in Procs, NEW c \in Slots, RunCancelled(p, c)
  PROVE  SleepInv'
<1>1. running \in [Automations -> {NoRun, Manual} \cup Procs \X SlotTimes]
  BY DEF SleepInv, PlaceTyped
<1>2. /\ running' = [running EXCEPT ![c[1]] = NoRun]
      /\ UNCHANGED <<now, store, firing, phase, tick, tasks, records, claims, passed, rewound, hurt>>
  BY DEF RunCancelled, history
<1>3. /\ running' \in [Automations -> {NoRun, Manual} \cup Procs \X SlotTimes]
      /\ \A q \in Procs, d \in Slots : Going(q, d)' => Going(q, d)
  BY <1>1, <1>2, SlotParts, NobodyRuns DEF Going
<1>4. Data'
  BY <1>2, DataStands DEF SleepInv, Data, DataTyped
<1>5. \A d \in Slots : /\ Recordings(d)' = Recordings(d) /\ Claimed(d)' = Claimed(d)
                       /\ Marks(d)' <= Marks(d) /\ Marks(d)' \in Nat
  BY <1>2, DataNumbers DEF SleepInv, Data, Recordings, Claimed, Marks
<1> QED BY <1>2, <1>3, <1>4, <1>5, WorldKeeps

\* Opening, stopping and having stopped: one process changes its phase, and
\* may drop its tasks or the lock.
LEMMA PhaseStep ==
  ASSUME SleepInv, NEW p \in Procs,
         UNCHANGED <<now, store, running, records, claims, passed, rewound>>, hurt \subseteq hurt',
         tick' \in [Procs -> Ticks], \A q \in Procs : q # p => tick'[q] = tick[q],
         tick'[p].start = tick[p].start, tick'[p].skip = tick[p].skip, tick'[p].marks = tick[p].marks,
         NEW l \in {"open", "stopping", "stopped"}, phase' = [phase EXCEPT ![p] = l],
         l = "open" => tick[p].at = "none" /\ tick[p].start = {},
         tasks' \in [Procs -> SUBSET Slots], tasks'[p] \subseteq tasks[p],
         \A q \in Procs : q # p => tasks'[q] = tasks[q],
         firing' = firing \/ (firing = p /\ firing' = NoProc),
         Place(p)'
  PROVE  SleepInv'
<1>1. phase \in [Procs -> {"closed", "open", "stopping", "stopped"}] /\ PlaceTyped /\ DataTyped
  BY DEF SleepInv, PlaceTyped, Data
<1>2. phase'[p] = l /\ \A q \in Procs : q # p => phase'[q] = phase[q]
  BY <1>1
<1>3. Data'
  BY DataStands DEF SleepInv, Data, DataTyped
<1>4. PlaceTyped'
  BY <1>1 DEF PlaceTyped
<1>5. ASSUME NEW q \in Procs PROVE Place(q)'
  <2>1. \A c \in Slots : Going(q, c)' => Going(q, c)
    BY DEF Going
  <2>2. CASE q # p
    <3>1. firing' = q <=> firing = q
      BY <2>2, HolderAssumption
    <3> QED BY <1>2, <2>1, <2>2, <3>1, OtherPlace DEF SleepInv, Places
  <2> QED BY <2>2
<1>6. ASSUME NEW c \in Slots PROVE Counted(c)'
  <2>1. /\ Recordings(c)' = Recordings(c) /\ Claimed(c)' = Claimed(c) /\ Marks(c)' = Marks(c)
        /\ Skipping(c)' = Skipping(c) /\ Underway(c)' = Underway(c)
    BY DEF Recordings, Claimed, Marks, Skipping, Underway, Going
  <2>2. Starting(c)' => Starting(c)
    BY <1>2 DEF Starting
  <2>3. Waiting(c)' => Waiting(c)
    BY DEF Waiting
  <2>4. \A q \in Procs : firing' = q => firing = q /\ tick'[q].marks[c] = tick[q].marks[c]
    BY HolderAssumption
  <2>5. Counted(c) /\ Marks(c)' \in Nat /\ Marks(c)' <= Marks(c)
    BY <1>1, <2>1, DataNumbers DEF SleepInv, Account
  <2> QED BY <1>1, <2>1, <2>2, <2>3, <2>4, <2>5, SlotStands
<1> QED BY <1>3, <1>4, <1>5, <1>6 DEF SleepInv, Places, Account

LEMMA PhaseKeeps ==
  ASSUME SleepInv, NEW p \in Procs, Open(p) \/ Stop(p) \/ Stopped(p)
  PROVE  SleepInv'
<1>1. /\ phase \in [Procs -> {"closed", "open", "stopping", "stopped"}]
      /\ tasks \in [Procs -> SUBSET Slots] /\ tick \in [Procs -> Ticks] /\ Place(p)
  BY DEF SleepInv, PlaceTyped, Places
<1>2. CASE Open(p)
  <2>1. /\ phase[p] = "closed" /\ phase' = [phase EXCEPT ![p] = "open"] /\ phase'[p] = "open"
        /\ UNCHANGED <<now, store, firing, running, tick, tasks, records, claims, passed, rewound, hurt>>
    BY <1>1, <1>2 DEF Open, history
  <2>2. tick[p].at = "none" /\ tick[p].start = {} /\ firing # p
    BY <1>1, <2>1 DEF Place
  <2>3. Idle(p)' = Idle(p) /\ Left(tick[p])' = Left(tick[p])
    BY <2>1 DEF Idle, Going, Left
  <2>4. Place(p)'
    BY <1>1, <2>1, <2>2, <2>3 DEF Place
  <2> QED BY <1>1, <2>1, <2>2, <2>4, PhaseStep
<1>3. CASE Stop(p)
  <2>1. /\ phase[p] = "open" /\ phase' = [phase EXCEPT ![p] = "stopping"] /\ phase'[p] = "stopping"
        /\ tasks' = [tasks EXCEPT ![p] = {}]
        /\ UNCHANGED <<now, store, firing, running, records, claims, passed, rewound, hurt>>
    BY <1>1, <1>3 DEF Stop, history
  <2>0. /\ tick' \in [Procs -> Ticks] /\ \A q \in Procs : q # p => tick'[q] = tick[q]
        /\ tick'[p].start = tick[p].start /\ tick'[p].skip = tick[p].skip /\ tick'[p].marks = tick[p].marks
        /\ tick'[p].at = tick[p].at \/ (tick[p].at = "none" /\ tick'[p].at = "late")
    <3>1. CASE UNCHANGED tick
      BY <1>1, <3>1
    <3>2. CASE tick[p].at = "none" /\ At(p, "late")
      BY <1>1, <3>2 DEF At, Ticks
    <3> QED BY <1>3, <3>1, <3>2 DEF Stop
  <2>2. /\ tasks' \in [Procs -> SUBSET Slots] /\ tasks'[p] = {}
        /\ \A q \in Procs : q # p => tasks'[q] = tasks[q]
    BY <1>1, <2>1
  <2>3. (Idle(p) => Idle(p)') /\ Left(tick[p])' = Left(tick[p])
    BY <2>0, <2>1, <2>2 DEF Idle, Going, Left
  <2>4. Place(p)'
    <3> HIDE DEF Idle, Left
    <3> QED BY <1>1, <2>0, <2>1, <2>2, <2>3 DEF Place
  <2>5. tasks'[p] \subseteq tasks[p]
    BY <2>2
  <2> QED BY <2>0, <2>1, <2>2, <2>4, <2>5, PhaseStep
<1>4. CASE Stopped(p)
  <2>1. /\ phase[p] = "stopping" /\ phase' = [phase EXCEPT ![p] = "stopped"] /\ phase'[p] = "stopped"
        /\ hurt' = hurt \cup Left(tick[p])
        /\ \A c \in Slots : ~Going(p, c)
        /\ UNCHANGED <<now, store, running, tick, tasks, records, claims, passed, rewound>>
        /\ firing' = IF firing = p THEN NoProc ELSE firing
    BY <1>1, <1>4 DEF Stopped, history, Going, Release
  <2>2. tasks[p] = {} /\ firing' # p
    BY <1>1, <2>1, HolderAssumption DEF Place
  <2>3. Idle(p)' /\ Left(tick[p])' = Left(tick[p])
    BY <2>1, <2>2 DEF Idle, Going, Left
  <2>4. Place(p)'
    <3>1. /\ tick[p].at \in {"none", "late", "marks", "recover", "read"} => tick[p].start = {}
          /\ tick[p].at # "recover" => Left(tick[p]) = {}
      BY <1>1 DEF Place
    <3> HIDE DEF Idle, Left
    <3> QED BY <2>1, <2>2, <2>3, <3>1 DEF Place
  <2>5. firing' = firing \/ (firing = p /\ firing' = NoProc)
    BY <2>1
  <2>6. hurt \subseteq hurt'
    BY <2>1
  <2> QED BY <1>1, <2>1, <2>4, <2>5, <2>6, PhaseStep
<1> QED BY <1>2, <1>3, <1>4

LEMMA GoneKeeps ==
  ASSUME SleepInv, NEW p \in Procs, Gone(p), UNCHANGED <<now, store, claims, passed, rewound>>,
         \/ UNCHANGED <<records, hurt>>
         \/ \E c \in Slots, kind \in Kinds : Record(c, kind, 1) /\ hurt' = hurt \cup {c}
  PROVE  SleepInv'
<1>1. /\ phase \in [Procs -> {"closed", "open", "stopping", "stopped"}]
      /\ tasks \in [Procs -> SUBSET Slots] /\ tick \in [Procs -> Ticks]
      /\ running \in [Automations -> {NoRun, Manual} \cup Procs \X SlotTimes]
      /\ PlaceTyped /\ DataTyped /\ Data
  BY DEF SleepInv, PlaceTyped, Data
<1>2. /\ phase' = [phase EXCEPT ![p] = "closed"] /\ tick' = [tick EXCEPT ![p] = NoTick]
      /\ firing' = IF firing = p THEN NoProc ELSE firing
      /\ tasks' = [tasks EXCEPT ![p] = {}]
      /\ running' = [a \in Automations |-> IF running[a][1] = p THEN NoRun ELSE running[a]]
  BY DEF Gone, Abandon, Release
<1>3. /\ phase'[p] = "closed" /\ tick'[p] = NoTick /\ tasks'[p] = {} /\ firing' # p
      /\ \A q \in Procs : q # p => phase'[q] = phase[q] /\ tick'[q] = tick[q] /\ tasks'[q] = tasks[q]
  BY <1>1, <1>2, HolderAssumption
<1>4. /\ running' \in [Automations -> {NoRun, Manual} \cup Procs \X SlotTimes]
      /\ \A c \in Slots : ~Going(p, c)'
      /\ \A q \in Procs, c \in Slots : Going(q, c)' => Going(q, c)
  <2>1. ASSUME NEW a \in Automations
        PROVE  /\ running'[a] \in {NoRun, running[a]}
               /\ running[a][1] = p => running'[a] = NoRun
    BY <1>2
  <2>2. running' \in [Automations -> {NoRun, Manual} \cup Procs \X SlotTimes]
    BY <1>1, <1>2, <2>1
  <2>3. ASSUME NEW q \in Procs, NEW c \in Slots, Going(q, c)'
        PROVE  Going(q, c) /\ q # p
    <3>1. c[1] \in Automations /\ running'[c[1]] = <<q, c[2]>>
      BY <2>3, SlotParts DEF Going
    <3>2. running'[c[1]] # NoRun
      BY <3>1, NobodyRuns
    <3>3. running[c[1]] = <<q, c[2]>> /\ running[c[1]][1] # p
      BY <2>1, <3>1, <3>2
    <3> QED BY <3>3 DEF Going
  <2> QED BY <2>2, <2>3
<1>5. /\ Data' /\ hurt \subseteq hurt'
      /\ \A d \in Slots : d \notin hurt' => Recordings(d)' = Recordings(d)
  <2>1. CASE UNCHANGED <<records, hurt>>
    BY <1>1, <2>1, DataStands DEF DataTyped, Recordings
  <2>2. CASE \E c \in Slots, kind \in Kinds : Record(c, kind, 1) /\ hurt' = hurt \cup {c}
    <3> PICK c \in Slots, kind \in Kinds : Record(c, kind, 1) /\ hurt' = hurt \cup {c}
      BY <2>2
    <3>1. Data'
      BY <1>1, DataRecorded
    <3>2. \A d \in Slots : d # c => Recordings(d)' = Recordings(d)
      BY <1>1, RecordFacts
    <3> QED BY <3>1, <3>2
  <2> QED BY <2>1, <2>2
<1>6. PlaceTyped'
  <2>1. phase' \in [Procs -> {"closed", "open", "stopping", "stopped"}] /\ tasks' \in [Procs -> SUBSET Slots]
    BY <1>1, <1>2
  <2>2. tick' \in [Procs -> Ticks]
    BY <1>1, <1>2, NoTickIsTick
  <2>3. firing' \in Procs \cup {NoProc}
    BY <1>1, <1>2 DEF PlaceTyped
  <2> QED BY <1>4, <2>1, <2>2, <2>3 DEF PlaceTyped
<1>7. ASSUME NEW q \in Procs PROVE Place(q)'
  <2>1. CASE q # p
    <3>1. firing' = q <=> firing = q
      BY <1>2, <2>1, HolderAssumption
    <3> QED BY <1>3, <1>4, <1>5, <2>1, <3>1, OtherPlace DEF SleepInv, Places
  <2>2. CASE q = p
    <3>1. Idle(p)' /\ Left(tick[p])' = {} /\ tick'[p].at = "none" /\ tick'[p].start = {}
      BY <1>3, <1>4, NoTickIsTick DEF Idle, Left
    <3> HIDE DEF Idle, Left
    <3> QED BY <1>3, <2>2, <3>1 DEF Place
  <2> QED BY <2>1, <2>2
<1>8. ASSUME NEW c \in Slots PROVE Counted(c)'
  <2>1. /\ Counted(c) /\ Claimed(c)' = Claimed(c) /\ Marks(c)' = Marks(c) /\ Marks(c) \in Nat
    BY <1>1, DataNumbers DEF SleepInv, Account, Claimed, Marks
  <2>2. Skipping(c)' \subseteq Skipping(c) /\ (Starting(c)' => Starting(c)) /\ (Waiting(c)' => Waiting(c))
    BY <1>3, NoTickIsTick DEF Skipping, Starting, Waiting
  <2>3. Underway(c)' => Underway(c)
    BY <1>4 DEF Underway
  <2>4. \A q \in Procs : firing' = q => firing = q /\ tick'[q].marks[c] = tick[q].marks[c]
    BY <1>2, <1>3, HolderAssumption
  <2>5. CASE c \in hurt'
    BY <2>1, <2>2, <2>5, FewerElements DEF Counted
  <2>6. CASE c \notin hurt'
    BY <1>1, <1>5, <2>1, <2>2, <2>3, <2>4, <2>6, SlotStands
  <2> QED BY <2>5, <2>6
<1> QED BY <1>5, <1>6, <1>7, <1>8 DEF SleepInv, Places, Account

\* What a process may be recording when it is killed.
LEMMA RecordingParts ==
  ASSUME SleepInv, NEW p \in Procs, NEW r \in Recording(p)
  PROVE  /\ r[1] \in Slots /\ r[2] \in Kinds
         /\ r[2] = "interrupted" => r[1] \in Left(tick[p])
<1>1. tick[p].skip \in SUBSET Slots /\ tasks[p] \in SUBSET Slots
  BY DEF SleepInv, PlaceTyped, Ticks
<1>2. CASE r \in {<<c, "interrupted">> : c \in Left(tick[p])}
  BY <1>2 DEF Left, Kinds
<1>3. CASE r \in {<<c, "skipped">> : c \in tick[p].skip \cup {d \in tasks[p] : running[d[1]] # NoRun}}
  BY <1>1, <1>3 DEF Kinds
<1>4. CASE r \in {<<c, "ended">> : c \in {d \in Slots : running[d[1]] = <<p, d[2]>>}}
  BY <1>4 DEF Kinds
<1> QED BY <1>2, <1>3, <1>4 DEF Recording

LEMMA ExitKeeps ==
  ASSUME SleepInv, NEW p \in Procs, Exit(p) \/ Crash(p)
  PROVE  SleepInv'
<1>1. Gone(p) /\ UNCHANGED <<now, store, claims, passed, rewound>>
  BY DEF Exit, Crash, history
<1>2. \/ UNCHANGED <<records, hurt>>
      \/ \E r \in Recording(p) : Record(r[1], r[2], 1) /\ hurt' = hurt \cup {r[1]}
  BY DEF Exit, Crash
<1>3. \/ UNCHANGED <<records, hurt>>
      \/ \E c \in Slots, kind \in Kinds : Record(c, kind, 1) /\ hurt' = hurt \cup {c}
  BY <1>2, RecordingParts
<1> QED BY <1>1, <1>3, GoneKeeps

----------------------------------------------------------------------------
(* The theorems.                                                           *)

LEMMA SleepStart == Init => SleepInv
<1> SUFFICES ASSUME Init PROVE SleepInv
  OBVIOUS
<1>1. DataTyped
  <2>1. now \in 0 .. MaxTime /\ 0 \in 0 .. MaxTime
    BY BoundAssumption DEF Init
  <2>2. [s \in SlotTimes |-> 0] \in [SlotTimes -> Nat]
    OBVIOUS
  <2>3. store \in [Automations -> Entries]
    BY <2>1, <2>2 DEF Init, Entries
  <2>4. records \in [Slots -> [Kinds -> Nat]] /\ claims \in [Slots -> Nat] /\ passed \in [Slots -> Nat]
    BY DEF Init
  <2> QED BY <2>1, <2>3, <2>4 DEF DataTyped
<1>2. ASSUME NEW c \in Slots
      PROVE  Marks(c) = 0 /\ claims[c] = 0 /\ passed[c] = 0 /\ Recordings(c) = 0 /\ Claimed(c) = 0
  <2>1. claims[c] = 0 /\ passed[c] = 0 /\ records[c] = [k \in Kinds |-> 0]
    BY DEF Init
  <2>2. Recordings(c) = 0
    BY <2>1 DEF Recordings, Kinds
  <2>3. store[c[1]].marks = [s \in SlotTimes |-> 0]
    BY SlotParts DEF Init
  <2>4. Marks(c) = 0
    BY <2>3, SlotParts DEF Marks
  <2> QED BY <2>1, <2>2, <2>4 DEF Claimed
<1>3. Data
  BY <1>1, <1>2 DEF Data, MarkedUntilRecorded, LastHolds, ClaimedOnce
<1>4. PlaceTyped
  BY NoTickIsTick DEF Init, PlaceTyped
<1>5. ASSUME NEW p \in Procs
      PROVE  /\ tick[p] = NoTick /\ tasks[p] = {} /\ phase[p] = "closed" /\ firing # p
             /\ \A c \in Slots : ~Going(p, c)
  BY SlotParts, NobodyRuns, HolderAssumption DEF Init, Going
<1>6. Places
  <2>1. ASSUME NEW p \in Procs PROVE Place(p)
    BY <1>5, NoTickIsTick DEF Place, Idle
  <2> QED BY <2>1 DEF Places
<1>7. ASSUME NEW c \in Slots PROVE Counted(c)
  <2>1. Skipping(c) = {} /\ ~Starting(c) /\ ~Waiting(c) /\ ~Underway(c)
    BY <1>5, NoTickIsTick DEF Skipping, Starting, Waiting, Underway
  <2>2. IsFiniteSet(Skipping(c)) /\ Noted(c) = 0 /\ Runs(c) = 0
    BY <1>2, <2>1, FS_EmptySet, RunNumbers DEF Noted
  <2>3. \A p \in Procs : tick[p].marks[c] = 0
    BY <1>5, NoTickIsTick
  <2> QED BY <1>2, <2>2, <2>3 DEF Counted
<1> QED BY <1>3, <1>4, <1>6, <1>7 DEF SleepInv, Account

LEMMA SleepNext == SleepInv /\ [Next]_vars => SleepInv'
<1> SUFFICES ASSUME SleepInv, [Next]_vars PROVE SleepInv'
  OBVIOUS
<1>1. CASE Clock
  BY <1>1, ClockKeeps
<1>2. CASE \E a \in Automations : Save(a) \/ Delete(a) \/ RunNow(a) \/ RunNowEnds(a)
  BY <1>2, SaveKeeps, DeleteKeeps, RunNowKeeps
<1>3. ASSUME NEW p \in Procs, Thread(p) PROVE SleepInv'
  <2>1. CASE Tick(p) \/ LateTick(p) \/ LoadMarks(p) \/ Recovered(p) \/ Read(p) \/ EndTick(p)
    BY <2>1, TickKeeps, LateTickKeeps, LoadKeeps, ReadKeeps, EndTickKeeps
  <2>2. CASE \E c \in Slots : Recover(p, c) \/ NoteSkipped(p, c)
    BY <2>2, RecoverKeeps, NoteKeeps
  <2>3. CASE \E a \in Automations, s \in SlotTimes, skip \in BOOLEAN :
               Claim(p, a, s, skip) \/ NotClaimed(p, a, s, skip) \/ ClaimFails(p, a, s, skip)
    BY <2>3, ClaimKeeps, ReadKeeps, ClaimFailsKeeps
  <2> QED BY <1>3, <2>1, <2>2, <2>3 DEF Thread
<1>4. ASSUME NEW p \in Procs, Loop(p) PROVE SleepInv'
  <2>1. CASE \E c \in Slots : BeginRun(p, c) \/ EndRun(p, c) \/ RunCancelled(p, c)
    BY <2>1, BeginKeeps, EndKeeps, CancelledKeeps
  <2>2. CASE Open(p) \/ Stop(p) \/ Stopped(p) \/ Exit(p) \/ Crash(p)
    BY <2>2, PhaseKeeps, ExitKeeps
  <2> QED BY <1>4, <2>1, <2>2 DEF Loop
<1>5. CASE UNCHANGED vars
  <2>1. UNCHANGED <<now, store, firing, running, phase, tick, tasks, records, claims, passed, rewound, hurt>>
    BY <1>5 DEF vars
  <2>2. Data'
    BY <2>1, DataStands DEF SleepInv, Data, DataTyped
  <2>3. running' \in [Automations -> {NoRun, Manual} \cup Procs \X SlotTimes]
        /\ \A p \in Procs, c \in Slots : Going(p, c)' => Going(p, c)
    BY <2>1 DEF SleepInv, PlaceTyped, Going
  <2>4. \A c \in Slots : /\ Recordings(c)' = Recordings(c) /\ Claimed(c)' = Claimed(c)
                         /\ Marks(c)' <= Marks(c) /\ Marks(c)' \in Nat
    BY <2>1, DataNumbers DEF SleepInv, Data, Recordings, Claimed, Marks
  <2> QED BY <2>1, <2>2, <2>3, <2>4, WorldKeeps
<1> QED BY <1>1, <1>2, <1>3, <1>4, <1>5 DEF Next

\* The inductive invariant: the store with its history, who may have runs, and
\* the account of every slot, whatever crashes, fails, is edited or stops.
THEOREM SleepInvariant == Spec => []SleepInv
BY SleepStart, SleepNext, PTL DEF Spec

\* Every slot once: with any number of Dream processes ticking over one store,
\* a slot is claimed by one of them and recorded once, but for a save made
\* while the clock was behind, and a recording that was cut in two.
THEOREM SlotsAreOnce == Spec => []SlotsOnce
<1>1. SleepInv => SlotsOnce
  <2> SUFFICES ASSUME SleepInv PROVE SlotsOnce
    OBVIOUS
  <2>1. TypeOK
    BY DEF SleepInv, Data, DataTyped, PlaceTyped, Entries, Ticks, TypeOK
  <2>2. ClaimedOnce
    BY DEF SleepInv, Data
  <2>3. RecordedOnce
    <3> SUFFICES ASSUME NEW c \in Slots, c \notin hurt PROVE ~(Recordings(c) > claims[c] + passed[c])
      BY DEF RecordedOnce
    <3>1. Counted(c) /\ DataTyped
      BY DEF SleepInv, Account, Data
    <3>2. /\ Recordings(c) \in Nat /\ Marks(c) \in Nat /\ Cardinality(Skipping(c)) \in Nat
          /\ claims[c] \in Nat /\ passed[c] \in Nat
      BY <3>1, DataNumbers, FS_CardinalityType DEF Counted
    <3>3. Recordings(c) + Cardinality(Skipping(c)) + Marks(c) <= claims[c] + passed[c]
      BY <3>1 DEF Counted, Noted, Claimed
    <3> QED BY <3>2, <3>3
  <2> QED BY <2>1, <2>2, <2>3 DEF SlotsOnce
<1> QED BY <1>1, SleepInvariant, PTL

\* A claimed run that nobody has recorded is still marked, so that the next
\* process with the scheduler lock finds it.
THEOREM MarksStay == Spec => []MarkedUntilRecorded
<1>1. SleepInv => MarkedUntilRecorded
  BY DEF SleepInv, Data
<1> QED BY <1>1, SleepInvariant, PTL

\* Where a record of an interrupted run comes from.
LEMMA InterruptedFrom ==
  ASSUME SleepInv, Next, NEW c \in Slots, records'[c].interrupted > records[c].interrupted
  PROVE  \E p \in Procs : c \in Left(tick[p]) /\ (Recover(p, c) \/ Crash(p))
<1>1. DataTyped /\ Data /\ records[c].interrupted \in Nat
  BY DataNumbers DEF SleepInv, Data
<1>2. ~ (records'[c].interrupted = records[c].interrupted)
  BY <1>1
<1>3. ASSUME NEW p \in Procs, NEW d \in Slots, NoteSkipped(p, d) \/ BeginRun(p, d) PROVE FALSE
  <2>1. UNCHANGED <<now, claims, passed, rewound>>
    BY <1>3 DEF NoteSkipped, BeginRun, history
  <2>2. UNCHANGED records \/ Recorded(d, "skipped") \/ RecordingFails(d, "skipped")
    BY <1>3 DEF NoteSkipped, BeginRun
  <2> QED BY <1>1, <1>2, <2>1, <2>2, Recording1 DEF Kinds
<1>4. ASSUME NEW p \in Procs, NEW d \in Slots, EndRun(p, d) PROVE FALSE
  <2>1. UNCHANGED records \/ \E n \in {1, 2} : Record(d, "ended", n)
    BY <1>4 DEF EndRun, Recorded, RecordingFails
  <2> QED BY <1>1, <1>2, <2>1, RecordFacts DEF Kinds
<1>5. ASSUME NEW p \in Procs, NEW d \in Slots, Recover(p, d) PROVE d = c
  <2>1. Recorded(d, "interrupted") \/ RecordingFails(d, "interrupted")
    BY <1>5 DEF Recover
  <2>2. UNCHANGED <<now, claims, passed, rewound>>
    BY <1>5 DEF Recover, history
  <2> QED BY <1>1, <1>2, <2>1, <2>2, Recording1 DEF Kinds
<1>6. ASSUME NEW p \in Procs, Crash(p) PROVE c \in Left(tick[p])
  <2>1. PICK r \in Recording(p) : Record(r[1], r[2], 1)
    BY <1>2, <1>6 DEF Crash
  <2>2. r[1] = c /\ r[2] = "interrupted"
    BY <1>1, <1>2, <2>1, RecordingParts, RecordFacts
  <2> QED BY <2>2, RecordingParts
<1>7. CASE \E p \in Procs, d \in Slots : Recover(p, d)
  <2> PICK p \in Procs, d \in Slots : Recover(p, d)
    BY <1>7
  <2> QED BY <1>5 DEF Recover, Left
<1>8. CASE \E p \in Procs : Crash(p)
  BY <1>6, <1>8
<1>9. CASE UNCHANGED records
  BY <1>2, <1>9
<1>10. ASSUME NEW p \in Procs, Thread(p)
       PROVE  UNCHANGED records \/ \E d \in Slots : Recover(p, d) \/ NoteSkipped(p, d)
  <2>1. CASE Tick(p) \/ LateTick(p) \/ LoadMarks(p) \/ Recovered(p) \/ Read(p) \/ EndTick(p)
    BY <2>1 DEF Tick, LateTick, LoadMarks, Recovered, Read, EndTick
  <2>2. ASSUME NEW a \in Automations, NEW s \in SlotTimes, NEW skip \in BOOLEAN,
               Claim(p, a, s, skip) \/ NotClaimed(p, a, s, skip) \/ ClaimFails(p, a, s, skip)
        PROVE  UNCHANGED records
    BY <2>2 DEF Claim, NotClaimed, ClaimFails
  <2> QED BY <1>10, <2>1, <2>2 DEF Thread
<1>11. ASSUME NEW p \in Procs, Loop(p)
       PROVE  UNCHANGED records \/ Crash(p) \/ \E d \in Slots : BeginRun(p, d) \/ EndRun(p, d)
  BY <1>11 DEF Loop, RunCancelled, Open, Stop, Stopped, Exit
<1>12. CASE Clock \/ \E a \in Automations : Save(a) \/ Delete(a) \/ RunNow(a) \/ RunNowEnds(a)
  BY <1>9, <1>12 DEF Clock, Save, Delete, RunNow, RunNowEnds
<1> QED BY <1>3, <1>4, <1>7, <1>8, <1>9, <1>10, <1>11, <1>12 DEF Next

\* Nothing is recorded as interrupted while it runs, or is about to, in any
\* process, as long as whoever recovers has the lock: it then has no run of
\* its own, and without the lock there is no run.
THEOREM InterruptedWasOver == Spec => InterruptedIsOver
<1> DEFINE Over(c) ==
      /\ records'[c].interrupted > records[c].interrupted
      /\ \A p \in Procs : tick[p].at = "recover" => firing = p
    => \A p \in Procs : running'[c[1]] # <<p, c[2]>> /\ c \notin tasks'[p]
<1>1. SleepInv /\ [Next]_vars => \A c \in Slots : Over(c)
  <2> SUFFICES ASSUME SleepInv, [Next]_vars, NEW c \in Slots,
                      records'[c].interrupted > records[c].interrupted,
                      \A p \in Procs : tick[p].at = "recover" => firing = p,
                      NEW q \in Procs
               PROVE  running'[c[1]] # <<q, c[2]>> /\ c \notin tasks'[q]
    OBVIOUS
  <2>1. Next
    <3>1. records[c].interrupted \in Nat
      BY DataNumbers DEF SleepInv, Data
    <3>2. ~UNCHANGED vars
      BY <3>1 DEF vars
    <3> QED BY <3>2
  <2>2. PICK p \in Procs : c \in Left(tick[p]) /\ (Recover(p, c) \/ Crash(p))
    BY <2>1, InterruptedFrom
  <2>3. tick[p].at = "recover" /\ firing = p
    BY <2>2 DEF SleepInv, Places, Place
  <2>4. Idle(q)
    BY <2>3 DEF SleepInv, Places, Place
  <2>5. /\ running \in [Automations -> {NoRun, Manual} \cup Procs \X SlotTimes]
        /\ tasks \in [Procs -> SUBSET Slots] /\ c[1] \in Automations
    BY SlotParts DEF SleepInv, PlaceTyped
  <2>6. CASE Recover(p, c)
    BY <2>4, <2>6 DEF Recover, Idle, Going
  <2>7. CASE Crash(p)
    <3>1. /\ tasks' = [tasks EXCEPT ![p] = {}]
          /\ running' = [a \in Automations |-> IF running[a][1] = p THEN NoRun ELSE running[a]]
      BY <2>7 DEF Crash, Gone
    <3>2. c \notin tasks'[q]
      BY <2>4, <2>5, <3>1 DEF Idle
    <3>3. running'[c[1]] \in {NoRun, running[c[1]]}
      BY <2>5, <3>1
    <3> QED BY <2>4, <3>2, <3>3, NobodyRuns DEF Idle, Going
  <2> QED BY <2>2, <2>6, <2>7
<1>2. InterruptedIsOver <=> [][\A c \in Slots : Over(c)]_vars
  BY DEF InterruptedIsOver
<1> HIDE DEF Over
<1>3. Spec => [][\A c \in Slots : Over(c)]_vars
  BY <1>1, SleepInvariant, PTL DEF Spec
<1> QED BY <1>2, <1>3
=============================================================================
