--------------------------- MODULE RecoveryProofs ---------------------------
(***************************************************************************)
(* Proofs about Recovery for every set of digests and every value of the   *)
(* limits.                                                                 *)
(*                                                                         *)
(* RecoveryInv is inductive: the snapshot and the one kept for after a     *)
(* Stop are both Good.  Besides what the loaders check, a Good snapshot    *)
(* dates the counters by the interventions granted so far: while nothing   *)
(* is decided, a task is past its phase budget, or without evidence, by    *)
(* no more observations than it has been granted interventions.  That is   *)
(* what turns a bound on interventions into a bound on everything.         *)
(***************************************************************************)
EXTENDS Recovery, FiniteSetTheorems, TLAPS

Signals == {"phase_budget", "generation_repetition", "repeated_check",
            "repeated_error", "repeated_call", "no_progress"}

Controllers ==
  [status : {"active", "needs_help", "blocked", "stopped"},
   reason : Signals \cup {"none", "stopped", "tracking_capacity"},
   steps : Nat, noProgress : Nat, attempts : 0..MaxAttempts, help : 0..HelpLimit,
   calls : [Calls -> 0..RepeatLimit], errors : [Errors -> 0..RepeatLimit],
   checks : [Checks -> 0..CheckLimit], evidence : SUBSET Facts]

Pendings ==
  [kind : Decisions \cup {"none"},
   reason : Signals \cup {"none", "stopped", "tracking_capacity"},
   attempts : Nat, at : Nat]

\* No more digests of one kind on record than the code keeps.
Small(f) == IsFiniteSet(OnRecord(f)) /\ Cardinality(OnRecord(f)) <= MaxKeys

Tracked(c) ==
  /\ c \in Controllers
  /\ Small(c.calls) /\ Small(c.errors) /\ Small(c.checks)
  /\ IsFiniteSet(c.evidence) /\ Cardinality(c.evidence) <= MaxEvidence
  /\ c.noProgress <= c.steps

\* What the loaders make sure of, said of the controller and the runtime.
Consistent(c, t) ==
  /\ t \in 0..MaxAttempts /\ c.attempts <= t
  /\ c.status = "stopped" <=> c.reason = "stopped"
  /\ c.reason = "tracking_capacity" => c.status = "blocked"
  /\ c.status = "active" => c.help = 0
  /\ c.status \in {"needs_help", "blocked"} => c.reason # "none"
  /\ c.status = "needs_help" => c.help > 0
  /\ c.status \in {"needs_help", "blocked"} /\ c.reason # "tracking_capacity" =>
       c.attempts = MaxAttempts
  /\ c.status = "blocked" /\ c.reason # "tracking_capacity" => c.help = HelpLimit

Paced(c, t) ==
  /\ c.status = "active" => c.steps <= PhaseBudget + t /\ c.noProgress < NoProgressLimit + t
  /\ c.steps <= PhaseBudget + t + 1
  /\ c.noProgress <= NoProgressLimit + t
  /\ c.status = "active" => c.steps < MaxCounter
  /\ c.steps <= MaxCounter

Decided(c, t, d) ==
  /\ d \in Pendings
  /\ d.kind \in {"none", "recover"} <=> c.status = "active"
  /\ d.kind \notin {"none", "recover"} => d.kind = c.status
  /\ d.kind = "none" => d = NoDecision
  /\ d # NoDecision => d.reason = c.reason /\ d.attempts = t /\ d.at = c.steps

Good(c, t, d) == Tracked(c) /\ Consistent(c, t) /\ Paced(c, t) /\ Decided(c, t, d)

\* A Stop keeps everything but the decision, and no intervention is consumed
\* before it was granted.
StopKeeps ==
  pending.kind = "stopped" =>
    /\ before.total = total /\ before.pending.kind # "stopped"
    /\ before.ctl = [ctl EXCEPT !.status = before.ctl.status, !.reason = before.ctl.reason]

Granted ==
  /\ taken \in Nat /\ taken <= total
  /\ pending.kind = "recover" => taken < total
  /\ pending.kind = "stopped" /\ before.pending.kind = "recover" => taken < total

RecoveryInv ==
  /\ Good(ctl, total, pending)
  /\ DOMAIN before = {"ctl", "total", "pending"}
  /\ Good(before.ctl, before.total, before.pending)
  /\ StopKeeps
  /\ Granted

----------------------------------------------------------------------------
(* The operators on the record.                                            *)

LEMMA CountFacts ==
  ASSUME NEW S, NEW limit \in Nat, NEW f \in [S -> 0..limit], Small(f),
         NEW key \in S \cup {NoDigest}, NoDigest \notin S, ~Crowded(f, key)
  PROVE  /\ Count(f, key, limit) \in [S -> 0..limit]
         /\ Small(Count(f, key, limit))
         /\ \A x \in S : Count(f, key, limit)[x] >= f[x]
         /\ \A x \in S : x # key => Count(f, key, limit)[x] = f[x]
<1>1. CASE key = NoDigest
  BY <1>1 DEF Count
<1>2. CASE key # NoDigest
  <2> DEFINE g == [f EXCEPT ![key] = IF f[key] < limit THEN f[key] + 1 ELSE limit]
  <2>1. key \in S /\ Count(f, key, limit) = g
    BY <1>2 DEF Count
  <2>2. g \in [S -> 0..limit]
    BY <2>1
  <2>3. \A x \in S : g[x] >= f[x] /\ (x # key => g[x] = f[x])
    BY <2>1
  <2>4. Small(g)
    <3> DEFINE R == OnRecord(f)  Q == OnRecord(g)
    <3>1. Q \subseteq R \cup {key}
      BY <2>2, <2>3 DEF OnRecord
    <3>2. IsFiniteSet(R) /\ Cardinality(R) \in Nat /\ Cardinality(R) <= MaxKeys
      BY FS_CardinalityType DEF Small
    <3> HIDE DEF R, Q
    <3>3. CASE key \in R
      <4>1. Q \subseteq R
        BY <3>1, <3>3
      <4>2. IsFiniteSet(Q) /\ Cardinality(Q) <= Cardinality(R) /\ Cardinality(Q) \in Nat
        BY <3>2, <4>1, FS_Subset, FS_CardinalityType
      <4> QED BY <3>2, <4>2, LimitAssumption DEF Small, Q
    <3>4. CASE key \notin R
      <4>1. Cardinality(R) # MaxKeys
        BY <1>2, <3>4 DEF Crowded, R
      <4>2. IsFiniteSet(R \cup {key}) /\ Cardinality(R \cup {key}) = Cardinality(R) + 1
        BY <3>2, <3>4, FS_AddElement
      <4>3. /\ IsFiniteSet(Q) /\ Cardinality(Q) \in Nat
            /\ Cardinality(Q) <= Cardinality(R \cup {key})
        BY <3>1, <4>2, FS_Subset, FS_CardinalityType
      <4> QED BY <3>2, <4>1, <4>2, <4>3, LimitAssumption DEF Small, Q
    <3> QED BY <3>3, <3>4
  <2> QED BY <2>1, <2>2, <2>3, <2>4
<1> QED BY <1>1, <1>2

LEMMA ResetFacts ==
  ASSUME NEW S, NEW limit \in Nat, NEW f \in [S -> 0..limit], Small(f), NEW key \in S
  PROVE  LET g == [f EXCEPT ![key] = 0]
         IN  g \in [S -> 0..limit] /\ Small(g) /\ \A x \in S : x # key => g[x] = f[x]
<1> DEFINE g == [f EXCEPT ![key] = 0]
<1>1. g \in [S -> 0..limit] /\ \A x \in S : x # key => g[x] = f[x]
  OBVIOUS
<1>2. OnRecord(g) \subseteq OnRecord(f)
  BY <1>1 DEF OnRecord
<1>3. IsFiniteSet(OnRecord(g)) /\ Cardinality(OnRecord(g)) <= Cardinality(OnRecord(f))
  BY <1>2, FS_Subset DEF Small
<1>4. Cardinality(OnRecord(g)) \in Nat /\ Cardinality(OnRecord(f)) \in Nat
  BY <1>3, FS_CardinalityType DEF Small
<1>5. Small(g)
  BY <1>3, <1>4, LimitAssumption DEF Small
<1> QED BY <1>1, <1>5

LEMMA EmptyFacts ==
  ASSUME NEW S, NEW limit \in Nat
  PROVE  LET g == [x \in S |-> 0] IN g \in [S -> 0..limit] /\ Small(g) /\ OnRecord(g) = {}
<1> DEFINE g == [x \in S |-> 0]
<1>1. g \in [S -> 0..limit] /\ OnRecord(g) = {}
  BY DEF OnRecord
<1>2. IsFiniteSet({}) /\ Cardinality({}) = 0
  BY FS_EmptySet
<1> QED BY <1>1, <1>2, LimitAssumption DEF Small

(* What the coordinator may report: evidence comes with neither an error   *)
(* nor a failed check, and a passed check is evidence by its own name.     *)
Observations ==
  {o \in [call : Calls \cup {NoDigest}, error : Errors \cup {NoDigest},
          fact : Facts \cup {NoDigest}, check : Checks \cup {NoDigest},
          passed : BOOLEAN, cut : BOOLEAN] :
     /\ o.passed => o.check # NoDigest /\ o.fact = o.check
     /\ o.fact # NoDigest => o.error = NoDigest /\ ~o.cut /\ (o.check = NoDigest \/ o.passed)}

LEMMA Reported ==
  /\ HandlerReturned => \E o \in Observations : Observe(o)
  /\ AnswerCut => \E o \in Observations : Observe(o)
  /\ CheckExecuted => \E o \in Observations : Observe(o)
<1>1. ASSUME HandlerReturned PROVE \E o \in Observations : Observe(o)
  <2>1. PICK call \in Calls :
          \/ Observe([Nothing EXCEPT !.call = call])
          \/ \E error \in Errors \ {CutError} : Observe([Nothing EXCEPT !.call = call, !.error = error])
          \/ \E fact \in Facts \ Checks : Observe([Nothing EXCEPT !.call = call, !.fact = fact])
    BY <1>1 DEF HandlerReturned
  <2>2. [Nothing EXCEPT !.call = call] \in Observations
    BY DEF Nothing, Observations
  <2>3. \A error \in Errors : [Nothing EXCEPT !.call = call, !.error = error] \in Observations
    BY DEF Nothing, Observations
  <2>4. \A fact \in Facts : [Nothing EXCEPT !.call = call, !.fact = fact] \in Observations
    BY DEF Nothing, Observations
  <2> QED BY <2>1, <2>2, <2>3, <2>4
<1>2. ASSUME AnswerCut PROVE \E o \in Observations : Observe(o)
  <2>1. [Nothing EXCEPT !.error = CutError, !.cut = TRUE] \in Observations
    BY DigestAssumption DEF Nothing, Observations
  <2> QED BY <1>2, <2>1 DEF AnswerCut
<1>3. ASSUME CheckExecuted PROVE \E o \in Observations : Observe(o)
  <2>1. PICK name \in Checks :
          \/ Observe([Nothing EXCEPT !.check = name])
          \/ Observe([Nothing EXCEPT !.check = name, !.passed = TRUE, !.fact = name])
    BY <1>3 DEF CheckExecuted
  <2>2. name \in Facts /\ name # NoDigest
    BY DigestAssumption
  <2>3. [Nothing EXCEPT !.check = name] \in Observations
    BY <2>2 DEF Nothing, Observations
  <2>4. [Nothing EXCEPT !.check = name, !.passed = TRUE, !.fact = name] \in Observations
    BY <2>2 DEF Nothing, Observations
  <2> QED BY <2>1, <2>3, <2>4
<1> QED BY <1>1, <1>2, <1>3

\* What the record is after an observation that found room.
LEMMA CountedFacts ==
  ASSUME Good(ctl, total, pending), ctl.status = "active",
         NEW o \in Observations, ~OutOfCapacity(o)
  PROVE  LET c == Counted(o)
         IN  /\ Tracked(c)
             /\ c.status = "active" /\ c.help = ctl.help
             /\ c.steps = ctl.steps + 1 /\ c.noProgress \in {0, ctl.noProgress + 1}
             /\ \/ c.attempts = ctl.attempts /\ c.reason = ctl.reason
                \/ c.attempts = 0 /\ c.reason = "none" /\ ReasonOf(o, c) = "none"
             /\ \A e \in Errors : c.errors[e] >= ctl.errors[e]
             /\ \A k \in Checks : c.checks[k] >= ctl.checks[k] \/ k \in c.evidence
<1> DEFINE novel   == IsNovel(o.fact)
           refunds == /\ novel /\ ctl.steps + 1 <= PhaseBudget
                      /\ OnRecord(ctl.checks) = {} /\ OnRecord(ctl.errors) = {}
           call    == IF novel THEN NoDigest ELSE o.call
           failed  == IF o.passed THEN NoDigest ELSE o.check
           calls   == IF refunds THEN [k \in Calls |-> 0] ELSE ctl.calls
           checks  == Count(ctl.checks, failed, CheckLimit)
           calls2  == Count(calls, call, RepeatLimit)
           errors2 == Count(ctl.errors, o.error, RepeatLimit)
           checks2 == IF o.passed THEN [checks EXCEPT ![o.check] = 0] ELSE checks
           evid2   == IF novel THEN ctl.evidence \cup {o.fact} ELSE ctl.evidence
           c       == Counted(o)
<1>1. ctl \in Controllers /\ Tracked(ctl)
  BY DEF Good, Tracked
<1>2. c = [ctl EXCEPT
             !.steps = @ + 1, !.noProgress = IF novel THEN 0 ELSE @ + 1,
             !.attempts = IF refunds THEN 0 ELSE @, !.reason = IF refunds THEN "none" ELSE @,
             !.evidence = evid2, !.calls = calls2, !.errors = errors2, !.checks = checks2]
  BY <1>1 DEF Counted, Controllers
<1>3. /\ o.call \in Calls \cup {NoDigest} /\ o.error \in Errors \cup {NoDigest}
      /\ o.fact \in Facts \cup {NoDigest} /\ o.check \in Checks \cup {NoDigest}
      /\ o.passed \in BOOLEAN
      /\ o.passed => o.check \in Checks /\ o.fact = o.check
      /\ o.fact # NoDigest => o.error = NoDigest /\ ~o.cut /\ (o.check = NoDigest \/ o.passed)
  BY DEF Observations
<1>4. /\ NoDigest \notin Calls /\ NoDigest \notin Errors /\ NoDigest \notin Checks
      /\ NoDigest \notin Facts /\ RepeatLimit \in Nat /\ CheckLimit \in Nat
      /\ RepeatLimit > 0 /\ CheckLimit > 0
  BY DigestAssumption, LimitAssumption
<1>5. calls2 \in [Calls -> 0..RepeatLimit] /\ Small(calls2)
  <2>1. calls \in [Calls -> 0..RepeatLimit] /\ Small(calls)
    BY <1>1, <1>4, EmptyFacts DEF Tracked, Controllers
  <2>2. ~Crowded(calls, call)
    <3>1. CASE novel
      BY <3>1 DEF Crowded
    <3>2. CASE ~novel
      BY <3>2 DEF OutOfCapacity
    <3> QED BY <3>1, <3>2
  <2>3. call \in Calls \cup {NoDigest}
    BY <1>3
  <2> QED BY <1>4, <2>1, <2>2, <2>3, CountFacts
<1>6. /\ errors2 \in [Errors -> 0..RepeatLimit] /\ Small(errors2)
      /\ \A e \in Errors : errors2[e] >= ctl.errors[e]
  <2>1. ~Crowded(ctl.errors, o.error)
    BY DEF OutOfCapacity
  <2>2. ctl.errors \in [Errors -> 0..RepeatLimit] /\ Small(ctl.errors)
    BY <1>1 DEF Tracked, Controllers
  <2> QED BY <1>3, <1>4, <2>1, <2>2, CountFacts
<1>7. /\ checks \in [Checks -> 0..CheckLimit] /\ Small(checks)
      /\ \A k \in Checks : checks[k] >= ctl.checks[k]
  <2>1. ~Crowded(ctl.checks, failed)
    BY <1>3 DEF OutOfCapacity, Crowded
  <2>2. ctl.checks \in [Checks -> 0..CheckLimit] /\ Small(ctl.checks)
    BY <1>1 DEF Tracked, Controllers
  <2>3. failed \in Checks \cup {NoDigest}
    BY <1>3
  <2> QED BY <1>4, <2>1, <2>2, <2>3, CountFacts
<1>8. evid2 \in SUBSET Facts /\ IsFiniteSet(evid2) /\ Cardinality(evid2) <= MaxEvidence
  <2>1. /\ ctl.evidence \in SUBSET Facts /\ IsFiniteSet(ctl.evidence)
        /\ Cardinality(ctl.evidence) <= MaxEvidence /\ Cardinality(ctl.evidence) \in Nat
    BY <1>1, FS_CardinalityType DEF Tracked, Controllers
  <2>2. CASE novel
    <3>1. o.fact \in Facts /\ o.fact \notin ctl.evidence
      BY <1>3, <2>2 DEF IsNovel
    <3>2. Cardinality(ctl.evidence) # MaxEvidence
      BY <2>2 DEF OutOfCapacity
    <3>3. IsFiniteSet(evid2) /\ Cardinality(evid2) = Cardinality(ctl.evidence) + 1
      BY <2>1, <2>2, <3>1, FS_AddElement
    <3> QED BY <2>1, <2>2, <3>1, <3>2, <3>3, LimitAssumption
  <2>3. CASE ~novel
    BY <2>1, <2>3
  <2> QED BY <2>2, <2>3
<1>9. /\ checks2 \in [Checks -> 0..CheckLimit] /\ Small(checks2)
      /\ \A k \in Checks : checks2[k] >= ctl.checks[k] \/ k \in evid2
  <2>1. CASE o.passed
    <3>1. o.check \in Checks /\ o.check \in evid2
      BY <1>3, <1>4, <2>1 DEF IsNovel
    <3>2. /\ checks2 \in [Checks -> 0..CheckLimit] /\ Small(checks2)
          /\ \A k \in Checks : k # o.check => checks2[k] = checks[k]
      BY <1>4, <1>7, <2>1, <3>1, ResetFacts
    <3> QED BY <1>7, <3>1, <3>2
  <2>2. CASE ~o.passed
    BY <1>7, <2>2
  <2> QED BY <1>3, <2>1, <2>2
<1>10. /\ c.calls = calls2 /\ c.errors = errors2 /\ c.checks = checks2 /\ c.evidence = evid2
       /\ c.status = ctl.status /\ c.help = ctl.help /\ c.steps = ctl.steps + 1
       /\ c.noProgress = (IF novel THEN 0 ELSE ctl.noProgress + 1)
       /\ c.attempts = (IF refunds THEN 0 ELSE ctl.attempts)
       /\ c.reason = (IF refunds THEN "none" ELSE ctl.reason)
       /\ ctl.steps \in Nat /\ ctl.noProgress \in Nat /\ ctl.noProgress <= ctl.steps
  BY <1>1, <1>2 DEF Controllers, Tracked
<1>11. Tracked(c)
  <2> HIDE DEF calls2, errors2, checks2, evid2, refunds, novel, c
  <2>1. c \in Controllers
    <3> DEFINE np == IF novel THEN 0 ELSE ctl.noProgress + 1
               at == IF refunds THEN 0 ELSE ctl.attempts
               rs == IF refunds THEN "none" ELSE ctl.reason
    <3>1. /\ np \in Nat /\ at \in 0..MaxAttempts
          /\ rs \in Signals \cup {"none", "stopped", "tracking_capacity"}
      BY <1>1, PolicyAssumption DEF Controllers
    <3>2. c = [ctl EXCEPT !.steps = ctl.steps + 1, !.noProgress = np, !.attempts = at,
                          !.reason = rs, !.evidence = evid2, !.calls = calls2,
                          !.errors = errors2, !.checks = checks2]
      BY <1>1, <1>2 DEF Controllers
    <3> HIDE DEF np, at, rs
    <3>3. ctl \in Controllers /\ ctl.steps + 1 \in Nat
      BY <1>1 DEF Controllers
    <3> QED BY <3>1, <3>2, <3>3, <1>5, <1>6, <1>8, <1>9 DEF Controllers
  <2> QED BY <1>5, <1>6, <1>8, <1>9, <1>10, <2>1 DEF Tracked
<1>12. refunds => ReasonOf(o, c) = "none"
  <2> SUFFICES ASSUME refunds PROVE ReasonOf(o, c) = "none"
    OBVIOUS
  <2>1. novel /\ c.steps <= PhaseBudget /\ c.noProgress = 0
    BY <1>10
  <2>2. o.fact # NoDigest /\ o.error = NoDigest /\ ~o.cut /\ (o.check = NoDigest \/ o.passed)
    BY <1>3, <2>1 DEF IsNovel
  <2>3. ~(c.steps > PhaseBudget) /\ ~(c.noProgress >= NoProgressLimit)
    BY <1>10, <2>1, LimitAssumption
  <2> HIDE DEF c
  <2> QED BY <2>1, <2>2, <2>3 DEF ReasonOf, AtLimit
<1> HIDE DEF calls2, errors2, checks2, evid2, refunds, novel, c
<1>13. c.noProgress \in {0, ctl.noProgress + 1}
  BY <1>10
<1>14. \/ c.attempts = ctl.attempts /\ c.reason = ctl.reason
       \/ c.attempts = 0 /\ c.reason = "none" /\ ReasonOf(o, c) = "none"
  BY <1>10, <1>12
<1> QED BY <1>6, <1>9, <1>10, <1>11, <1>13, <1>14 DEF c

LEMMA OverfullFacts ==
  ASSUME Good(ctl, total, pending), NEW o \in Observations
  PROVE  LET c == Overfull(o)
         IN  /\ Tracked(c)
             /\ c.status = ctl.status /\ c.reason = ctl.reason /\ c.help = ctl.help
             /\ c.attempts = ctl.attempts /\ c.steps = ctl.steps + 1
             /\ c.noProgress <= ctl.noProgress + 1
             /\ c.errors = ctl.errors /\ c.checks = ctl.checks
<1> DEFINE skip   == AtLastSequence \/ IsNovel(o.fact)
           np     == IF skip THEN ctl.noProgress ELSE ctl.noProgress + 1
           calls2 == IF skip \/ Crowded(ctl.calls, o.call) THEN ctl.calls
                      ELSE Count(ctl.calls, o.call, RepeatLimit)
           c      == Overfull(o)
<1>1. ctl \in Controllers /\ Tracked(ctl)
  BY DEF Good, Tracked
<1>2. c = [ctl EXCEPT !.steps = ctl.steps + 1, !.noProgress = np, !.calls = calls2]
  BY <1>1 DEF Overfull, Controllers
<1>3. /\ ctl.steps \in Nat /\ ctl.steps + 1 \in Nat /\ np \in Nat
      /\ np <= ctl.noProgress + 1 /\ np <= ctl.steps + 1
  BY <1>1 DEF Tracked, Controllers
<1>4. calls2 \in [Calls -> 0..RepeatLimit] /\ Small(calls2)
  <2>1. ctl.calls \in [Calls -> 0..RepeatLimit] /\ Small(ctl.calls)
    BY <1>1 DEF Tracked, Controllers
  <2>2. o.call \in Calls \cup {NoDigest} /\ NoDigest \notin Calls /\ RepeatLimit \in Nat
    BY DigestAssumption, LimitAssumption DEF Observations
  <2> QED BY <2>1, <2>2, CountFacts
<1> HIDE DEF skip, np, calls2, c
<1>5. /\ c \in Controllers
      /\ c.steps = ctl.steps + 1 /\ c.noProgress = np /\ c.calls = calls2
      /\ c.errors = ctl.errors /\ c.checks = ctl.checks /\ c.evidence = ctl.evidence
      /\ c.status = ctl.status /\ c.reason = ctl.reason /\ c.help = ctl.help
      /\ c.attempts = ctl.attempts
  BY <1>1, <1>2, <1>3, <1>4 DEF Controllers
<1>6. Tracked(c)
  BY <1>1, <1>3, <1>4, <1>5 DEF Tracked
<1> QED BY <1>3, <1>5, <1>6 DEF c

LEMMA ReasonFacts ==
  ASSUME NEW o, NEW c
  PROVE  /\ ReasonOf(o, c) \in Signals \cup {"none"}
         /\ ReasonOf(o, c) = "none" =>
              ~(c.steps > PhaseBudget) /\ ~(c.noProgress >= NoProgressLimit)
BY DEF ReasonOf, Signals

----------------------------------------------------------------------------
(* The decisions, drawn from a record c that follows ctl.                  *)

Follows(c) ==
  /\ Tracked(c)
  /\ c.status = ctl.status /\ c.help = ctl.help
  /\ c.steps = ctl.steps + 1 /\ c.noProgress <= ctl.noProgress + 1
  /\ c.steps # MaxCounter
  /\ c.attempts <= total

LEMMA ContinueKeeps ==
  ASSUME RecoveryInv, pending = NoDecision, NEW c, Follows(c),
         c.reason \in {ctl.reason, "none"},
         ~(c.steps > PhaseBudget), ~(c.noProgress >= NoProgressLimit),
         Continue(c), UNCHANGED <<before, taken>>
  PROVE  RecoveryInv'
<1>1. /\ ctl' = c /\ total' = total /\ pending' = pending /\ before' = before /\ taken' = taken
  BY DEF Continue
<1>2. /\ c.status = "active" /\ total \in Nat /\ c.steps \in Nat /\ c.noProgress \in Nat
      /\ c.steps < MaxCounter
  BY PolicyAssumption, LimitAssumption
  DEF RecoveryInv, Good, Decided, Consistent, Paced, NoDecision, Follows, Tracked, Controllers
<1>3. Good(c, total, pending)
  <2>1. Consistent(c, total)
    BY <1>2 DEF RecoveryInv, Good, Consistent, Follows
  <2>2. Paced(c, total)
    BY <1>2, LimitAssumption DEF Paced
  <2>3. Decided(c, total, pending)
    BY <1>2 DEF RecoveryInv, Good, Decided, NoDecision
  <2> QED BY <2>1, <2>2, <2>3 DEF Good, Follows
<1>4. Good(ctl, total, pending)'
  BY <1>1, <1>3
<1>5. DOMAIN before' = {"ctl", "total", "pending"} /\ Good(before.ctl, before.total, before.pending)'
  BY <1>1 DEF RecoveryInv
<1>6. StopKeeps' /\ Granted'
  BY <1>1 DEF RecoveryInv, StopKeeps, Granted, NoDecision
<1> QED BY <1>4, <1>5, <1>6 DEF RecoveryInv

LEMMA RecoverKeeps ==
  ASSUME RecoveryInv, pending = NoDecision, NEW c, Follows(c), c.reason \in Signals,
         Recover(c), UNCHANGED <<before, taken>>
  PROVE  RecoveryInv'
<1> DEFINE next == [c EXCEPT !.attempts = c.attempts + 1]
           t    == total + 1
           d    == Pend("recover", next, t)
<1>1. /\ ctl' = next /\ total' = t /\ pending' = d /\ before' = before /\ taken' = taken
      /\ c.attempts < MaxAttempts /\ total < MaxAttempts
  BY DEF Recover
<1>2. /\ c \in Controllers /\ Tracked(c) /\ c.status = "active" /\ c.help = 0
      /\ total \in Nat /\ c.attempts <= total
      /\ c.steps <= PhaseBudget + t /\ c.noProgress < NoProgressLimit + t
      /\ c.steps < MaxCounter
  BY PolicyAssumption, LimitAssumption
  DEF RecoveryInv, Good, Decided, Consistent, Paced, NoDecision, Follows, Tracked, Controllers
<1>3. /\ next \in Controllers /\ next.attempts = c.attempts + 1
      /\ next.status = c.status /\ next.reason = c.reason /\ next.steps = c.steps
      /\ next.noProgress = c.noProgress /\ next.help = c.help /\ next.calls = c.calls
      /\ next.errors = c.errors /\ next.checks = c.checks /\ next.evidence = c.evidence
  BY <1>1, <1>2, PolicyAssumption DEF Controllers
<1>4. /\ d.kind = "recover" /\ d.reason = c.reason /\ d.attempts = t /\ d.at = c.steps
      /\ d \in Pendings
  BY <1>2, <1>3 DEF Pend, Pendings, Decisions, Controllers
<1> HIDE DEF next, d
<1>5. Tracked(next)
  BY <1>2, <1>3 DEF Tracked
<1>6. Consistent(next, t)
  BY <1>1, <1>2, <1>3, PolicyAssumption DEF Consistent, Signals, Controllers
<1>7. Paced(next, t)
  BY <1>2, <1>3, LimitAssumption DEF Paced, Controllers
<1>8. Decided(next, t, d)
  BY <1>2, <1>3, <1>4 DEF Decided
<1>9. Good(ctl, total, pending)'
  BY <1>1, <1>5, <1>6, <1>7, <1>8 DEF Good
<1>10. DOMAIN before' = {"ctl", "total", "pending"} /\ Good(before.ctl, before.total, before.pending)'
  BY <1>1 DEF RecoveryInv
<1>11. StopKeeps' /\ Granted'
  BY <1>1, <1>2, <1>4 DEF RecoveryInv, StopKeeps, Granted
<1> QED BY <1>9, <1>10, <1>11 DEF RecoveryInv

LEMMA AskOrBlockKeeps ==
  ASSUME RecoveryInv, pending = NoDecision, NEW c, Follows(c), c.reason \in Signals,
         AskOrBlock(c), UNCHANGED <<before, taken>>
  PROVE  RecoveryInv'
<1> DEFINE helped == c.help < HelpLimit
           help   == IF helped THEN c.help + 1 ELSE c.help
           status == IF helped THEN "needs_help" ELSE "blocked"
           next   == [c EXCEPT !.attempts = MaxAttempts, !.help = help, !.status = status]
           d      == Pend(next.status, next, total)
<1>1. /\ ctl' = next /\ total' = total /\ pending' = d /\ before' = before /\ taken' = taken
      /\ ~(c.attempts < MaxAttempts /\ total < MaxAttempts)
  BY DEF AskOrBlock
<1>2. /\ c \in Controllers /\ Tracked(c) /\ c.status = "active" /\ c.help = 0
      /\ total \in 0..MaxAttempts /\ c.attempts <= total /\ c.attempts \in Nat
      /\ c.steps <= PhaseBudget + total + 1 /\ c.noProgress <= NoProgressLimit + total
      /\ c.steps <= MaxCounter
  BY PolicyAssumption, LimitAssumption
  DEF RecoveryInv, Good, Decided, Consistent, Paced, NoDecision, Follows, Tracked, Controllers
<1>3. total = MaxAttempts
  BY <1>1, <1>2, PolicyAssumption
<1>4. /\ help \in 0..HelpLimit /\ status \in {"needs_help", "blocked"}
      /\ status = "needs_help" => help > 0
      /\ status = "blocked" => help = HelpLimit
  BY <1>2, PolicyAssumption
<1> HIDE DEF help, status, helped
<1>5. /\ next \in Controllers /\ next.attempts = MaxAttempts
      /\ next.status = status /\ next.reason = c.reason /\ next.steps = c.steps
      /\ next.noProgress = c.noProgress /\ next.help = help /\ next.calls = c.calls
      /\ next.errors = c.errors /\ next.checks = c.checks /\ next.evidence = c.evidence
  <2>1. /\ MaxAttempts \in 0..MaxAttempts /\ help \in 0..HelpLimit
        /\ status \in {"active", "needs_help", "blocked", "stopped"}
    BY <1>4, PolicyAssumption
  <2>2. c \in Controllers
    BY <1>2
  <2> QED BY <2>1, <2>2 DEF Controllers
<1>6. /\ d.kind = status /\ d.reason = c.reason /\ d.attempts = total /\ d.at = c.steps
      /\ d \in Pendings
  BY <1>2, <1>4, <1>5, PolicyAssumption DEF Pend, Pendings, Decisions, Controllers
<1> HIDE DEF next, d
<1>7. Tracked(next)
  BY <1>2, <1>5 DEF Tracked
<1>8. Consistent(next, total)
  BY <1>2, <1>3, <1>4, <1>5 DEF Consistent, Signals
<1>9. Paced(next, total)
  BY <1>2, <1>4, <1>5 DEF Paced
<1>10. Decided(next, total, d)
  BY <1>4, <1>5, <1>6 DEF Decided
<1>11. Good(ctl, total, pending)'
  BY <1>1, <1>7, <1>8, <1>9, <1>10 DEF Good
<1>12. DOMAIN before' = {"ctl", "total", "pending"} /\ Good(before.ctl, before.total, before.pending)'
  BY <1>1 DEF RecoveryInv
<1>13. StopKeeps' /\ Granted'
  BY <1>1, <1>4, <1>6 DEF RecoveryInv, StopKeeps, Granted
<1> QED BY <1>11, <1>12, <1>13 DEF RecoveryInv

LEMMA BlockKeeps ==
  ASSUME RecoveryInv, pending.kind \in {"none", "recover"}, NEW c, Tracked(c),
         c.status = ctl.status, c.help = ctl.help, c.attempts <= total,
         c.steps <= ctl.steps + 1, c.noProgress <= ctl.noProgress + 1,
         BlockCapacity(c), UNCHANGED <<before, taken>>
  PROVE  RecoveryInv'
<1> DEFINE next == [c EXCEPT !.status = "blocked", !.reason = "tracking_capacity"]
           d    == Pend("blocked", next, total)
<1>1. /\ ctl' = next /\ total' = total /\ pending' = d /\ before' = before /\ taken' = taken
  BY DEF BlockCapacity
<1>2. /\ c \in Controllers /\ c.status = "active" /\ c.help = 0
      /\ total \in 0..MaxAttempts
      /\ c.steps <= PhaseBudget + total + 1 /\ c.noProgress <= NoProgressLimit + total
      /\ c.steps <= MaxCounter
  BY PolicyAssumption, LimitAssumption
  DEF RecoveryInv, Good, Decided, Consistent, Paced, Tracked, Controllers
<1>3. /\ next \in Controllers /\ next.attempts = c.attempts
      /\ next.status = "blocked" /\ next.reason = "tracking_capacity" /\ next.steps = c.steps
      /\ next.noProgress = c.noProgress /\ next.help = c.help /\ next.calls = c.calls
      /\ next.errors = c.errors /\ next.checks = c.checks /\ next.evidence = c.evidence
  BY <1>2 DEF Controllers
<1>4. /\ d.kind = "blocked" /\ d.reason = "tracking_capacity" /\ d.attempts = total
      /\ d.at = c.steps /\ d \in Pendings
  BY <1>2, <1>3, PolicyAssumption DEF Pend, Pendings, Decisions, Controllers
<1> HIDE DEF next, d
<1>5. Tracked(next)
  BY <1>2, <1>3 DEF Tracked
<1>6. Consistent(next, total)
  BY <1>2, <1>3 DEF Consistent
<1>7. Paced(next, total)
  BY <1>2, <1>3 DEF Paced
<1>8. Decided(next, total, d)
  BY <1>3, <1>4 DEF Decided
<1>9. Good(ctl, total, pending)'
  BY <1>1, <1>5, <1>6, <1>7, <1>8 DEF Good
<1>10. DOMAIN before' = {"ctl", "total", "pending"} /\ Good(before.ctl, before.total, before.pending)'
  BY <1>1 DEF RecoveryInv
<1>11. StopKeeps' /\ Granted'
  BY <1>1, <1>4 DEF RecoveryInv, StopKeeps, Granted
<1> QED BY <1>9, <1>10, <1>11 DEF RecoveryInv

----------------------------------------------------------------------------
(* The actions.                                                            *)

LEMMA ObserveKeeps ==
  ASSUME RecoveryInv, NEW o \in Observations, Observe(o)
  PROVE  RecoveryInv'
<1>1. /\ pending = NoDecision /\ ctl.status = "active" /\ UNCHANGED <<before, taken>>
      /\ Good(ctl, total, pending)
      /\ ctl \in Controllers /\ ctl.attempts <= total /\ total \in 0..MaxAttempts
  BY DEF Observe, RecoveryInv, Good, Decided, NoDecision, Tracked, Consistent
<1>2. CASE OutOfCapacity(o)
  <2>1. PICK c : c = Overfull(o)
    OBVIOUS
  <2>2. BlockCapacity(c)
    BY <1>2, <2>1 DEF Observe
  <2>3. /\ Tracked(c) /\ c.status = ctl.status /\ c.help = ctl.help
        /\ c.attempts = ctl.attempts /\ c.steps = ctl.steps + 1
        /\ c.noProgress <= ctl.noProgress + 1
    BY <1>1, <2>1, OverfullFacts
  <2>4. c.attempts <= total /\ c.steps <= ctl.steps + 1
    BY <1>1, <2>3 DEF Controllers
  <2>5. pending.kind \in {"none", "recover"}
    BY <1>1 DEF NoDecision
  <2> QED BY <1>1, <2>2, <2>3, <2>4, <2>5, BlockKeeps
<1>3. CASE ~OutOfCapacity(o)
  <2>1. PICK c : c = Counted(o)
    OBVIOUS
  <2>2. /\ Tracked(c) /\ c.status = "active" /\ c.help = ctl.help
        /\ c.steps = ctl.steps + 1 /\ c.noProgress \in {0, ctl.noProgress + 1}
        /\ \/ c.attempts = ctl.attempts /\ c.reason = ctl.reason
           \/ c.attempts = 0 /\ c.reason = "none"
    BY <1>1, <1>3, <2>1, CountedFacts
  <2>3. c.attempts <= total /\ c.noProgress <= ctl.noProgress + 1
    BY <1>1, <2>2, PolicyAssumption DEF Controllers
  <2>4. c.steps # MaxCounter
    BY <1>3, <2>2 DEF OutOfCapacity, AtLastSequence
  <2>5. CASE ReasonOf(o, c) = "none"
    <3>1. Continue(c)
      BY <1>3, <2>1, <2>5 DEF Observe
    <3>2. ~(c.steps > PhaseBudget) /\ ~(c.noProgress >= NoProgressLimit)
      BY <2>5, ReasonFacts
    <3>3. Follows(c) /\ c.reason \in {ctl.reason, "none"}
      BY <1>1, <2>2, <2>3, <2>4 DEF Follows
    <3> QED BY <1>1, <3>1, <3>2, <3>3, ContinueKeeps
  <2>6. CASE ReasonOf(o, c) # "none"
    <3>1. PICK noted : noted = [c EXCEPT !.reason = ReasonOf(o, c)]
      OBVIOUS
    <3>2. Recover(noted) \/ AskOrBlock(noted)
      BY <1>3, <2>1, <2>6, <3>1 DEF Observe
    <3>3. /\ ReasonOf(o, c) \in Signals
          /\ Signals \subseteq Signals \cup {"none", "stopped", "tracking_capacity"}
      BY <2>6, ReasonFacts
    <3>4. /\ noted \in Controllers /\ noted.reason \in Signals
          /\ noted.status = c.status /\ noted.attempts = c.attempts /\ noted.steps = c.steps
          /\ noted.noProgress = c.noProgress /\ noted.help = c.help
          /\ noted.calls = c.calls /\ noted.errors = c.errors
          /\ noted.checks = c.checks /\ noted.evidence = c.evidence
      BY <2>2, <3>1, <3>3 DEF Tracked, Controllers
    <3>5. Follows(noted)
      BY <1>1, <2>2, <2>3, <2>4, <3>4 DEF Follows, Tracked
    <3> QED BY <1>1, <3>2, <3>4, <3>5, RecoverKeeps, AskOrBlockKeeps
  <2> QED BY <2>5, <2>6
<1> QED BY <1>2, <1>3

LEMMA StopFollows ==
  ASSUME RecoveryInv, Stop
  PROVE  RecoveryInv'
<1> DEFINE next == [ctl EXCEPT !.status = "stopped", !.reason = "stopped"]
           d    == Pend("stopped", next, total)
<1>1. /\ ctl' = next /\ total' = total /\ pending' = d /\ taken' = taken
      /\ before' = [ctl |-> ctl, total |-> total, pending |-> pending]
      /\ pending.kind # "stopped"
  BY DEF Stop, Saved
<1>2. ctl \in Controllers /\ Good(ctl, total, pending) /\ total \in 0..MaxAttempts
  BY DEF RecoveryInv, Good, Tracked, Consistent
<1>3. /\ next \in Controllers /\ next.status = "stopped" /\ next.reason = "stopped"
      /\ next.steps = ctl.steps /\ next.attempts = ctl.attempts
      /\ next.noProgress = ctl.noProgress /\ next.help = ctl.help /\ next.calls = ctl.calls
      /\ next.errors = ctl.errors /\ next.checks = ctl.checks /\ next.evidence = ctl.evidence
      /\ ctl = [next EXCEPT !.status = ctl.status, !.reason = ctl.reason]
  BY <1>2 DEF Controllers
<1>4. /\ d.kind = "stopped" /\ d.reason = "stopped" /\ d.attempts = total
      /\ d.at = ctl.steps /\ d \in Pendings
  BY <1>2, <1>3, PolicyAssumption DEF Pend, Pendings, Decisions, Controllers
<1> HIDE DEF next, d
<1>5. Tracked(next) /\ Consistent(next, total) /\ Paced(next, total) /\ Decided(next, total, d)
  BY <1>2, <1>3, <1>4 DEF Good, Tracked, Consistent, Paced, Decided
<1>6. Good(ctl, total, pending)'
  BY <1>1, <1>5 DEF Good
<1>7. DOMAIN before' = {"ctl", "total", "pending"} /\ Good(before.ctl, before.total, before.pending)'
  BY <1>1, <1>2
<1>8. StopKeeps'
  BY <1>1, <1>3 DEF StopKeeps
<1>9. Granted'
  BY <1>1, <1>4 DEF RecoveryInv, Granted
<1> QED BY <1>6, <1>7, <1>8, <1>9 DEF RecoveryInv

LEMMA ResumeFollows ==
  ASSUME RecoveryInv, ResumeStopped
  PROVE  RecoveryInv'
<1>1. /\ ctl' = before.ctl /\ total' = before.total /\ pending' = before.pending
      /\ before' = before /\ taken' = taken
      /\ before.total = total /\ before.pending.kind # "stopped" /\ pending.kind = "stopped"
  BY DEF ResumeStopped, RecoveryInv, StopKeeps
<1>2. Good(ctl, total, pending)'
  BY <1>1 DEF RecoveryInv
<1>3. DOMAIN before' = {"ctl", "total", "pending"} /\ Good(before.ctl, before.total, before.pending)'
  BY <1>1 DEF RecoveryInv
<1>4. StopKeeps' /\ Granted'
  BY <1>1 DEF RecoveryInv, StopKeeps, Granted
<1> QED BY <1>2, <1>3, <1>4 DEF RecoveryInv

LEMMA ConsumeFollows ==
  ASSUME RecoveryInv, ConsumeIntervention
  PROVE  RecoveryInv'
<1>1. /\ ctl' = ctl /\ total' = total /\ before' = before
      /\ pending' = NoDecision /\ taken' = taken + 1 /\ pending.kind = "recover"
      /\ ctl.status = "active" /\ total \in 0..MaxAttempts
  BY DEF ConsumeIntervention, RecoveryInv, Good, Decided, Consistent
<1>2. NoDecision \in Pendings /\ NoDecision.kind = "none"
  BY DEF NoDecision, Pendings
<1>3. Decided(ctl, total, NoDecision)
  BY <1>1, <1>2 DEF Decided
<1>4. Good(ctl, total, NoDecision)
  BY <1>3 DEF RecoveryInv, Good
<1>5. Good(ctl, total, pending)'
  BY <1>1, <1>4
<1>6. DOMAIN before' = {"ctl", "total", "pending"} /\ Good(before.ctl, before.total, before.pending)'
  BY <1>1 DEF RecoveryInv
<1>7. StopKeeps' /\ Granted'
  BY <1>1, <1>2, PolicyAssumption DEF RecoveryInv, StopKeeps, Granted
<1> QED BY <1>5, <1>6, <1>7 DEF RecoveryInv

LEMMA TrackingFollows ==
  ASSUME RecoveryInv, BlockTracking
  PROVE  RecoveryInv'
<1>1. PICK c : c = ctl
  OBVIOUS
<1>2. /\ pending.kind \in {"none", "recover"} /\ BlockCapacity(c) /\ UNCHANGED <<before, taken>>
  BY <1>1 DEF BlockTracking
<1>3. /\ Tracked(c) /\ c.status = ctl.status /\ c.help = ctl.help /\ c.attempts <= total
      /\ c.steps <= ctl.steps + 1 /\ c.noProgress <= ctl.noProgress + 1
  BY <1>1 DEF RecoveryInv, Good, Tracked, Consistent, Controllers
<1> QED BY <1>2, <1>3, BlockKeeps

LEMMA Beginning ==
  ASSUME Init
  PROVE  RecoveryInv
<1>1. /\ total = 0 /\ pending = NoDecision /\ taken = 0
      /\ before = [ctl |-> ctl, total |-> 0, pending |-> NoDecision]
  BY DEF Init
<1>2. /\ ctl \in Controllers /\ ctl.status = "active" /\ ctl.reason = "none"
      /\ ctl.steps = 0 /\ ctl.noProgress = 0 /\ ctl.attempts = 0 /\ ctl.help = 0
      /\ ctl.calls = [c \in Calls |-> 0] /\ ctl.errors = [e \in Errors |-> 0]
      /\ ctl.checks = [c \in Checks |-> 0] /\ ctl.evidence = {}
  BY PolicyAssumption, LimitAssumption DEF Init, Controllers
<1>3. Small(ctl.calls) /\ Small(ctl.errors) /\ Small(ctl.checks)
  BY <1>2, EmptyFacts, LimitAssumption
<1>4. IsFiniteSet(ctl.evidence) /\ Cardinality(ctl.evidence) <= MaxEvidence
  BY <1>2, FS_EmptySet, LimitAssumption
<1>5. Tracked(ctl)
  BY <1>2, <1>3, <1>4 DEF Tracked
<1>6. Consistent(ctl, total) /\ Paced(ctl, total)
  BY <1>1, <1>2, PolicyAssumption, LimitAssumption DEF Consistent, Paced
<1>7. Decided(ctl, total, pending)
  BY <1>1, <1>2 DEF Decided, NoDecision, Pendings
<1>8. Good(ctl, total, pending)
  BY <1>5, <1>6, <1>7 DEF Good
<1> QED BY <1>1, <1>8 DEF RecoveryInv, StopKeeps, Granted, NoDecision

LEMMA Inductive ==
  ASSUME RecoveryInv, [Next]_vars
  PROVE  RecoveryInv'
<1>1. CASE HandlerReturned
  BY <1>1, Reported, ObserveKeeps
<1>2. CASE AnswerCut
  BY <1>2, Reported, ObserveKeeps
<1>3. CASE CheckExecuted
  BY <1>3, Reported, ObserveKeeps
<1>4. CASE Stop
  BY <1>4, StopFollows
<1>5. CASE ResumeStopped
  BY <1>5, ResumeFollows
<1>6. CASE ConsumeIntervention
  BY <1>6, ConsumeFollows
<1>7. CASE BlockTracking
  BY <1>7, TrackingFollows
<1>8. CASE UNCHANGED vars
  <2>1. ctl' = ctl /\ total' = total /\ pending' = pending /\ before' = before /\ taken' = taken
    BY <1>8 DEF vars
  <2>2. Good(ctl, total, pending)' /\ Good(before.ctl, before.total, before.pending)'
    BY <2>1 DEF RecoveryInv
  <2>3. DOMAIN before' = {"ctl", "total", "pending"} /\ StopKeeps' /\ Granted'
    BY <2>1 DEF RecoveryInv, StopKeeps, Granted
  <2> QED BY <2>2, <2>3 DEF RecoveryInv
<1> QED BY <1>1, <1>2, <1>3, <1>4, <1>5, <1>6, <1>7, <1>8 DEF Next

(* In every reachable state the snapshot and the one kept for after a Stop *)
(* are consistent and dated by the interventions granted so far.           *)
THEOREM RecoveryInvariant == Spec => []RecoveryInv
<1>1. Init => RecoveryInv
  BY Beginning
<1>2. RecoveryInv /\ [Next]_vars => RecoveryInv'
  BY Inductive
<1> QED BY <1>1, <1>2, PTL DEF Spec

LEMMA GoodLoads ==
  ASSUME NEW s, Good(s.ctl, s.total, s.pending)
  PROVE  /\ Loads(Abstract(s))
         /\ s.pending # NoDecision =>
              /\ s.pending.reason = s.ctl.reason
              /\ s.pending.attempts = s.total
              /\ s.pending.at = s.ctl.steps
<1> DEFINE r == Abstract(s)
<1>1. /\ r.status = s.ctl.status /\ r.attempts = s.ctl.attempts /\ r.help = s.ctl.help
      /\ r.total = s.total /\ r.pending = s.pending.kind
      /\ r.reason = ReasonKind(s.ctl.reason)
  BY DEF Abstract
<1>2. /\ s.ctl.reason = "none" <=> r.reason = "none"
      /\ s.ctl.reason = "stopped" <=> r.reason = "stopped"
      /\ s.ctl.reason = "tracking_capacity" <=> r.reason = "capacity"
  BY <1>1 DEF ReasonKind
<1> HIDE DEF r
<1>3. ControllerLoads(r)
  BY <1>1, <1>2 DEF ControllerLoads, Good, Consistent
<1>4. RuntimeLoads(r)
  BY <1>1, PolicyAssumption DEF RuntimeLoads, Good, Consistent, Decided
<1>5. Loads(r)
  BY <1>3, <1>4 DEF Loads
<1> QED BY <1>5 DEF r, Good, Decided

(* Whatever was observed, decided, stopped and resumed, the saved snapshot *)
(* passes the checks from_snapshot and RecoveryRuntime make, for every set *)
(* of digests and every limit.                                             *)
THEOREM SnapshotsReload == Spec => []SnapshotReloads
<1>1. RecoveryInv => SnapshotReloads
  <2> SUFFICES ASSUME RecoveryInv PROVE SnapshotReloads
    OBVIOUS
  <2>1. Tracked(ctl)
    BY DEF RecoveryInv, Good
  <2>2. CounterLimits /\ ctl.noProgress <= ctl.steps
    BY <2>1 DEF CounterLimits, RecoveryInv, Good, Paced, Tracked, Controllers, Small
  <2>3. ASSUME NEW s \in {Saved, before}
        PROVE  /\ Loads(Abstract(s))
               /\ s.pending # NoDecision =>
                    /\ s.pending.reason = s.ctl.reason
                    /\ s.pending.attempts = s.total
                    /\ s.pending.at = s.ctl.steps
    <3>1. Good(s.ctl, s.total, s.pending)
      BY DEF RecoveryInv, Saved
    <3> QED BY <3>1, GoodLoads
  <2> QED BY <2>2, <2>3 DEF SnapshotReloads
<1> QED BY <1>1, RecoveryInvariant, PTL

(* The phase budget, the run without evidence and the changed-approach     *)
(* turns of a task stay within what max_recovery_attempts adds to them.    *)
THEOREM BudgetsAreKept == Spec => []BudgetsHold
<1>1. RecoveryInv => BudgetsHold
  <2> SUFFICES ASSUME RecoveryInv PROVE BudgetsHold
    OBVIOUS
  <2>1. /\ ctl.steps \in Nat /\ ctl.noProgress \in Nat /\ total \in 0..MaxAttempts
        /\ taken \in Nat /\ taken <= total
        /\ ctl.steps <= PhaseBudget + total + 1
        /\ ctl.noProgress <= NoProgressLimit + total
    BY DEF RecoveryInv, Good, Tracked, Controllers, Consistent, Paced, Granted
  <2> QED BY <2>1, PolicyAssumption, LimitAssumption DEF BudgetsHold
<1> QED BY <1>1, RecoveryInvariant, PTL

----------------------------------------------------------------------------
(* What a step does to the record.                                         *)

Debts ==
  /\ \A e \in Errors : ctl'.errors[e] >= ctl.errors[e]
  /\ \A c \in Checks : ctl'.checks[c] >= ctl.checks[c] \/ c \in ctl'.evidence

LEMMA SameDebts ==
  ASSUME RecoveryInv, ctl'.errors = ctl.errors, ctl'.checks = ctl.checks
  PROVE  Debts
<1>1. ctl.errors \in [Errors -> 0..RepeatLimit] /\ ctl.checks \in [Checks -> 0..CheckLimit]
  BY DEF RecoveryInv, Good, Tracked, Controllers
<1>2. \A e \in Errors : ctl.errors[e] >= ctl.errors[e]
  BY <1>1, LimitAssumption
<1>3. \A c \in Checks : ctl.checks[c] >= ctl.checks[c]
  BY <1>1, LimitAssumption
<1> QED BY <1>2, <1>3 DEF Debts

LEMMA ObserveDebts ==
  ASSUME RecoveryInv, NEW o \in Observations, Observe(o)
  PROVE  Debts
<1>1. ctl.status = "active" /\ Good(ctl, total, pending)
  BY DEF Observe, RecoveryInv, Good, Decided, NoDecision
<1>2. CASE OutOfCapacity(o)
  <2>1. PICK c : c = Overfull(o)
    OBVIOUS
  <2>2. BlockCapacity(c)
    BY <1>2, <2>1 DEF Observe
  <2>3. c \in Controllers /\ c.errors = ctl.errors /\ c.checks = ctl.checks
    BY <1>1, <2>1, OverfullFacts DEF Tracked
  <2>4. ctl'.errors = ctl.errors /\ ctl'.checks = ctl.checks
    BY <2>2, <2>3 DEF BlockCapacity, Controllers
  <2> QED BY <2>4, SameDebts
<1>3. CASE ~OutOfCapacity(o)
  <2>1. PICK c : c = Counted(o)
    OBVIOUS
  <2>2. /\ c \in Controllers
        /\ \A e \in Errors : c.errors[e] >= ctl.errors[e]
        /\ \A k \in Checks : c.checks[k] >= ctl.checks[k] \/ k \in c.evidence
    BY <1>1, <1>3, <2>1, CountedFacts DEF Tracked
  <2>3. PICK noted : noted = [c EXCEPT !.reason = ReasonOf(o, c)]
    OBVIOUS
  <2>4. Continue(c) \/ Recover(noted) \/ AskOrBlock(noted)
    BY <1>3, <2>1, <2>3 DEF Observe
  <2>5. ctl'.errors = c.errors /\ ctl'.checks = c.checks /\ ctl'.evidence = c.evidence
    <3>1. CASE Continue(c)
      BY <3>1 DEF Continue
    <3>2. CASE Recover(noted)
      BY <2>2, <2>3, <3>2 DEF Recover, Controllers
    <3>3. CASE AskOrBlock(noted)
      BY <2>2, <2>3, <3>3 DEF AskOrBlock, Controllers
    <3> QED BY <2>4, <3>1, <3>2, <3>3
  <2> QED BY <2>2, <2>5 DEF Debts
<1> QED BY <1>2, <1>3

(* Progress does not hide debt: no step takes an error off the record, and *)
(* a failed check only with the evidence that it has passed.               *)
THEOREM DebtIsKept == Spec => DebtStays
<1>1. ASSUME RecoveryInv, [Next]_vars PROVE Debts
  <2>1. CASE HandlerReturned
    BY <1>1, <2>1, Reported, ObserveDebts
  <2>2. CASE AnswerCut
    BY <1>1, <2>2, Reported, ObserveDebts
  <2>3. CASE CheckExecuted
    BY <1>1, <2>3, Reported, ObserveDebts
  <2>4. ctl \in Controllers
    BY <1>1 DEF RecoveryInv, Good, Tracked
  <2>5. CASE Stop
    <3>1. ctl'.errors = ctl.errors /\ ctl'.checks = ctl.checks
      BY <2>4, <2>5 DEF Stop, Controllers
    <3> QED BY <1>1, <3>1, SameDebts
  <2>6. CASE ResumeStopped
    <3>1. before.ctl = [ctl EXCEPT !.status = before.ctl.status, !.reason = before.ctl.reason]
      BY <1>1, <2>6 DEF ResumeStopped, RecoveryInv, StopKeeps
    <3>2. ctl'.errors = ctl.errors /\ ctl'.checks = ctl.checks
      BY <2>4, <2>6, <3>1 DEF ResumeStopped, Controllers
    <3> QED BY <1>1, <3>2, SameDebts
  <2>7. CASE ConsumeIntervention
    BY <1>1, <2>7, SameDebts DEF ConsumeIntervention
  <2>8. CASE BlockTracking
    <3>1. ctl'.errors = ctl.errors /\ ctl'.checks = ctl.checks
      BY <2>4, <2>8 DEF BlockTracking, BlockCapacity, Controllers
    <3> QED BY <1>1, <3>1, SameDebts
  <2>9. CASE UNCHANGED vars
    BY <1>1, <2>9, SameDebts DEF vars
  <2> QED BY <1>1, <2>1, <2>2, <2>3, <2>5, <2>6, <2>7, <2>8, <2>9 DEF Next
<1>2. RecoveryInv /\ [Next]_vars => Debts
  BY <1>1
<1>3. Spec => [][Debts]_vars
  BY <1>2, RecoveryInvariant, PTL DEF Spec
<1> QED BY <1>3 DEF DebtStays, Debts

----------------------------------------------------------------------------
(* What a step does to the snapshot as the rules see it.                   *)

Now == [status |-> ctl.status, reason |-> ReasonKind(ctl.reason),
        attempts |-> ctl.attempts, help |-> ctl.help, total |-> total,
        pending |-> pending.kind]

Allowed == Now' \in {Now} \cup Steps(Now, Abstract(before))

LEMMA NowFacts ==
  /\ Abstract(Saved) = Now /\ Abstract(Saved)' = Now'
  /\ Now.status = ctl.status /\ Now.attempts = ctl.attempts /\ Now.help = ctl.help
  /\ Now.total = total /\ Now.pending = pending.kind
BY DEF Abstract, Saved, Now

LEMMA KindFacts ==
  \A reason :
    /\ reason \in Signals => ReasonKind(reason) = "stuck"
    /\ reason = "none" => ReasonKind(reason) = "none"
    /\ reason = "stopped" => ReasonKind(reason) = "stopped"
    /\ reason = "tracking_capacity" => ReasonKind(reason) = "capacity"
BY DEF ReasonKind, Signals

LEMMA NowType ==
  ASSUME RecoveryInv
  PROVE  Now \in Snapshots
<1>1. /\ ctl \in Controllers /\ pending \in Pendings /\ total \in 0..MaxAttempts
  BY DEF RecoveryInv, Good, Tracked, Consistent, Decided
<1>2. ReasonKind(ctl.reason) \in Reasons
  BY <1>1, KindFacts DEF Controllers, Reasons
<1> QED BY <1>1, <1>2 DEF Now, Snapshots, Controllers, Pendings

LEMMA SameSnapshot ==
  ASSUME NEW m \in Snapshots, NEW n \in Snapshots,
         m.status = n.status, m.reason = n.reason, m.attempts = n.attempts,
         m.help = n.help, m.total = n.total, m.pending = n.pending
  PROVE  m = n
BY DEF Snapshots

LEMMA SetFacts ==
  ASSUME NEW r \in Snapshots
  PROVE  /\ \A s \in {"blocked", "stopped"}, why \in Reasons :
              LET m == Terminal(r, s, why)
              IN  /\ m \in Snapshots /\ m.status = s /\ m.reason = why /\ m.pending = s
                  /\ m.attempts = r.attempts /\ m.help = r.help /\ m.total = r.total
         /\ LET m == Cleared(r)
            IN  /\ m \in Snapshots /\ m.status = r.status /\ m.reason = "none"
                /\ m.pending = r.pending /\ m.attempts = 0 /\ m.help = r.help
                /\ m.total = r.total
<1>1. ASSUME NEW s \in {"blocked", "stopped"}, NEW why \in Reasons
      PROVE  LET m == Terminal(r, s, why)
             IN  /\ m \in Snapshots /\ m.status = s /\ m.reason = why /\ m.pending = s
                 /\ m.attempts = r.attempts /\ m.help = r.help /\ m.total = r.total
  <2>1. s \in {"active", "needs_help", "blocked", "stopped"} /\ s \in Decisions \cup {"none"}
    BY DEF Decisions
  <2> QED BY <2>1 DEF Terminal, Snapshots
<1>2. LET m == Cleared(r)
      IN  /\ m \in Snapshots /\ m.status = r.status /\ m.reason = "none"
          /\ m.pending = r.pending /\ m.attempts = 0 /\ m.help = r.help
          /\ m.total = r.total
  <2>1. 0 \in 0..MaxAttempts /\ "none" \in Reasons
    BY PolicyAssumption DEF Reasons
  <2> QED BY <2>1 DEF Cleared, Snapshots
<1> QED BY <1>1, <1>2

LEMMA BlockRule ==
  ASSUME RecoveryInv, pending.kind \in {"none", "recover"}, NEW c, c \in Controllers,
         c.attempts = ctl.attempts, c.help = ctl.help, BlockCapacity(c)
  PROVE  Now' = Terminal(Now, "blocked", "capacity")
<1>1. /\ ctl'.status = "blocked" /\ ctl'.reason = "tracking_capacity"
      /\ ctl'.attempts = ctl.attempts /\ ctl'.help = ctl.help /\ total' = total
      /\ pending'.kind = "blocked"
  BY DEF BlockCapacity, Pend, Controllers
<1>2. /\ Now'.status = "blocked" /\ Now'.reason = "capacity" /\ Now'.attempts = Now.attempts
      /\ Now'.help = Now.help /\ Now'.total = Now.total /\ Now'.pending = "blocked"
  BY <1>1, KindFacts DEF Now
<1>3. Now \in Snapshots /\ Now' \in Snapshots
  <2>1. Now \in Snapshots
    BY NowType
  <2>2. /\ ctl.attempts \in 0..MaxAttempts /\ ctl.help \in 0..HelpLimit
        /\ total \in 0..MaxAttempts /\ ReasonKind(ctl'.reason) \in Reasons
    BY <1>1, KindFacts DEF RecoveryInv, Good, Tracked, Controllers, Consistent, Reasons
  <2> QED BY <1>1, <2>1, <2>2 DEF Now, Snapshots, Decisions
<1> QED BY <1>2, <1>3, SetFacts, SameSnapshot DEF Reasons

LEMMA ObserveRule ==
  ASSUME RecoveryInv, NEW o \in Observations, Observe(o)
  PROVE  Allowed
<1>1. /\ pending = NoDecision /\ pending.kind = "none" /\ ctl.status = "active"
      /\ Good(ctl, total, pending) /\ ctl \in Controllers
  BY DEF Observe, RecoveryInv, Good, Decided, NoDecision, Tracked
<1>2. AfterObserving(Now) \subseteq Steps(Now, Abstract(before))
  BY <1>1, NowFacts DEF Steps
<1>3. CASE OutOfCapacity(o)
  <2>1. PICK c : c = Overfull(o)
    OBVIOUS
  <2>2. BlockCapacity(c)
    BY <1>3, <2>1 DEF Observe
  <2>3. c \in Controllers /\ c.attempts = ctl.attempts /\ c.help = ctl.help
    BY <1>1, <2>1, OverfullFacts DEF Tracked
  <2>4. Now' = Terminal(Now, "blocked", "capacity")
    BY <1>1, <2>2, <2>3, BlockRule
  <2> QED BY <1>2, <2>4 DEF AfterObserving, Allowed
<1>4. CASE ~OutOfCapacity(o)
  <2>1. PICK c : c = Counted(o)
    OBVIOUS
  <2>2. /\ c \in Controllers /\ c.status = "active" /\ c.help = ctl.help
        /\ \/ c.attempts = ctl.attempts /\ c.reason = ctl.reason
           \/ c.attempts = 0 /\ c.reason = "none" /\ ReasonOf(o, c) = "none"
    BY <1>1, <1>4, <2>1, CountedFacts DEF Tracked
  <2>3. CASE ReasonOf(o, c) = "none"
    <3>1. ctl' = c /\ total' = total /\ pending' = pending
      BY <1>4, <2>1, <2>3 DEF Observe, Continue
    <3>2. CASE c.attempts = ctl.attempts /\ c.reason = ctl.reason
      BY <1>1, <2>2, <3>1, <3>2 DEF Now, Allowed
    <3>3. CASE c.attempts = 0 /\ c.reason = "none"
      <4>1. Now' = Cleared(Now)
        <5>1. /\ Now'.status = Now.status /\ Now'.reason = "none" /\ Now'.attempts = 0
              /\ Now'.help = Now.help /\ Now'.total = Now.total /\ Now'.pending = Now.pending
          BY <1>1, <2>2, <3>1, <3>3, KindFacts DEF Now
        <5>2. Now \in Snapshots /\ ReasonKind(ctl'.reason) \in Reasons
          BY <3>1, <3>3, NowType, KindFacts DEF Reasons
        <5>3. Now' \in Snapshots
          BY <5>1, <5>2, PolicyAssumption DEF Now, Snapshots
        <5> QED BY <5>1, <5>2, <5>3, SetFacts, SameSnapshot
      <4> QED BY <1>2, <4>1 DEF AfterObserving, Allowed
    <3> QED BY <2>2, <3>2, <3>3
  <2>4. CASE ReasonOf(o, c) # "none"
    <3>1. PICK noted : noted = [c EXCEPT !.reason = ReasonOf(o, c)]
      OBVIOUS
    <3>2. Recover(noted) \/ AskOrBlock(noted)
      BY <1>4, <2>1, <2>4, <3>1 DEF Observe
    <3>3. ReasonOf(o, c) \in Signals
      BY <2>4, ReasonFacts
    <3>4. /\ noted \in Controllers /\ noted.reason \in Signals
          /\ noted.status = ctl.status /\ noted.attempts = ctl.attempts
          /\ noted.help = ctl.help
      BY <1>1, <2>2, <2>4, <3>1, <3>3 DEF Controllers
    <3>5. Now' = Signal(Now)
      <4>1. CASE Recover(noted)
        <5>1. /\ ctl'.status = ctl.status /\ ctl'.reason = noted.reason
              /\ ctl'.attempts = ctl.attempts + 1 /\ ctl'.help = ctl.help
              /\ total' = total + 1 /\ pending'.kind = "recover"
              /\ ctl.attempts < MaxAttempts /\ total < MaxAttempts
          BY <3>4, <4>1 DEF Recover, Pend, Controllers
        <5> QED BY <3>4, <5>1, NowFacts, KindFacts DEF Now, Signal
      <4>2. CASE AskOrBlock(noted)
        <5>1. ~(ctl.attempts < MaxAttempts /\ total < MaxAttempts)
          BY <3>4, <4>2 DEF AskOrBlock
        <5>2. Signal(Now) = Exhausted(Now)
          BY <5>1, NowFacts DEF Signal
        <5>3. CASE ctl.help < HelpLimit
          <6>1. /\ ctl'.status = "needs_help" /\ ctl'.reason = noted.reason
                /\ ctl'.attempts = MaxAttempts /\ ctl'.help = ctl.help + 1
                /\ total' = total /\ pending'.kind = "needs_help"
            BY <3>4, <4>2, <5>3 DEF AskOrBlock, Pend, Controllers
          <6>2. Now' = Exhausted(Now)
            BY <3>4, <5>3, <6>1, KindFacts DEF Now, Exhausted, Terminal
          <6> QED BY <5>2, <6>2
        <5>4. CASE ~(ctl.help < HelpLimit)
          <6>1. /\ ctl'.status = "blocked" /\ ctl'.reason = noted.reason
                /\ ctl'.attempts = MaxAttempts /\ ctl'.help = ctl.help
                /\ total' = total /\ pending'.kind = "blocked"
            BY <3>4, <4>2, <5>4 DEF AskOrBlock, Pend, Controllers
          <6>2. Now' = Exhausted(Now)
            BY <3>4, <5>4, <6>1, KindFacts DEF Now, Exhausted, Terminal
          <6> QED BY <5>2, <6>2
        <5> QED BY <5>3, <5>4
      <4> QED BY <3>2, <4>1, <4>2
    <3> QED BY <1>2, <3>5 DEF AfterObserving, Allowed
  <2> QED BY <2>3, <2>4
<1> QED BY <1>3, <1>4

(* Every step changes the run's snapshot as RecoveryRules allows: what     *)
(* ManagedTask assumes of recovery is what the counters do.                *)
THEOREM RulesAreFollowed == Spec => FollowsRules
<1>1. ASSUME RecoveryInv, [Next]_vars PROVE Allowed
  <2>1. CASE HandlerReturned
    BY <1>1, <2>1, Reported, ObserveRule
  <2>2. CASE AnswerCut
    BY <1>1, <2>2, Reported, ObserveRule
  <2>3. CASE CheckExecuted
    BY <1>1, <2>3, Reported, ObserveRule
  <2>4. ctl \in Controllers
    BY <1>1 DEF RecoveryInv, Good, Tracked
  <2>5. CASE Stop
    <3>1. /\ ctl'.status = "stopped" /\ ctl'.reason = "stopped" /\ ctl'.help = ctl.help
          /\ ctl'.attempts = ctl.attempts /\ total' = total /\ pending'.kind = "stopped"
      BY <2>4, <2>5 DEF Stop, Pend, Controllers
    <3>2. Now' = AfterStop(Now)
      <4>1. /\ Now'.status = "stopped" /\ Now'.reason = "stopped"
            /\ Now'.attempts = Now.attempts /\ Now'.help = Now.help
            /\ Now'.total = Now.total /\ Now'.pending = "stopped"
        BY <3>1, KindFacts DEF Now
      <4>2. Now \in Snapshots /\ ReasonKind(ctl'.reason) \in Reasons
        BY <1>1, <3>1, NowType, KindFacts DEF Reasons
      <4>3. Now' \in Snapshots
        BY <4>1, <4>2 DEF Now, Snapshots, Decisions
      <4> QED BY <4>1, <4>2, <4>3, SetFacts, SameSnapshot DEF AfterStop, Reasons
    <3> QED BY <3>2 DEF Steps, Allowed
  <2>6. CASE ResumeStopped
    <3>1. pending.kind = "stopped" /\ Now' = Abstract(before)
      BY <2>6 DEF ResumeStopped, Now, Abstract
    <3> QED BY <3>1, NowFacts DEF Steps, Allowed
  <2>7. CASE ConsumeIntervention
    <3>1. pending.kind = "recover" /\ Now' = AfterIntervention(Now)
      BY <2>7 DEF ConsumeIntervention, Now, AfterIntervention, NoDecision
    <3> QED BY <3>1, NowFacts DEF Steps, Allowed
  <2>8. CASE BlockTracking
    <3>1. PICK c : c = ctl
      OBVIOUS
    <3>2. pending.kind \in {"none", "recover"} /\ BlockCapacity(c)
      BY <2>8, <3>1 DEF BlockTracking
    <3>3. Now' = AfterBlock(Now)
      BY <1>1, <2>4, <3>1, <3>2, BlockRule, NowFacts DEF AfterBlock
    <3> QED BY <3>3 DEF Steps, Allowed
  <2>9. CASE UNCHANGED vars
    BY <2>9 DEF vars, Now, Allowed
  <2> QED BY <1>1, <2>1, <2>2, <2>3, <2>5, <2>6, <2>7, <2>8, <2>9 DEF Next
<1>2. RecoveryInv /\ [Next]_vars
        => Abstract(Saved)' \in {Abstract(Saved)} \cup Steps(Abstract(Saved), Abstract(before))
  BY <1>1, NowFacts DEF Allowed
<1>3. Spec => [][Abstract(Saved)' \in {Abstract(Saved)}
                                     \cup Steps(Abstract(Saved), Abstract(before))]_vars
  BY <1>2, RecoveryInvariant, PTL DEF Spec
<1> QED BY <1>3 DEF FollowsRules
=============================================================================
