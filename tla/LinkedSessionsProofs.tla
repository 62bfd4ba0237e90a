------------------------ MODULE LinkedSessionsProofs ------------------------
(***************************************************************************)
(* Proofs about LinkedSessions for every set of terminals and links, every *)
(* limit on hops and every number of messages, failures and ends.          *)
(*                                                                         *)
(* LinkInv is inductive.  It is one account per message, MessageOk, and    *)
(* one of the group.  A message is held by one terminal only, the target   *)
(* of its receipt; what the terminal, or an answer the board has not read  *)
(* to its end, says of it as finished is its outcome; while its request is *)
(* under way nobody has it and its target lives, and when it was refused   *)
(* nobody ever has it.  So a receipt that is settled stays true, and only  *)
(* a receipt that is not settled is settled and routed.                    *)
(***************************************************************************)
EXTENDS LinkedSessions, FiniteSetTheorems, TLAPS

----------------------------------------------------------------------------
(* Types.                                                                  *)

Working == {"none", "running", "completed", "failed"}

Procs == [alive : BOOLEAN, has : [Ids -> Working]]

NodeViews == [state : {"starting", "ready", "stopping", "exited", "closed"},
              address : BOOLEAN, closing : BOOLEAN, waited : BOOLEAN]

Receipts == [state : {"none"} \cup Unheard \cup Ended, target : Nodes, visited : SUBSET Nodes,
             role : {"none", "research", "synthesis", "forward", "typed"}]

Watches == [at : {"idle", "settle", "route", "await"}, seen : [Ids -> Working],
            from : Ids \cup {NoId}, to : SUBSET Nodes, on : Ids \cup {NoId}]

Groups == [state : {"none", "running", "joining", "submitted", "uncertain"} \cup Ended,
           at : {"none", "next", "await", "done"}, left : SUBSET Researchers,
           synthesis : Ids \cup {NoId}, launches : Nat, on : Ids \cup {NoId}]

CallsTyped == call \in [Ids -> {"none", "out", "late", "dead", "accepted", "refused", "over"}]

BoardTyped ==
  /\ receipts \in [Ids -> Receipts] /\ CallsTyped
  /\ watch \in [Nodes -> Watches]
  /\ \A n \in Nodes : watch[n].at = "route" => watch[n].from # NoId
  /\ group \in Groups
  /\ routed \in [Ids -> Nat] /\ undone \in SUBSET Ids

TerminalsTyped ==
  /\ proc \in [Nodes -> Procs]
  /\ \A n \in Nodes : ~proc[n].alive => proc[n].has = Nothing
  /\ node \in [Nodes -> NodeViews]
  /\ outcome \in [Ids -> Working \cup {"lost"}]

LinkTyped == BoardTyped /\ TerminalsTyped

----------------------------------------------------------------------------
(* The account of a message.                                               *)

\* In a terminal, or in an answer of it that is not read to its end.
Held(n, i) == proc[n].has[i] # "none" \/ watch[n].seen[i] # "none"

RoleKnown(i) ==
  /\ receipts[i].role = "none" <=> receipts[i].state = "none"
  /\ receipts[i].role = "none" => call[i] = "none"

HeldByTarget(i) ==
  \A n \in Nodes : Held(n, i) =>
    /\ receipts[i].role # "none" => receipts[i].target = n
    /\ \A m \in Nodes : Held(m, i) => m = n

\* What is told of a message as finished is its outcome.
ToldTruly(i) ==
  \A n \in Nodes :
    /\ watch[n].seen[i] # "none" => proc[n].has[i] # "none" \/ outcome[i] # "none"
    /\ proc[n].has[i] = "running" => outcome[i] = "none"
    /\ proc[n].has[i] \in Ended => outcome[i] = proc[n].has[i]
    /\ watch[n].seen[i] \in Ended => outcome[i] = watch[n].seen[i]

UnderWay(i) ==
  /\ call[i] \in {"out", "late"} =>
       /\ proc[receipts[i].target].alive /\ outcome[i] = "none" /\ receipts[i].state \notin Ended
       /\ \A n \in Nodes : ~Held(n, i)
  /\ call[i] = "refused" => outcome[i] = "none" /\ \A n \in Nodes : proc[n].has[i] = "none"

Truthful(i) ==
  receipts[i].state \in Ended =>
    /\ receipts[i].state = "completed" => outcome[i] = "completed"
    /\ \A n \in Nodes : proc[n].has[i] # "running"

RoutedOnceAt(i) ==
  /\ routed[i] > 0 => outcome[i] = "completed"
  /\ i \notin undone => routed[i] <= 1 /\ (routed[i] = 1 => receipts[i].state = "completed")

MessageOk(i) ==
  /\ RoleKnown(i) /\ HeldByTarget(i) /\ ToldTruly(i)
  /\ UnderWay(i) /\ Truthful(i) /\ RoutedOnceAt(i)

MessagesOk == \A i \in Ids : MessageOk(i)

----------------------------------------------------------------------------
(* The group: launched once, and then done with research.                  *)

GroupOnce ==
  /\ group.launches <= 1
  /\ group.launches = 1 =>
       /\ group.state # "running" /\ group.at # "none" /\ group.left = {}
       /\ \A i \in Research(receipts) : outcome[i] = "completed"
  /\ group.state = "running" => group.at # "none"

\* A watch waits for a request that was sent.
WaitsKnown == \A n \in Nodes : watch[n].on # NoId => receipts[watch[n].on].role # "none"

\* The inductive invariant.
LinkInv == LinkTyped /\ GroupOnce /\ WaitsKnown /\ MessagesOk

----------------------------------------------------------------------------
(* Parts of an action.                                                     *)

LEMMA IdsAreNat == NoId \notin Ids /\ \A i \in Ids : i \in Nat
BY LimitAssumption DEF NoId, Ids

LEMMA NothingTold == Nothing \in [Ids -> Working] /\ \A i \in Ids : Nothing[i] = "none"
BY DEF Nothing, Working

LEMMA FreshFacts ==
  ASSUME LinkInv, Fresh # {}
  PROVE  /\ NextId \in Ids /\ receipts[NextId].role = "none" /\ receipts[NextId].state = "none"
         /\ call[NextId] = "none" /\ outcome[NextId] = "none"
         /\ \A n \in Nodes : ~Held(n, NextId) /\ proc[n].has[NextId] = "none"
<1>1. NextId \in Fresh
  BY DEF NextId
<1>2. /\ NextId \in Ids /\ receipts[NextId].role = "none" /\ outcome[NextId] = "none"
      /\ \A n \in Nodes : proc[n].has[NextId] = "none"
  BY <1>1 DEF Fresh
<1>3. MessageOk(NextId)
  BY <1>2 DEF LinkInv, MessagesOk
<1>4. \A n \in Nodes : ~Held(n, NextId)
  BY <1>2, <1>3 DEF MessageOk, ToldTruly, Held
<1> QED BY <1>2, <1>3, <1>4 DEF MessageOk, RoleKnown

LEMMA SendFacts ==
  ASSUME LinkTyped, NextId \in Ids, NEW rs \in [Ids -> Receipts], NEW n \in Nodes,
         NEW visited \in SUBSET Nodes, NEW role \in {"research", "synthesis", "forward"}
  PROVE  /\ Sending(rs, n, visited, role) \in [Ids -> Receipts]
         /\ Carried(n) \in [Ids -> {"none", "out", "late", "dead", "accepted", "refused", "over"}]
         /\ \A i \in Ids : i # NextId =>
              Sending(rs, n, visited, role)[i] = rs[i] /\ Carried(n)[i] = call[i]
         /\ Sending(rs, n, visited, role)[NextId].state = "sending"
         /\ Sending(rs, n, visited, role)[NextId].target = n
         /\ Sending(rs, n, visited, role)[NextId].role = role
         /\ Carried(n)[NextId] = IF proc[n].alive THEN "out" ELSE "dead"
<1> DEFINE r == [state |-> "sending", target |-> n, visited |-> visited, role |-> role]
<1>1. r \in Receipts /\ r.state = "sending" /\ r.target = n /\ r.role = role
  BY DEF Receipts, Unheard
<1>2. Sending(rs, n, visited, role) = [rs EXCEPT ![NextId] = r]
  BY DEF Sending
<1> HIDE DEF r
<1>3. /\ Sending(rs, n, visited, role) \in [Ids -> Receipts]
      /\ \A i \in Ids : i # NextId => Sending(rs, n, visited, role)[i] = rs[i]
      /\ Sending(rs, n, visited, role)[NextId] = r
  BY <1>2, <1>1
<1> DEFINE c == IF proc[n].alive THEN "out" ELSE "dead"
<1>4. c \in {"out", "dead"}
  OBVIOUS
<1>5. Carried(n) = [call EXCEPT ![NextId] = c]
  BY DEF Carried
<1> HIDE DEF c
<1>6. /\ Carried(n) \in [Ids -> {"none", "out", "late", "dead", "accepted", "refused", "over"}]
      /\ \A i \in Ids : i # NextId => Carried(n)[i] = call[i]
      /\ Carried(n)[NextId] = c
  BY <1>4, <1>5 DEF LinkTyped, BoardTyped, CallsTyped
<1> QED BY <1>1, <1>3, <1>6 DEF c

\* The group that is launched by sending k.
Launched(g, k) == [g EXCEPT !.state = "joining", !.synthesis = k, !.launches = @ + 1]

LEMMA JoinedFacts ==
  ASSUME NEW rs, NEW g \in Groups
  PROVE  \/ /\ Joined(rs, g).receipts = rs /\ Joined(rs, g).call = call /\ Joined(rs, g).on = NoId
            /\ Joined(rs, g).group \in Groups
            /\ \/ Joined(rs, g).group = g
               \/ g.state = "running" /\ Joined(rs, g).group = [g EXCEPT !.state = "failed"]
         \/ /\ g.state = "running" /\ AllIn(rs, g) /\ CanSend(Synthesizer, {})
            /\ Joined(rs, g).receipts = Sending(rs, Synthesizer, {}, "synthesis")
            /\ Joined(rs, g).call = Carried(Synthesizer) /\ Joined(rs, g).on = NextId
            /\ Joined(rs, g).group = Launched(g, NextId)
<1> DEFINE still  == [receipts |-> rs, call |-> call, group |-> g, on |-> NoId]
           failed == [still EXCEPT !.group.state = "failed"]
           sent   == [receipts |-> Sending(rs, Synthesizer, {}, "synthesis"),
                      call     |-> Carried(Synthesizer),
                      group    |-> Launched(g, NextId),
                      on       |-> NextId]
           bad    == \E i \in Research(rs) : rs[i].state \in {"failed", "interrupted"}
<1>1. AllIn(rs, g) => ~bad
  BY DEF AllIn
<1>2. /\ g.state # "running" => Joined(rs, g) = still
      /\ g.state = "running" /\ bad => Joined(rs, g) = failed
      /\ g.state = "running" /\ ~bad /\ ~AllIn(rs, g) => Joined(rs, g) = still
  BY <1>1 DEF Joined
<1>3. g.state = "running" /\ AllIn(rs, g)
        => Joined(rs, g) = IF ~CanSend(Synthesizer, {}) THEN failed ELSE sent
  BY <1>1 DEF Joined, Launched
<1>4. /\ failed.receipts = rs /\ failed.call = call /\ failed.on = NoId
      /\ failed.group = [g EXCEPT !.state = "failed"]
  OBVIOUS
<1>5. [g EXCEPT !.state = "failed"] \in Groups
  BY DEF Groups, Ended
<1> HIDE DEF failed, bad
<1>6. CASE Joined(rs, g) = still
  BY <1>6
<1>7. CASE g.state = "running" /\ Joined(rs, g) = failed
  BY <1>4, <1>5, <1>7
<1>8. CASE g.state = "running" /\ AllIn(rs, g) /\ CanSend(Synthesizer, {}) /\ Joined(rs, g) = sent
  BY <1>8
<1> HIDE DEF still, sent
<1> QED BY <1>2, <1>3, <1>6, <1>7, <1>8

----------------------------------------------------------------------------
(* What a step leaves alone.                                               *)

LEMMA MessageStands ==
  ASSUME NEW i \in Ids, MessageOk(i),
         receipts'[i].state = receipts[i].state, receipts'[i].role = receipts[i].role,
         receipts'[i].target = receipts[i].target,
         \/ call'[i] = call[i]
         \/ receipts[i].role # "none" /\ call'[i] \in {"over", "dead"}
         \/ call[i] = "out" /\ call'[i] = "late",
         call'[i] \in {"out", "late"} => proc'[receipts[i].target].alive,
         \A n \in Nodes : proc'[n].has[i] = proc[n].has[i],
         \A n \in Nodes : watch'[n].seen[i] \in {"none", watch[n].seen[i]},
         outcome'[i] = outcome[i], routed'[i] = routed[i], undone \subseteq undone'
  PROVE  MessageOk(i)'
<1>1. \A n \in Nodes : Held(n, i)' => Held(n, i)
  BY DEF Held
<1>2. RoleKnown(i)'
  BY DEF MessageOk, RoleKnown
<1>3. HeldByTarget(i)'
  BY <1>1 DEF MessageOk, HeldByTarget
<1>4. ToldTruly(i)'
  BY DEF MessageOk, ToldTruly, Ended
<1>5. UnderWay(i)'
  BY <1>1 DEF MessageOk, UnderWay
<1>6. Truthful(i)'
  BY DEF MessageOk, Truthful
<1>7. RoutedOnceAt(i)'
  BY DEF MessageOk, RoutedOnceAt
<1> QED BY <1>2, <1>3, <1>4, <1>5, <1>6, <1>7 DEF MessageOk

\* A message that was new goes to a terminal.
LEMMA MessageSent ==
  ASSUME NEW i \in Ids, MessageOk(i), receipts[i].role = "none", outcome[i] = "none",
         \A n \in Nodes : ~Held(n, i),
         receipts'[i].state = "sending", receipts'[i].role # "none",
         call'[i] = IF proc[receipts'[i].target].alive THEN "out" ELSE "dead",
         UNCHANGED <<proc, outcome, undone>>, routed'[i] = routed[i],
         \A n \in Nodes : watch'[n].seen[i] \in {"none", watch[n].seen[i]}
  PROVE  MessageOk(i)'
<1>1. \A n \in Nodes : ~Held(n, i)'
  BY DEF Held
<1>2. RoleKnown(i)' /\ HeldByTarget(i)' /\ Truthful(i)'
  BY <1>1 DEF RoleKnown, HeldByTarget, Truthful, Ended
<1>3. ToldTruly(i)'
  BY <1>1 DEF ToldTruly, Held, Ended
<1>4. UnderWay(i)'
  BY <1>1 DEF UnderWay, Ended
<1>5. RoutedOnceAt(i)'
  BY DEF MessageOk, RoutedOnceAt, RoleKnown
<1> QED BY <1>2, <1>3, <1>4, <1>5 DEF MessageOk

\* The board says something else of a message.
LEMMA MessageRestated ==
  ASSUME NEW i \in Ids, MessageOk(i),
         receipts'[i].role # "none", receipts'[i].state # "none",
         \A n \in Nodes : Held(n, i) => receipts'[i].target = n,
         call'[i] \in {"out", "late"} =>
           /\ call[i] \in {"out", "late"} /\ receipts'[i].target = receipts[i].target
           /\ proc'[receipts[i].target].alive /\ receipts'[i].state \notin Ended,
         call'[i] = "refused" => call[i] = "refused",
         \A n \in Nodes : proc'[n].has[i] = proc[n].has[i],
         \A n \in Nodes : watch'[n].seen[i] \in {"none", watch[n].seen[i]},
         outcome'[i] = outcome[i], Truthful(i)', RoutedOnceAt(i)'
  PROVE  MessageOk(i)'
<1>1. \A n \in Nodes : Held(n, i)' => Held(n, i)
  BY DEF Held
<1>2. RoleKnown(i)' /\ HeldByTarget(i)'
  BY <1>1 DEF MessageOk, RoleKnown, HeldByTarget
<1>3. ToldTruly(i)'
  BY DEF MessageOk, ToldTruly, Ended
<1>4. UnderWay(i)'
  BY <1>1 DEF MessageOk, UnderWay
<1> QED BY <1>2, <1>3, <1>4 DEF MessageOk

LEMMA GroupStands ==
  ASSUME LinkTyped, GroupOnce, group'.launches = group.launches, group'.left \subseteq group.left,
         group'.state = "running" => group.state = "running",
         group'.at = "none" => group.at = "none",
         Research(receipts') \subseteq Research(receipts),
         \A i \in Ids : outcome[i] = "completed" => outcome'[i] = "completed"
  PROVE  GroupOnce'
<1>1. Research(receipts') = {i \in Ids : receipts'[i].role = "research"}
  BY DEF Research
<1> QED BY <1>1 DEF GroupOnce, Research

LEMMA WaitsStand ==
  ASSUME LinkTyped, WaitsKnown, \A n \in Nodes : watch'[n].on \in {NoId, watch[n].on},
         \A i \in Ids : receipts[i].role # "none" => receipts'[i].role # "none"
  PROVE  WaitsKnown'
<1> SUFFICES ASSUME NEW n \in Nodes, watch'[n].on # NoId
             PROVE  receipts'[watch'[n].on].role # "none"
  BY DEF WaitsKnown
<1>1. watch[n].on \in Ids /\ watch'[n].on = watch[n].on
  BY DEF LinkTyped, BoardTyped, Watches
<1> QED BY <1>1 DEF WaitsKnown

\* A step of the terminals alone.
LEMMA BoardStands ==
  ASSUME LinkInv, UNCHANGED board, \A i \in Ids : outcome[i] = "completed" => outcome'[i] = "completed"
  PROVE  BoardTyped' /\ GroupOnce' /\ WaitsKnown'
<1>1. UNCHANGED <<receipts, call, watch, group, routed, undone>>
  BY DEF board
<1>2. BoardTyped'
  BY <1>1 DEF LinkInv, LinkTyped, BoardTyped, CallsTyped
<1>3. GroupOnce'
  BY <1>1, GroupStands DEF LinkInv
<1>4. WaitsKnown'
  BY <1>1, WaitsStand DEF LinkInv
<1> QED BY <1>2, <1>3, <1>4

LEMMA NodeKeeps ==
  ASSUME LinkInv, UNCHANGED <<proc, receipts, call, watch, group, outcome, routed, undone>>,
         node' \in [Nodes -> NodeViews]
  PROVE  LinkInv'
<1>1. LinkTyped'
  BY DEF LinkInv, LinkTyped, BoardTyped, CallsTyped, TerminalsTyped
<1>2. GroupOnce' /\ WaitsKnown'
  BY BoardStands DEF board
<1>3. MessagesOk'
  <2> SUFFICES ASSUME NEW i \in Ids PROVE MessageOk(i)'
    BY DEF MessagesOk
  <2> QED BY DEF LinkInv, MessagesOk, MessageOk, RoleKnown, HeldByTarget, Held, ToldTruly,
                  UnderWay, Truthful, RoutedOnceAt
<1> QED BY <1>1, <1>2, <1>3 DEF LinkInv

----------------------------------------------------------------------------
(* The terminals.                                                          *)

LEMMA TypeKeeps ==
  ASSUME LinkInv, NEW n \in Nodes, Type(n)
  PROVE  LinkInv'
<1>0. Fresh # {}
  BY DEF Type
<1> PICK k \in Ids : k = NextId
  BY <1>0, FreshFacts
<1> DEFINE hs == [proc[n].has EXCEPT ![k] = "running"]
           pr == [proc[n] EXCEPT !.has = hs]
<1>1. /\ proc[n].alive /\ Fresh # {} /\ proc' = [proc EXCEPT ![n].has[k] = "running"]
      /\ UNCHANGED <<node, board, outcome>>
  BY DEF Type
<1>2. /\ k \in Ids /\ receipts[k].role = "none" /\ receipts[k].state = "none"
      /\ call[k] = "none" /\ outcome[k] = "none"
      /\ \A m \in Nodes : ~Held(m, k) /\ proc[m].has[k] = "none"
  BY <1>1, FreshFacts
<1>3. proc \in [Nodes -> Procs] /\ proc[n] \in Procs
  BY DEF LinkInv, LinkTyped, TerminalsTyped
<1>4. hs \in [Ids -> Working] /\ hs[k] = "running" /\ \A i \in Ids : i # k => hs[i] = proc[n].has[i]
  BY <1>2, <1>3 DEF Procs, Working
<1>5. proc' = [proc EXCEPT ![n] = [proc[n] EXCEPT !.has = hs]]
  BY <1>1, <1>3 DEF Procs
<1> HIDE DEF hs
<1>6. pr \in Procs /\ pr.alive /\ pr.has = hs /\ proc' = [proc EXCEPT ![n] = pr]
  BY <1>1, <1>3, <1>4, <1>5 DEF Procs
<1> HIDE DEF pr
<1>7. /\ proc' \in [Nodes -> Procs] /\ proc'[n] = pr /\ \A m \in Nodes : m # n => proc'[m] = proc[m]
  BY <1>3, <1>6
<1>8. TerminalsTyped'
  BY <1>1, <1>6, <1>7 DEF LinkInv, LinkTyped, TerminalsTyped
<1>9. BoardTyped' /\ GroupOnce' /\ WaitsKnown'
  BY <1>1, BoardStands
<1>10. UNCHANGED <<receipts, call, watch, group, routed, undone, outcome>>
  BY <1>1 DEF board
<1>11. ASSUME NEW i \in Ids, i # k PROVE MessageOk(i)'
  <2>1. \A m \in Nodes : proc'[m].has[i] = proc[m].has[i] /\ proc'[m].alive = proc[m].alive
    BY <1>1, <1>4, <1>6, <1>7, <1>11
  <2>2. receipts[i].target \in Nodes /\ MessageOk(i)
    BY DEF LinkInv, MessagesOk, LinkTyped, BoardTyped, Receipts
  <2>3. call'[i] \in {"out", "late"} => proc'[receipts[i].target].alive
    BY <1>10, <2>1, <2>2 DEF MessageOk, UnderWay
  <2> QED BY <1>10, <2>1, <2>2, <2>3, MessageStands
<1>12. MessageOk(k)'
  <2>1. MessageOk(k)
    BY <1>2 DEF LinkInv, MessagesOk
  <2>2. /\ proc'[n].has[k] = "running" /\ watch'[n].seen[k] = "none"
        /\ \A m \in Nodes : m # n => ~Held(m, k)' /\ proc'[m].has[k] = "none" /\ watch'[m].seen[k] = "none"
    BY <1>2, <1>4, <1>6, <1>7, <1>10 DEF Held
  <2>3. RoleKnown(k)' /\ UnderWay(k)' /\ Truthful(k)' /\ RoutedOnceAt(k)'
    BY <1>2, <1>10, <2>1 DEF MessageOk, RoleKnown, UnderWay, Truthful, RoutedOnceAt, Ended
  <2>4. HeldByTarget(k)'
    BY <1>2, <1>10, <2>2 DEF HeldByTarget
  <2>5. ToldTruly(k)'
    BY <1>2, <1>10, <2>2 DEF ToldTruly, Ended
  <2> QED BY <2>3, <2>4, <2>5 DEF MessageOk
<1>13. MessagesOk'
  BY <1>11, <1>12 DEF MessagesOk
<1> QED BY <1>8, <1>9, <1>13 DEF LinkInv, LinkTyped

LEMMA FinishKeeps ==
  ASSUME LinkInv, NEW n \in Nodes, NEW k \in Ids, NEW how \in {"completed", "failed"}, Finish(n, k, how)
  PROVE  LinkInv'
<1> DEFINE hs == [proc[n].has EXCEPT ![k] = how]
           pr == [proc[n] EXCEPT !.has = hs]
<1>1. /\ proc[n].alive /\ proc[n].has[k] = "running" /\ proc' = [proc EXCEPT ![n].has[k] = how]
      /\ outcome' = [outcome EXCEPT ![k] = how]
      /\ UNCHANGED <<node, board>>
  BY DEF Finish
<1>2. proc \in [Nodes -> Procs] /\ proc[n] \in Procs /\ outcome \in [Ids -> Working \cup {"lost"}]
  BY DEF LinkInv, LinkTyped, TerminalsTyped
<1>3. hs \in [Ids -> Working] /\ hs[k] = how /\ \A i \in Ids : i # k => hs[i] = proc[n].has[i]
  BY <1>2 DEF Procs, Working
<1>4. proc' = [proc EXCEPT ![n] = [proc[n] EXCEPT !.has = hs]]
  BY <1>1, <1>2 DEF Procs
<1> HIDE DEF hs
<1>5. pr \in Procs /\ pr.alive /\ pr.has = hs /\ proc' = [proc EXCEPT ![n] = pr]
  BY <1>1, <1>2, <1>3, <1>4 DEF Procs
<1> HIDE DEF pr
<1>6. /\ proc' \in [Nodes -> Procs] /\ proc'[n] = pr /\ \A m \in Nodes : m # n => proc'[m] = proc[m]
      /\ outcome' \in [Ids -> Working \cup {"lost"}]
      /\ outcome'[k] = how /\ \A i \in Ids : i # k => outcome'[i] = outcome[i]
  BY <1>1, <1>2, <1>5 DEF Working
<1>7. TerminalsTyped'
  BY <1>1, <1>5, <1>6 DEF LinkInv, LinkTyped, TerminalsTyped
<1>8. MessageOk(k) /\ outcome[k] = "none"
  BY <1>1 DEF LinkInv, MessagesOk, MessageOk, ToldTruly
<1>9. BoardTyped' /\ GroupOnce' /\ WaitsKnown'
  BY <1>1, <1>6, <1>8, BoardStands
<1>10. UNCHANGED <<receipts, call, watch, group, routed, undone>>
  BY <1>1 DEF board
<1>11. ASSUME NEW i \in Ids, i # k PROVE MessageOk(i)'
  <2>1. \A m \in Nodes : proc'[m].has[i] = proc[m].has[i] /\ proc'[m].alive = proc[m].alive
    BY <1>1, <1>3, <1>5, <1>6, <1>11
  <2>2. receipts[i].target \in Nodes /\ MessageOk(i)
    BY DEF LinkInv, MessagesOk, LinkTyped, BoardTyped, Receipts
  <2>3. call'[i] \in {"out", "late"} => proc'[receipts[i].target].alive
    BY <1>10, <2>1, <2>2 DEF MessageOk, UnderWay
  <2> QED BY <1>6, <1>10, <1>11, <2>1, <2>2, <2>3, MessageStands
<1>12. MessageOk(k)'
  <2>1. Held(n, k) /\ call[k] \notin {"out", "late", "refused"} /\ receipts[k].state \notin Ended
    BY <1>1, <1>8 DEF Held, MessageOk, UnderWay, Truthful
  <2>2. \A m \in Nodes : m # n => ~Held(m, k) /\ ~Held(m, k)'
    BY <1>6, <1>8, <1>10, <2>1 DEF MessageOk, HeldByTarget, Held
  <2>3. proc'[n].has[k] = how /\ outcome'[k] = how /\ watch'[n].seen[k] \notin Ended
    BY <1>3, <1>5, <1>6, <1>8, <1>10 DEF MessageOk, ToldTruly, Ended
  <2>4. RoleKnown(k)' /\ UnderWay(k)' /\ Truthful(k)'
    BY <1>8, <1>10, <2>1 DEF MessageOk, RoleKnown, UnderWay, Truthful
  <2>5. RoutedOnceAt(k)'
    BY <1>8, <1>10, <2>3 DEF MessageOk, RoutedOnceAt
  <2>6. HeldByTarget(k)'
    BY <1>8, <1>10, <2>1, <2>2 DEF MessageOk, HeldByTarget
  <2>7. ToldTruly(k)'
    BY <2>2, <2>3 DEF ToldTruly, Ended, Held
  <2> QED BY <2>4, <2>5, <2>6, <2>7 DEF MessageOk
<1>13. MessagesOk'
  BY <1>11, <1>12 DEF MessagesOk
<1> QED BY <1>7, <1>9, <1>13 DEF LinkInv, LinkTyped

LEMMA ArriveKeeps ==
  ASSUME LinkInv, NEW k \in Ids, Arrive(k)
  PROVE  LinkInv'
<1> DEFINE n == receipts[k].target
<1>1. /\ call[k] \in {"out", "late"} /\ proc[n].alive
      /\ UNCHANGED <<node, receipts, watch, group, outcome, routed, undone>>
  BY DEF Arrive
<1>2. PICK taken \in BOOLEAN :
        /\ proc' = IF taken THEN [proc EXCEPT ![n].has[k] = "running"] ELSE proc
        /\ call' = [call EXCEPT ![k] = IF call[k] = "late" THEN "over"
                                       ELSE IF taken THEN "accepted" ELSE "refused"]
  BY DEF Arrive
<1>3. /\ proc \in [Nodes -> Procs] /\ receipts \in [Ids -> Receipts] /\ n \in Nodes
      /\ call \in [Ids -> {"none", "out", "late", "dead", "accepted", "refused", "over"}]
      /\ \A m \in Nodes : ~proc[m].alive => proc[m].has = Nothing
  BY DEF LinkInv, LinkTyped, TerminalsTyped, BoardTyped, Receipts, CallsTyped
<1>4. /\ call' \in [Ids -> {"none", "out", "late", "dead", "accepted", "refused", "over"}]
      /\ call'[k] \in {"over", "accepted", "refused"} /\ (call'[k] = "refused" => ~taken)
      /\ \A i \in Ids : i # k => call'[i] = call[i]
  BY <1>2, <1>3
<1>5. /\ proc' \in [Nodes -> Procs] /\ proc'[n].alive
      /\ \A m \in Nodes : m # n => proc'[m] = proc[m]
      /\ \A i \in Ids : i # k => proc'[n].has[i] = proc[n].has[i]
      /\ proc'[n].has[k] = IF taken THEN "running" ELSE proc[n].has[k]
  <2>1. CASE taken
    <3> DEFINE hs == [proc[n].has EXCEPT ![k] = "running"]
               pr == [proc[n] EXCEPT !.has = hs]
    <3>1. hs \in [Ids -> Working] /\ hs[k] = "running" /\ \A i \in Ids : i # k => hs[i] = proc[n].has[i]
      BY <1>3 DEF Procs, Working
    <3>2. proc' = [proc EXCEPT ![n] = [proc[n] EXCEPT !.has = hs]]
      BY <1>2, <1>3, <2>1 DEF Procs
    <3> HIDE DEF hs
    <3>3. pr \in Procs /\ pr.alive /\ pr.has = hs /\ proc' = [proc EXCEPT ![n] = pr]
      BY <1>1, <1>3, <3>1, <3>2 DEF Procs
    <3> HIDE DEF pr, n
    <3> QED BY <1>3, <2>1, <3>1, <3>3
  <2>2. CASE ~taken
    BY <1>1, <1>2, <1>3, <2>2
  <2> QED BY <2>1, <2>2
<1>6. MessageOk(k) /\ outcome[k] = "none" /\ receipts[k].state \notin Ended /\ \A m \in Nodes : ~Held(m, k)
  BY <1>1 DEF LinkInv, MessagesOk, MessageOk, UnderWay
<1>7. MessageOk(k)'
  <2>1. \A m \in Nodes : /\ watch'[m].seen[k] = "none"
                         /\ proc'[m].has[k] = IF taken /\ m = n THEN "running" ELSE "none"
    BY <1>1, <1>3, <1>5, <1>6 DEF Held
  <2>2. RoleKnown(k)' /\ Truthful(k)' /\ RoutedOnceAt(k)'
    BY <1>1, <1>6 DEF MessageOk, RoleKnown, Truthful, RoutedOnceAt
  <2>3. HeldByTarget(k)'
    BY <1>1, <2>1 DEF HeldByTarget, Held
  <2>4. ToldTruly(k)'
    BY <1>1, <1>6, <2>1 DEF ToldTruly, Ended
  <2>5. UnderWay(k)'
    BY <1>1, <1>4, <1>6, <2>1 DEF UnderWay
  <2> QED BY <2>2, <2>3, <2>4, <2>5 DEF MessageOk
<1> HIDE DEF n
<1>8. ASSUME NEW i \in Ids, i # k PROVE MessageOk(i)'
  <2>1. \A m \in Nodes : proc'[m].has[i] = proc[m].has[i] /\ (proc[m].alive => proc'[m].alive)
    BY <1>5, <1>8
  <2>2. receipts[i].target \in Nodes /\ MessageOk(i)
    BY <1>3 DEF LinkInv, MessagesOk, Receipts
  <2>3. call'[i] \in {"out", "late"} => proc'[receipts[i].target].alive
    BY <1>4, <1>8, <2>1, <2>2 DEF MessageOk, UnderWay
  <2> QED BY <1>1, <1>4, <1>8, <2>1, <2>2, <2>3, MessageStands
<1>9. LinkTyped'
  <2>1. \A m \in Nodes : ~proc'[m].alive => proc'[m].has = Nothing
    BY <1>3, <1>5
  <2>2. BoardTyped'
    BY <1>1, <1>4 DEF LinkInv, LinkTyped, BoardTyped, CallsTyped
  <2> QED BY <1>1, <1>5, <2>1, <2>2 DEF LinkInv, LinkTyped, TerminalsTyped
<1>10. GroupOnce' /\ WaitsKnown'
  BY <1>1, GroupStands, WaitsStand DEF LinkInv
<1> QED BY <1>7, <1>8, <1>9, <1>10 DEF LinkInv, MessagesOk

LEMMA ProcessEndsKeeps ==
  ASSUME LinkInv, NEW n \in Nodes, ProcessEnds(n)
  PROVE  LinkInv'
<1> DEFINE pr == [alive |-> FALSE, has |-> Nothing]
<1>1. /\ proc[n].alive /\ proc' = [proc EXCEPT ![n] = pr]
      /\ outcome' = [i \in Ids |-> IF proc[n].has[i] = "running" THEN "lost" ELSE outcome[i]]
      /\ UNCHANGED <<node, receipts, watch, group, routed, undone>>
  BY DEF ProcessEnds
<1>2. /\ proc \in [Nodes -> Procs] /\ receipts \in [Ids -> Receipts]
      /\ outcome \in [Ids -> Working \cup {"lost"}] /\ CallsTyped
  BY DEF LinkInv, LinkTyped, TerminalsTyped, BoardTyped
<1>3. ASSUME NEW i \in Ids
      PROVE  /\ call'[i] \in {"none", "out", "late", "dead", "accepted", "refused", "over"}
             /\ call'[i] = call[i] \/ (receipts[i].role # "none" /\ call'[i] \in {"over", "dead"})
             /\ call'[i] \in {"out", "late"} => receipts[i].role = "none" \/ receipts[i].target # n
             /\ call'[i] = "refused" => call[i] = "refused"
  <2>1. call'[i] = IF receipts[i].role = "none" \/ receipts[i].target # n THEN call[i]
                   ELSE CASE call[i] = "out" -> "dead" [] call[i] = "late" -> "over"
                          [] OTHER -> call[i]
    BY DEF ProcessEnds
  <2>2. call[i] \in {"none", "out", "late", "dead", "accepted", "refused", "over"}
    BY <1>2 DEF CallsTyped
  <2>3. CASE receipts[i].role = "none" \/ receipts[i].target # n
    BY <2>1, <2>2, <2>3
  <2>4. CASE receipts[i].role # "none" /\ receipts[i].target = n
    <3>1. call'[i] = IF call[i] = "out" THEN "dead" ELSE IF call[i] = "late" THEN "over" ELSE call[i]
      BY <2>1, <2>4
    <3> QED BY <2>2, <2>4, <3>1
  <2> QED BY <2>3, <2>4
<1>4. CallsTyped'
  <2>1. call' = [i \in Ids |-> call'[i]]
    BY DEF ProcessEnds
  <2> QED BY <1>3, <2>1 DEF CallsTyped
<1>5. pr \in Procs /\ ~pr.alive /\ pr.has = Nothing
  BY NothingTold DEF Procs
<1> HIDE DEF pr
<1>6. /\ proc' \in [Nodes -> Procs] /\ proc'[n] = pr /\ \A m \in Nodes : m # n => proc'[m] = proc[m]
  BY <1>1, <1>2, <1>5
<1>7. outcome' \in [Ids -> Working \cup {"lost"}]
      /\ \A i \in Ids : outcome'[i] = IF proc[n].has[i] = "running" THEN "lost" ELSE outcome[i]
  BY <1>1, <1>2
<1>8. ASSUME NEW i \in Ids PROVE MessageOk(i)'
  <2>1. MessageOk(i) /\ proc'[n].has[i] = "none" /\ receipts[i].target \in Nodes
    BY <1>2, <1>5, <1>6, NothingTold DEF LinkInv, MessagesOk, Receipts
  <2>2. \A m \in Nodes : proc'[m].has[i] \in {"none", proc[m].has[i]}
    BY <1>6, <2>1
  <2>3. \A m \in Nodes : Held(m, i)' => Held(m, i)
    BY <1>1, <2>2 DEF Held
  <2>4. RoleKnown(i)'
    BY <1>1, <1>3, <2>1 DEF MessageOk, RoleKnown
  <2>5. HeldByTarget(i)'
    BY <1>1, <2>1, <2>3 DEF MessageOk, HeldByTarget
  <2>6. UnderWay(i)'
    <3>1. call'[i] \in {"out", "late"} =>
             /\ call[i] \in {"out", "late"} /\ receipts[i].target # n
             /\ proc[n].has[i] # "running"
      BY <1>3, <2>1 DEF MessageOk, UnderWay, RoleKnown, Held
    <3>2. call'[i] = "refused" => call[i] = "refused" /\ proc[n].has[i] # "running"
      BY <1>3, <2>1 DEF MessageOk, UnderWay
    <3> QED BY <1>1, <1>6, <1>7, <2>1, <2>2, <2>3, <3>1, <3>2 DEF MessageOk, UnderWay
  <2>7. CASE proc[n].has[i] = "running"
    <3>1. /\ outcome'[i] = "lost" /\ outcome[i] = "none" /\ receipts[i].state \notin Ended
          /\ routed[i] <= 0 \/ routed[i] \notin Nat
          /\ \A m \in Nodes : watch[m].seen[i] \notin Ended
      BY <1>7, <2>1, <2>7 DEF MessageOk, ToldTruly, Truthful, RoutedOnceAt, Ended
    <3>2. Truthful(i)' /\ RoutedOnceAt(i)'
      <4>1. routed[i] \in Nat
        BY DEF LinkInv, LinkTyped, BoardTyped
      <4> QED BY <1>1, <2>1, <3>1, <4>1 DEF MessageOk, Truthful, RoutedOnceAt
    <3>3. \A m \in Nodes : m # n => proc[m].has[i] = "none"
      <4>1. Held(n, i)
        BY <2>7 DEF Held
      <4> QED BY <2>1, <4>1 DEF MessageOk, HeldByTarget, Held
    <3>4. \A m \in Nodes : proc'[m].has[i] = "none"
      BY <1>6, <2>1, <3>3
    <3>5. ToldTruly(i)'
      BY <1>1, <3>1, <3>4 DEF ToldTruly, Ended
    <3> QED BY <2>4, <2>5, <2>6, <3>2, <3>5 DEF MessageOk
  <2>8. CASE proc[n].has[i] # "running"
    <3>1. outcome'[i] = outcome[i]
      BY <1>7, <2>8
    <3>2. Truthful(i)' /\ RoutedOnceAt(i)'
      BY <1>1, <2>1, <2>2, <3>1 DEF MessageOk, Truthful, RoutedOnceAt
    <3>3. proc[n].has[i] \in {"none", "completed", "failed"}
      BY <1>2, <2>8 DEF Procs, Working
    <3>4. ToldTruly(i)'
      BY <1>1, <1>6, <2>1, <2>2, <3>1, <3>3 DEF MessageOk, ToldTruly, Ended
    <3> QED BY <2>4, <2>5, <2>6, <3>2, <3>4 DEF MessageOk
  <2> QED BY <2>7, <2>8
<1>9. LinkTyped'
  <2>1. \A m \in Nodes : ~proc'[m].alive => proc'[m].has = Nothing
    BY <1>5, <1>6 DEF LinkInv, LinkTyped, TerminalsTyped
  <2>2. BoardTyped'
    BY <1>1, <1>4 DEF LinkInv, LinkTyped, BoardTyped
  <2> QED BY <1>1, <1>6, <1>7, <2>1, <2>2 DEF LinkInv, LinkTyped, TerminalsTyped
<1>10. \A i \in Ids : outcome[i] = "completed" => outcome'[i] = "completed"
  BY <1>7 DEF LinkInv, MessagesOk, MessageOk, ToldTruly
<1>11. GroupOnce' /\ WaitsKnown'
  BY <1>1, <1>10, GroupStands, WaitsStand DEF LinkInv
<1> QED BY <1>8, <1>9, <1>11 DEF LinkInv, MessagesOk

----------------------------------------------------------------------------
(* Close, exit and restart.                                                *)

LEMMA ViewKeeps ==
  ASSUME LinkInv, NEW n \in Nodes, Close(n) \/ CloseGivesUp(n) \/ Discover(n)
  PROVE  LinkInv'
<1>1. UNCHANGED <<proc, receipts, call, watch, group, outcome, routed, undone>>
  BY DEF Close, CloseGivesUp, Discover, board
<1>2. node \in [Nodes -> NodeViews]
  BY DEF LinkInv, LinkTyped, TerminalsTyped
<1>3. \/ node' = [node EXCEPT ![n].state = "stopping", ![n].closing = TRUE]
      \/ node' = [node EXCEPT ![n].closing = FALSE]
      \/ node' = [node EXCEPT ![n].state = "ready", ![n].address = TRUE]
  BY DEF Close, CloseGivesUp, Discover
<1>4. node' \in [Nodes -> NodeViews]
  <2>1. CASE node' = [node EXCEPT ![n].state = "stopping", ![n].closing = TRUE]
    BY <1>2, <2>1 DEF NodeViews
  <2>2. CASE node' = [node EXCEPT ![n].closing = FALSE]
    BY <1>2, <2>2 DEF NodeViews
  <2>3. CASE node' = [node EXCEPT ![n].state = "ready", ![n].address = TRUE]
    BY <1>2, <2>3 DEF NodeViews
  <2> QED BY <1>3, <2>1, <2>2, <2>3
<1> QED BY <1>1, <1>4, NodeKeeps

\* The receipts of a terminal that is gone are settled as interrupted.
LEMMA InterruptFacts ==
  ASSUME LinkInv, NEW n \in Nodes, Interrupt(n)
  PROVE  /\ receipts' \in [Ids -> Receipts]
         /\ \A i \in Ids : \/ receipts'[i] = receipts[i]
                           \/ /\ receipts[i].target = n /\ receipts[i].state \in Unheard
                              /\ receipts'[i] = [receipts[i] EXCEPT !.state = "interrupted"]
         /\ group' \in Groups /\ group'.launches = group.launches /\ group'.left = group.left
         /\ group'.at = group.at /\ (group'.state = "running" => group.state = "running")
<1> DEFINE lost == {i \in Ids : receipts[i].target = n /\ receipts[i].state \in Unheard}
           rs == [i \in Ids |-> IF i \in lost THEN [receipts[i] EXCEPT !.state = "interrupted"]
                                ELSE receipts[i]]
           g == IF group.synthesis \in lost THEN [group EXCEPT !.state = "interrupted"] ELSE group
<1>1. /\ receipts' = rs
      /\ group' = IF Research(rs) \cap lost # {} THEN Joined(rs, g).group ELSE g
  BY DEF Interrupt
<1>2. receipts \in [Ids -> Receipts] /\ group \in Groups
  BY DEF LinkInv, LinkTyped, BoardTyped
<1>3. ASSUME NEW i \in Ids
      PROVE  /\ rs[i] \in Receipts
             /\ i \notin lost => rs[i] = receipts[i]
             /\ i \in lost => /\ receipts[i].target = n /\ receipts[i].state \in Unheard
                              /\ rs[i] = [receipts[i] EXCEPT !.state = "interrupted"]
                              /\ rs[i].state = "interrupted"
  <2>1. receipts[i] \in Receipts
    BY <1>2
  <2>2. /\ [receipts[i] EXCEPT !.state = "interrupted"] \in Receipts
        /\ [receipts[i] EXCEPT !.state = "interrupted"].state = "interrupted"
    BY <2>1 DEF Receipts, Ended
  <2> QED BY <2>1, <2>2
<1>4. rs \in [Ids -> Receipts]
  BY <1>3
<1>5. /\ g \in Groups /\ g.launches = group.launches /\ g.left = group.left /\ g.at = group.at
      /\ g.state = "running" => group.state = "running"
  BY <1>2 DEF Groups, Ended
<1> HIDE DEF rs, g
<1>6. Research(rs) \cap lost # {} => ~AllIn(rs, g)
  BY <1>3 DEF AllIn, Research
<1>7. group' = g \/ (g.state = "running" /\ group' = [g EXCEPT !.state = "failed"])
  BY <1>1, <1>5, <1>6, JoinedFacts
<1>8. /\ group' \in Groups /\ group'.launches = group.launches /\ group'.left = group.left
      /\ group'.at = group.at /\ (group'.state = "running" => group.state = "running")
  BY <1>5, <1>7 DEF Groups, Ended
<1> QED BY <1>1, <1>3, <1>4, <1>8

\* What was interrupted in a process that has ended stays true.
LEMMA InterruptedOk ==
  ASSUME LinkInv, NEW n \in Nodes, ~proc[n].alive, Interrupt(n), NEW i \in Ids,
         \A m \in Nodes : proc'[m].has[i] = proc[m].has[i] /\ (proc[m].alive => proc'[m].alive),
         \A m \in Nodes : watch'[m].seen[i] \in {"none", watch[m].seen[i]},
         \/ call'[i] = call[i]
         \/ receipts[i].role # "none" /\ call'[i] = "over"
         \/ call[i] = "out" /\ call'[i] = "late",
         UNCHANGED <<outcome, routed, undone>>
  PROVE  MessageOk(i)'
<1>1. MessageOk(i) /\ receipts[i] \in Receipts
  BY DEF LinkInv, MessagesOk, LinkTyped, BoardTyped
<1>2. call'[i] \in {"out", "late"} => call[i] \in {"out", "late"}
  OBVIOUS
<1>3. call'[i] \in {"out", "late"} => proc'[receipts[i].target].alive /\ receipts[i].target # n
  BY <1>1, <1>2 DEF MessageOk, UnderWay, Receipts
<1>4. CASE receipts'[i] = receipts[i]
  BY <1>1, <1>3, <1>4, MessageStands
<1>5. CASE /\ receipts[i].target = n /\ receipts[i].state \in Unheard
           /\ receipts'[i] = [receipts[i] EXCEPT !.state = "interrupted"]
  <2>1. /\ receipts'[i].state = "interrupted" /\ receipts'[i].role = receipts[i].role
        /\ receipts'[i].target = n /\ receipts[i].role # "none" /\ receipts[i].state \notin Ended
    BY <1>1, <1>5 DEF Receipts, MessageOk, RoleKnown, Unheard, Ended
  <2>2. \A m \in Nodes : Held(m, i) => m = n
    BY <1>1, <1>5, <2>1 DEF MessageOk, HeldByTarget
  <2>3. proc[n].has[i] = "none"
    BY NothingTold DEF LinkInv, LinkTyped, TerminalsTyped
  <2>4. \A m \in Nodes : proc'[m].has[i] = "none"
    BY <2>2, <2>3 DEF Held
  <2>5. Truthful(i)'
    BY <2>1, <2>4 DEF Truthful
  <2>6. RoutedOnceAt(i)'
    <3>1. routed[i] \in Nat
      BY DEF LinkInv, LinkTyped, BoardTyped
    <3> QED BY <1>1, <2>1, <3>1 DEF MessageOk, RoutedOnceAt, Ended
  <2>7. call'[i] \notin {"out", "late"} /\ (call'[i] = "refused" => call[i] = "refused")
    BY <1>3, <1>5
  <2> QED BY <1>1, <2>1, <2>2, <2>5, <2>6, <2>7, MessageRestated
<1> QED BY <1>4, <1>5, InterruptFacts

\* Interrupted: the roles stay, and so does the group but for its failure.
LEMMA InterruptKeeps ==
  ASSUME LinkInv, NEW n \in Nodes, Interrupt(n), UNCHANGED <<outcome, routed, undone>>,
         \A m \in Nodes : watch'[m].on \in {NoId, watch[m].on}, watch' \in [Nodes -> Watches],
         \A m \in Nodes : watch'[m].at = "route" => watch'[m].from # NoId, CallsTyped'
  PROVE  BoardTyped' /\ GroupOnce' /\ WaitsKnown'
<1>1. /\ receipts' \in [Ids -> Receipts]
      /\ \A i \in Ids : receipts'[i].role = receipts[i].role
      /\ group' \in Groups /\ group'.launches = group.launches /\ group'.left = group.left
      /\ group'.at = group.at /\ (group'.state = "running" => group.state = "running")
  <2>1. receipts \in [Ids -> Receipts]
    BY DEF LinkInv, LinkTyped, BoardTyped
  <2>2. \A i \in Ids : receipts'[i].role = receipts[i].role
    BY ZenonT(40), <2>1, InterruptFacts DEF Receipts
  <2> QED BY <2>2, InterruptFacts
<1>2. BoardTyped'
  BY <1>1 DEF LinkInv, LinkTyped, BoardTyped
<1>3. Research(receipts') \subseteq Research(receipts)
  BY <1>1 DEF Research
<1>4. GroupOnce'
  BY <1>1, <1>3, GroupStands DEF LinkInv
<1>5. WaitsKnown'
  BY <1>1, WaitsStand DEF LinkInv
<1> QED BY <1>2, <1>4, <1>5

LEMMA WaitedKeeps ==
  ASSUME LinkInv, NEW n \in Nodes, Waited(n)
  PROVE  LinkInv'
<1>1. /\ ~proc[n].alive /\ Interrupt(n)
      /\ node' = [node EXCEPT ![n].state = "exited", ![n].address = FALSE, ![n].waited = TRUE]
      /\ UNCHANGED <<proc, call, watch, outcome, routed, undone>>
  BY DEF Waited
<1>2. MessagesOk'
  BY <1>1, InterruptedOk DEF MessagesOk
<1>3. BoardTyped' /\ GroupOnce' /\ WaitsKnown'
  BY <1>1, InterruptKeeps DEF LinkInv, LinkTyped, BoardTyped, CallsTyped
<1>4. TerminalsTyped'
  <2>1. node \in [Nodes -> NodeViews]
    BY DEF LinkInv, LinkTyped, TerminalsTyped
  <2>2. node' \in [Nodes -> NodeViews]
    BY ZenonT(40), <1>1, <2>1 DEF NodeViews
  <2> QED BY <1>1, <2>2 DEF LinkInv, LinkTyped, TerminalsTyped
<1> QED BY <1>2, <1>3, <1>4 DEF LinkInv, LinkTyped

\* A cancelled watch hears of nothing; its request may still arrive.
LEMMA CancelFacts ==
  ASSUME LinkInv, NEW n \in Nodes, CancelWatch(n)
  PROVE  /\ watch' \in [Nodes -> Watches] /\ CallsTyped'
         /\ \A m \in Nodes : /\ watch'[m].on \in {NoId, watch[m].on}
                             /\ watch'[m].at = "route" => watch'[m].from # NoId
         /\ \A i \in Ids :
              /\ \A m \in Nodes : watch'[m].seen[i] \in {"none", watch[m].seen[i]}
              /\ \/ call'[i] = call[i]
                 \/ receipts[i].role # "none" /\ call'[i] = "over"
                 \/ call[i] = "out" /\ call'[i] = "late"
<1>1. /\ watch' = [watch EXCEPT ![n] = IdleWatch]
      /\ call' = [i \in Ids |-> IF watch[n].on # i THEN call[i]
                                ELSE IF call[i] = "out" THEN "late" ELSE "over"]
  BY DEF CancelWatch
<1>2. /\ watch \in [Nodes -> Watches] /\ CallsTyped
      /\ \A m \in Nodes : watch[m].at = "route" => watch[m].from # NoId
  BY DEF LinkInv, LinkTyped, BoardTyped
<1>3. /\ IdleWatch \in Watches /\ IdleWatch.on = NoId /\ IdleWatch.at = "idle"
      /\ \A i \in Ids : IdleWatch.seen[i] = "none"
  BY NothingTold DEF IdleWatch, Watches
<1>4. watch' \in [Nodes -> Watches] /\ watch'[n] = IdleWatch /\ \A m \in Nodes : m # n => watch'[m] = watch[m]
  BY <1>1, <1>2, <1>3
<1>5. CallsTyped'
  BY <1>1, <1>2 DEF CallsTyped
<1>6. ASSUME NEW i \in Ids
      PROVE  \/ call'[i] = call[i]
             \/ receipts[i].role # "none" /\ call'[i] = "over"
             \/ call[i] = "out" /\ call'[i] = "late"
  <2>1. watch[n].on = i => receipts[i].role # "none"
    BY IdsAreNat DEF LinkInv, WaitsKnown
  <2> QED BY <1>1, <2>1
<1> QED BY <1>2, <1>3, <1>4, <1>5, <1>6

LEMMA CloseDoneKeeps ==
  ASSUME LinkInv, NEW n \in Nodes, CloseDone(n)
  PROVE  LinkInv'
<1>1. /\ ~proc[n].alive /\ Interrupt(n) /\ CancelWatch(n)
      /\ node' = [node EXCEPT ![n] = [state |-> "closed", address |-> FALSE, closing |-> FALSE,
                                       waited |-> TRUE]]
      /\ UNCHANGED <<proc, outcome, routed, undone>>
  BY DEF CloseDone, Gone
<1>2. MessagesOk'
  BY <1>1, CancelFacts, InterruptedOk DEF MessagesOk
<1>3. BoardTyped' /\ GroupOnce' /\ WaitsKnown'
  BY <1>1, CancelFacts, InterruptKeeps
<1>4. TerminalsTyped'
  <2>1. node \in [Nodes -> NodeViews]
    BY DEF LinkInv, LinkTyped, TerminalsTyped
  <2>2. node' \in [Nodes -> NodeViews]
    BY <1>1, <2>1 DEF NodeViews
  <2> QED BY <1>1, <2>2 DEF LinkInv, LinkTyped, TerminalsTyped
<1> QED BY <1>2, <1>3, <1>4 DEF LinkInv, LinkTyped

LEMMA RestartKeeps ==
  ASSUME LinkInv, NEW n \in Nodes, Restart(n)
  PROVE  LinkInv'
<1>1. /\ ~proc[n].alive /\ proc' = [proc EXCEPT ![n].alive = TRUE] /\ CancelWatch(n)
      /\ node' = [node EXCEPT ![n] = Started]
      /\ UNCHANGED <<receipts, group, outcome, routed, undone>>
  BY DEF Restart
<1>2. /\ proc \in [Nodes -> Procs] /\ node \in [Nodes -> NodeViews] /\ receipts \in [Ids -> Receipts]
      /\ \A m \in Nodes : ~proc[m].alive => proc[m].has = Nothing
  BY DEF LinkInv, LinkTyped, TerminalsTyped, BoardTyped
<1>3. /\ proc' \in [Nodes -> Procs] /\ proc'[n].alive
      /\ \A m \in Nodes : proc'[m].has = proc[m].has /\ (m # n => proc'[m] = proc[m])
  BY <1>1, <1>2 DEF Procs
<1>4. node' \in [Nodes -> NodeViews]
  BY <1>1, <1>2 DEF NodeViews, Started
<1>5. LinkTyped'
  <2>1. TerminalsTyped'
    BY <1>1, <1>2, <1>3, <1>4 DEF LinkInv, LinkTyped, TerminalsTyped
  <2>2. BoardTyped'
    BY <1>1, CancelFacts DEF LinkInv, LinkTyped, BoardTyped
  <2> QED BY <2>1, <2>2 DEF LinkTyped
<1>6. GroupOnce' /\ WaitsKnown'
  BY <1>1, CancelFacts, GroupStands, WaitsStand DEF LinkInv
<1>7. ASSUME NEW i \in Ids PROVE MessageOk(i)'
  <2>1. MessageOk(i) /\ receipts[i].target \in Nodes
    BY <1>2 DEF LinkInv, MessagesOk, Receipts
  <2>2. call'[i] \in {"out", "late"} => proc'[receipts[i].target].alive
    BY <1>1, <1>3, <2>1, CancelFacts DEF MessageOk, UnderWay
  <2> QED BY <1>1, <1>3, <2>1, <2>2, CancelFacts, MessageStands
<1> QED BY <1>5, <1>6, <1>7 DEF LinkInv, MessagesOk

----------------------------------------------------------------------------
(* The answers to the board's requests.                                    *)

\* The messages that a step of the board does not touch.
LEMMA OthersStand ==
  ASSUME LinkInv, NEW k \in Ids, receipts'[k] = receipts[k], call'[k] = call[k],
         UNCHANGED <<proc, outcome>>, routed'[k] = routed[k], undone \subseteq undone',
         \A n \in Nodes : watch'[n].seen[k] \in {"none", watch[n].seen[k]}
  PROVE  MessageOk(k)'
<1>1. MessageOk(k)
  BY DEF LinkInv, MessagesOk
<1>2. call'[k] \in {"out", "late"} => proc'[receipts[k].target].alive
  BY <1>1 DEF MessageOk, UnderWay
<1> QED BY <1>1, <1>2, MessageStands

LEMMA ResumeFacts ==
  ASSUME LinkInv, NEW i \in Ids, NEW rs, NEW g \in Groups, Resume(i, rs, g)
  PROVE  /\ receipts' = rs /\ UNCHANGED <<proc, node, outcome, routed>>
         /\ watch' \in [Nodes -> Watches]
         /\ \A n \in Nodes : /\ watch'[n].seen = watch[n].seen
                             /\ watch'[n].on \in {NoId, watch[n].on}
                             /\ watch'[n].at = "route" => watch'[n].from # NoId
         /\ group' \in Groups /\ group'.launches = g.launches /\ group'.left = g.left
         /\ group'.state = "running" => g.state = "running"
         /\ group'.at = "none" => g.at = "none"
<1> DEFINE launched == IF i # g.synthesis THEN g
                       ELSE [g EXCEPT !.state = IF rs[i].state \in Ended \cup {"uncertain"}
                                                THEN rs[i].state ELSE "submitted"]
           ended == IF i = g.synthesis THEN "done" ELSE "next"
           then(n) == IF watch[n].from = NoId THEN "settle" ELSE "route"
           back(n) == [watch[n] EXCEPT !.on = NoId, !.at = then(n)]
<1>1. /\ receipts' = rs /\ UNCHANGED <<proc, node, outcome, routed>>
      /\ watch' = [n \in Nodes |-> IF watch[n].on # i THEN watch[n] ELSE back(n)]
      /\ group' = IF g.on # i THEN launched ELSE [launched EXCEPT !.on = NoId, !.at = ended]
  BY DEF Resume
<1>2. /\ watch \in [Nodes -> Watches]
      /\ \A n \in Nodes : watch[n].at = "route" => watch[n].from # NoId
  BY DEF LinkInv, LinkTyped, BoardTyped
<1>3. ASSUME NEW n \in Nodes
      PROVE  /\ back(n) \in Watches /\ back(n).seen = watch[n].seen /\ back(n).on = NoId
             /\ back(n).at = "route" => back(n).from # NoId
  <2>1. watch[n] \in Watches /\ then(n) \in {"settle", "route"}
        /\ (then(n) = "route" => watch[n].from # NoId)
    BY <1>2
  <2> HIDE DEF then
  <2> QED BY <2>1 DEF Watches
<1>4. /\ launched \in Groups /\ launched.launches = g.launches /\ launched.left = g.left
      /\ launched.state = "running" => g.state = "running"
      /\ launched.at = g.at
  <2> DEFINE s == IF rs[i].state \in Ended \cup {"uncertain"} THEN rs[i].state ELSE "submitted"
  <2>1. s \in {"submitted", "uncertain"} \cup Ended /\ s # "running"
    BY DEF Ended
  <2>2. launched = g \/ launched = [g EXCEPT !.state = s]
    OBVIOUS
  <2> HIDE DEF s, launched
  <2> QED BY <2>1, <2>2 DEF Groups
<1>5. ended \in {"done", "next"}
  OBVIOUS
<1> HIDE DEF launched, ended, back
<1>6. /\ group' \in Groups /\ group'.launches = g.launches /\ group'.left = g.left
      /\ group'.state = "running" => g.state = "running"
      /\ group'.at = "none" => g.at = "none"
  <2>1. CASE group' = launched
    BY <1>4, <2>1
  <2>2. CASE group' = [launched EXCEPT !.on = NoId, !.at = ended]
    BY <1>4, <1>5, <2>2 DEF Groups
  <2> QED BY <1>1, <2>1, <2>2
<1> QED BY <1>1, <1>2, <1>3, <1>6

LEMMA AnswerKeeps ==
  ASSUME LinkInv, NEW i \in Ids, NEW rs \in [Ids -> Receipts], NEW g \in Groups, Resume(i, rs, g),
         \/ g = group
         \/ group.state = "running" /\ g = [group EXCEPT !.state = "failed"],
         rs[i].role = receipts[i].role, CallsTyped',
         \A k \in Ids : k # i => rs[k] = receipts[k] /\ call'[k] = call[k],
         undone \subseteq undone', undone' \subseteq Ids, MessageOk(i)'
  PROVE  LinkInv'
<1>1. group \in Groups
  BY DEF LinkInv, LinkTyped, BoardTyped
<1>2. /\ g.launches = group.launches /\ g.left = group.left /\ g.at = group.at
      /\ g.state = "running" => group.state = "running"
  BY <1>1 DEF Groups
<1>3. BoardTyped'
  BY ResumeFacts DEF LinkInv, LinkTyped, BoardTyped
<1>4. TerminalsTyped'
  BY ResumeFacts DEF LinkInv, LinkTyped, TerminalsTyped
<1>5. \A k \in Ids : receipts'[k].role = receipts[k].role
  BY ResumeFacts
<1>6. GroupOnce'
  <2>1. Research(receipts') \subseteq Research(receipts)
    BY <1>5 DEF Research
  <2>2. /\ group'.launches = group.launches /\ group'.left \subseteq group.left
        /\ group'.state = "running" => group.state = "running"
        /\ group'.at = "none" => group.at = "none"
        /\ outcome' = outcome
    BY <1>2, ResumeFacts
  <2> QED BY <2>1, <2>2, GroupStands DEF LinkInv
<1>7. WaitsKnown'
  BY <1>5, ResumeFacts, WaitsStand DEF LinkInv
<1>8. MessagesOk'
  <2> SUFFICES ASSUME NEW k \in Ids PROVE MessageOk(k)'
    BY DEF MessagesOk
  <2>1. CASE k # i
    <3>1. /\ receipts'[k] = receipts[k] /\ call'[k] = call[k] /\ UNCHANGED <<proc, outcome>>
          /\ routed'[k] = routed[k]
          /\ \A n \in Nodes : watch'[n].seen[k] \in {"none", watch[n].seen[k]}
      BY <2>1, ResumeFacts
    <3> QED BY <3>1, OthersStand
  <2> QED BY <2>1
<1> QED BY <1>3, <1>4, <1>6, <1>7, <1>8 DEF LinkInv, LinkTyped

LEMMA StatedFacts ==
  ASSUME LinkInv, NEW i \in Ids, NEW s \in Unheard \cup Ended
  PROVE  /\ [receipts EXCEPT ![i].state = s] \in [Ids -> Receipts]
         /\ [receipts EXCEPT ![i].state = s][i].state = s
         /\ [receipts EXCEPT ![i].state = s][i].role = receipts[i].role
         /\ [receipts EXCEPT ![i].state = s][i].target = receipts[i].target
         /\ \A k \in Ids : k # i => [receipts EXCEPT ![i].state = s][k] = receipts[k]
<1>1. receipts \in [Ids -> Receipts]
  BY DEF LinkInv, LinkTyped, BoardTyped
<1> QED BY <1>1 DEF Receipts

LEMMA AcknowledgedKeeps ==
  ASSUME LinkInv, NEW i \in Ids, Acknowledged(i)
  PROVE  LinkInv'
<1> DEFINE rs == IF receipts[i].state \in Ended THEN receipts
                 ELSE [receipts EXCEPT ![i].state = "running"]
<1>1. /\ call[i] = "accepted" /\ call' = [call EXCEPT ![i] = "over"]
      /\ Resume(i, rs, group) /\ UNCHANGED undone
  BY DEF Acknowledged
<1>2. /\ MessageOk(i) /\ receipts \in [Ids -> Receipts] /\ group \in Groups /\ CallsTyped
      /\ routed[i] \in Nat /\ undone \subseteq Ids
  BY DEF LinkInv, MessagesOk, LinkTyped, BoardTyped
<1>3. /\ rs \in [Ids -> Receipts] /\ rs[i].role = receipts[i].role /\ rs[i].target = receipts[i].target
      /\ rs[i].state = IF receipts[i].state \in Ended THEN receipts[i].state ELSE "running"
      /\ \A k \in Ids : k # i => rs[k] = receipts[k]
  <2>1. "running" \in Unheard \cup Ended
    BY DEF Unheard
  <2> QED BY <1>2, <2>1, StatedFacts
<1> HIDE DEF rs
<1>4. /\ call'[i] = "over" /\ CallsTyped' /\ \A k \in Ids : k # i => call'[k] = call[k]
  BY <1>1, <1>2 DEF CallsTyped
<1>5. receipts' = rs /\ UNCHANGED <<proc, outcome, routed>> /\ \A n \in Nodes : watch'[n].seen = watch[n].seen
  BY <1>1, <1>2, ResumeFacts
<1>6. receipts[i].role # "none" /\ receipts[i].state # "none"
  BY <1>1, <1>2 DEF MessageOk, RoleKnown
<1>7. MessageOk(i)'
  <2>1. \A n \in Nodes : Held(n, i) => receipts'[i].target = n
    BY <1>2, <1>3, <1>5, <1>6 DEF MessageOk, HeldByTarget
  <2>2. Truthful(i)'
    BY <1>2, <1>3, <1>5 DEF MessageOk, Truthful, Ended
  <2>3. RoutedOnceAt(i)'
    BY <1>1, <1>2, <1>3, <1>5 DEF MessageOk, RoutedOnceAt, Ended
  <2>4. receipts'[i].role # "none" /\ receipts'[i].state # "none"
    BY <1>3, <1>5, <1>6
  <2> QED BY <1>2, <1>4, <1>5, <2>1, <2>2, <2>3, <2>4, MessageRestated
<1> QED BY <1>1, <1>2, <1>3, <1>4, <1>7, AnswerKeeps

LEMMA RefusedKeeps ==
  ASSUME LinkInv, NEW i \in Ids, Refused(i)
  PROVE  LinkInv'
<1> DEFINE rs == [receipts EXCEPT ![i].state = "failed"]
           g  == IF rs[i].role = "research" THEN Joined(rs, group).group ELSE group
<1>1. /\ call[i] = "refused" /\ call' = [call EXCEPT ![i] = "over"]
      /\ Resume(i, rs, g) /\ UNCHANGED undone
  BY DEF Refused
<1>2. /\ MessageOk(i) /\ receipts \in [Ids -> Receipts] /\ group \in Groups /\ CallsTyped
      /\ routed[i] \in Nat /\ undone \subseteq Ids
  BY DEF LinkInv, MessagesOk, LinkTyped, BoardTyped
<1>3. /\ rs \in [Ids -> Receipts] /\ rs[i].role = receipts[i].role /\ rs[i].target = receipts[i].target
      /\ rs[i].state = "failed" /\ \A k \in Ids : k # i => rs[k] = receipts[k]
  <2>1. "failed" \in Unheard \cup Ended
    BY DEF Ended
  <2> QED BY <2>1, StatedFacts
<1> HIDE DEF rs
<1>4. /\ g \in Groups
      /\ \/ g = group
         \/ group.state = "running" /\ g = [group EXCEPT !.state = "failed"]
  <2>1. rs[i].role = "research" => ~AllIn(rs, group)
    BY <1>3 DEF AllIn, Research
  <2> QED BY <1>2, <2>1, JoinedFacts
<1> HIDE DEF g
<1>5. /\ call'[i] = "over" /\ CallsTyped' /\ \A k \in Ids : k # i => call'[k] = call[k]
  BY <1>1, <1>2 DEF CallsTyped
<1>6. receipts' = rs /\ UNCHANGED <<proc, outcome, routed>> /\ \A n \in Nodes : watch'[n].seen = watch[n].seen
  BY <1>1, <1>4, ResumeFacts
<1>7. /\ receipts[i].role # "none" /\ outcome[i] = "none" /\ routed[i] = 0
      /\ \A n \in Nodes : proc[n].has[i] = "none"
  BY <1>1, <1>2 DEF MessageOk, RoleKnown, UnderWay, RoutedOnceAt
<1>8. MessageOk(i)'
  <2>1. \A n \in Nodes : Held(n, i) => receipts'[i].target = n
    BY <1>2, <1>3, <1>6, <1>7 DEF MessageOk, HeldByTarget
  <2>2. Truthful(i)'
    BY <1>3, <1>6, <1>7 DEF Truthful
  <2>3. RoutedOnceAt(i)'
    BY <1>6, <1>7 DEF RoutedOnceAt
  <2>4. receipts'[i].role # "none" /\ receipts'[i].state # "none"
    BY <1>3, <1>6, <1>7
  <2> QED BY <1>2, <1>5, <1>6, <2>1, <2>2, <2>3, <2>4, MessageRestated
<1> QED BY <1>1, <1>2, <1>3, <1>4, <1>5, <1>8, AnswerKeeps

LEMMA UnansweredKeeps ==
  ASSUME LinkInv, NEW i \in Ids, Unanswered(i)
  PROVE  LinkInv'
<1> DEFINE rs == [receipts EXCEPT ![i].state = "uncertain"]
<1>1. /\ Resume(i, rs, group)
      /\ undone' = IF receipts[i].state \in Ended THEN undone \cup {i} ELSE undone
  BY DEF Unanswered
<1>2. /\ MessageOk(i) /\ receipts \in [Ids -> Receipts] /\ group \in Groups /\ CallsTyped
      /\ routed[i] \in Nat /\ undone \subseteq Ids
  BY DEF LinkInv, MessagesOk, LinkTyped, BoardTyped
<1>3. PICK c \in {"over", "late"} :
        call[i] \in {"dead", "out", "accepted", "refused"} /\ (c = "late" => call[i] = "out")
        /\ call' = [call EXCEPT ![i] = c]
  BY DEF Unanswered
<1>4. /\ rs \in [Ids -> Receipts] /\ rs[i].role = receipts[i].role /\ rs[i].target = receipts[i].target
      /\ rs[i].state = "uncertain" /\ \A k \in Ids : k # i => rs[k] = receipts[k]
  <2>1. "uncertain" \in Unheard \cup Ended
    BY DEF Unheard
  <2> QED BY <2>1, StatedFacts
<1> HIDE DEF rs
<1>5. /\ call'[i] = c /\ CallsTyped' /\ \A k \in Ids : k # i => call'[k] = call[k]
  BY <1>2, <1>3 DEF CallsTyped
<1>6. receipts' = rs /\ UNCHANGED <<proc, outcome, routed>> /\ \A n \in Nodes : watch'[n].seen = watch[n].seen
  BY <1>1, <1>2, ResumeFacts
<1>7. receipts[i].role # "none"
  BY <1>2, <1>3 DEF MessageOk, RoleKnown
<1>8. MessageOk(i)'
  <2>1. \A n \in Nodes : Held(n, i) => receipts'[i].target = n
    BY <1>2, <1>4, <1>6, <1>7 DEF MessageOk, HeldByTarget
  <2>2. Truthful(i)'
    BY <1>4, <1>6 DEF Truthful, Ended
  <2>3. RoutedOnceAt(i)'
    BY <1>1, <1>2, <1>6 DEF MessageOk, RoutedOnceAt, Ended
  <2>4. receipts'[i].role # "none" /\ receipts'[i].state # "none"
    BY <1>4, <1>6, <1>7
  <2>5. call'[i] \in {"out", "late"} =>
          /\ call[i] \in {"out", "late"} /\ receipts'[i].target = receipts[i].target
          /\ proc'[receipts[i].target].alive /\ receipts'[i].state \notin Ended
    BY <1>2, <1>3, <1>4, <1>5, <1>6 DEF MessageOk, UnderWay, Ended
  <2>6. call'[i] # "refused"
    BY <1>3, <1>5
  <2> QED BY <1>2, <1>6, <2>1, <2>2, <2>3, <2>4, <2>5, <2>6, MessageRestated
<1>9. undone \subseteq undone' /\ undone' \subseteq Ids
  BY <1>1, <1>2
<1> QED BY <1>1, <1>2, <1>4, <1>5, <1>8, <1>9, AnswerKeeps

----------------------------------------------------------------------------
(* The group.                                                              *)

\* What becomes of the message that is sent.
LEMMA SentOk ==
  ASSUME LinkInv, Fresh # {}, NEW k \in Ids, k = NextId, NEW rs \in [Ids -> Receipts], NEW n \in Nodes,
         NEW visited \in SUBSET Nodes, NEW role \in {"research", "synthesis", "forward"},
         receipts' = Sending(rs, n, visited, role), call' = Carried(n),
         UNCHANGED <<proc, outcome, undone>>, routed'[k] = routed[k],
         \A m \in Nodes : watch'[m].seen[k] \in {"none", watch[m].seen[k]}
  PROVE  /\ MessageOk(k)' /\ receipts' \in [Ids -> Receipts] /\ CallsTyped'
         /\ receipts'[k].role = role
         /\ \A i \in Ids : i # k => receipts'[i] = rs[i] /\ call'[i] = call[i]
<1>1. /\ receipts[k].role = "none" /\ outcome[k] = "none"
      /\ \A m \in Nodes : ~Held(m, k)
  BY FreshFacts
<1>2. /\ receipts' \in [Ids -> Receipts] /\ CallsTyped'
      /\ \A i \in Ids : i # k => receipts'[i] = rs[i] /\ call'[i] = call[i]
      /\ receipts'[k].state = "sending" /\ receipts'[k].target = n /\ receipts'[k].role = role
      /\ call'[k] = IF proc[n].alive THEN "out" ELSE "dead"
  BY SendFacts DEF CallsTyped, LinkInv
<1>3. MessageOk(k)
  BY DEF LinkInv, MessagesOk
<1>4. MessageOk(k)'
  BY <1>1, <1>2, <1>3, MessageSent
<1> QED BY <1>2, <1>4

LEMMA LaunchedFacts ==
  ASSUME NEW g \in Groups, NEW k \in Ids
  PROVE  /\ Launched(g, k) \in Groups /\ Launched(g, k).launches = g.launches + 1
         /\ Launched(g, k).left = g.left /\ Launched(g, k).state = "joining"
         /\ Launched(g, k).at = g.at
<1> DEFINE m  == g.launches + 1
           lg == Launched(g, k)
<1>1. m \in Nat
  BY DEF Groups
<1>2. lg = [g EXCEPT !.state = "joining", !.synthesis = k, !.launches = m]
  BY DEF Launched
<1>3. m = g.launches + 1
  OBVIOUS
<1> HIDE DEF m, lg
<1>4. lg \in Groups /\ lg.launches = m /\ lg.left = g.left /\ lg.state = "joining" /\ lg.at = g.at
  BY <1>1, <1>2 DEF Groups
<1> QED BY <1>3, <1>4 DEF lg

LEMMA LaunchedOnce ==
  ASSUME LinkTyped, GroupOnce, NextId \in Ids, NEW rs \in [Ids -> Receipts], NEW g \in Groups,
         g.launches = group.launches, group.state = "running", AllIn(rs, g),
         \A k \in Research(rs) : rs[k].state = "completed" => outcome[k] = "completed",
         receipts' = Sending(rs, Synthesizer, {}, "synthesis"), group'.state = "joining",
         group'.launches = g.launches + 1, group'.left = g.left, group'.at # "none",
         outcome' = outcome
  PROVE  GroupOnce'
<1>1. group.launches = 0
  <2>1. group.launches \in Nat
    BY DEF LinkTyped, BoardTyped, Groups
  <2> QED BY <2>1 DEF GroupOnce
<1>2. Synthesizer \in Nodes
  BY BoardAssumption
<1>3. Research(receipts') \subseteq Research(rs)
  BY <1>2, SendFacts DEF Research
<1>4. \A k \in Research(receipts') : outcome'[k] = "completed"
  BY <1>3 DEF AllIn
<1> QED BY <1>1, <1>4 DEF GroupOnce, AllIn

LEMMA StartGroupKeeps ==
  ASSUME LinkInv, StartGroup
  PROVE  LinkInv'
<1>1. /\ group.at = "none" /\ group' = [group EXCEPT !.state = "running", !.at = "next"]
      /\ UNCHANGED <<proc, node, receipts, call, watch, outcome, routed, undone>>
  BY DEF StartGroup
<1>2. /\ group' \in Groups /\ group'.state = "running" /\ group'.at = "next"
      /\ group'.launches = group.launches
  BY <1>1 DEF LinkInv, LinkTyped, BoardTyped, Groups
<1>3. LinkTyped'
  BY <1>1, <1>2 DEF LinkInv, LinkTyped, BoardTyped, TerminalsTyped, CallsTyped
<1>4. GroupOnce'
  BY <1>1, <1>2 DEF LinkInv, GroupOnce
<1>5. WaitsKnown'
  BY <1>1 DEF LinkInv, WaitsKnown
<1>6. MessagesOk'
  BY <1>1, OthersStand DEF MessagesOk
<1> QED BY <1>3, <1>4, <1>5, <1>6 DEF LinkInv

\* A step of the board that sends one message, and restates none.
LEMMA SendingKeeps ==
  ASSUME LinkInv, Fresh # {}, NEW n \in Nodes, NEW visited \in SUBSET Nodes,
         NEW role \in {"research", "synthesis", "forward"},
         receipts' = Sending(receipts, n, visited, role), call' = Carried(n),
         UNCHANGED <<proc, node, outcome, routed, undone>>, watch' \in [Nodes -> Watches],
         \A m \in Nodes : /\ watch'[m].seen = watch[m].seen
                          /\ watch'[m].on \in {NoId, watch[m].on, NextId}
                          /\ watch'[m].at = "route" => watch'[m].from # NoId,
         group' \in Groups, GroupOnce'
  PROVE  LinkInv'
<1> PICK k \in Ids : k = NextId
  BY FreshFacts
<1>1. /\ MessageOk(k)' /\ receipts' \in [Ids -> Receipts] /\ CallsTyped'
      /\ receipts'[k].role = role
      /\ \A i \in Ids : i # k => receipts'[i] = receipts[i] /\ call'[i] = call[i]
  <2>1. receipts \in [Ids -> Receipts]
    BY DEF LinkInv, LinkTyped, BoardTyped
  <2> QED BY <2>1, SentOk
<1>2. MessagesOk'
  BY <1>1, OthersStand DEF MessagesOk
<1>3. LinkTyped'
  BY <1>1 DEF LinkInv, LinkTyped, BoardTyped, TerminalsTyped
<1>4. WaitsKnown'
  <2> SUFFICES ASSUME NEW m \in Nodes, watch'[m].on # NoId
               PROVE  receipts'[watch'[m].on].role # "none"
    BY DEF WaitsKnown
  <2>1. watch[m].on \in Ids \cup {NoId}
    BY DEF LinkInv, LinkTyped, BoardTyped, Watches
  <2>2. CASE watch'[m].on = k
    BY <1>1, <2>2
  <2>3. CASE watch'[m].on # k
    BY <1>1, <2>1, <2>3 DEF LinkInv, WaitsKnown
  <2> QED BY <2>2, <2>3
<1> QED BY <1>2, <1>3, <1>4 DEF LinkInv

LEMMA GroupNextKeeps ==
  ASSUME LinkInv, GroupNext
  PROVE  LinkInv'
<1>1. /\ group.at = "next" /\ UNCHANGED <<proc, node, watch, outcome, routed, undone>>
  BY DEF GroupNext
<1>2. /\ group \in Groups /\ receipts \in [Ids -> Receipts] /\ watch \in [Nodes -> Watches]
      /\ \A m \in Nodes : watch[m].at = "route" => watch[m].from # NoId
  BY DEF LinkInv, LinkTyped, BoardTyped
<1>3. \A k \in Research(receipts) : receipts[k].state = "completed" => outcome[k] = "completed"
  BY DEF Research, LinkInv, MessagesOk, MessageOk, Truthful, Ended
<1>4. CASE \E n \in group.left : /\ CanSend(n, {}) /\ receipts' = Sending(receipts, n, {}, "research")
                                 /\ call' = Carried(n)
                                 /\ group' = [group EXCEPT !.left = @ \ {n}, !.at = "await", !.on = NextId]
  <2> PICK n \in group.left : /\ CanSend(n, {}) /\ receipts' = Sending(receipts, n, {}, "research")
                              /\ call' = Carried(n)
                              /\ group' = [group EXCEPT !.left = @ \ {n}, !.at = "await", !.on = NextId]
    BY <1>4
  <2>1. Fresh # {} /\ n \in Nodes /\ NextId \in Ids
    BY <1>2, BoardAssumption, FreshFacts DEF CanSend, Groups
  <2>2. /\ group' \in Groups /\ group'.launches = group.launches /\ group'.at = "await"
        /\ group'.state = group.state
    BY <1>2, <2>1 DEF Groups
  <2>3. GroupOnce'
    BY <2>2 DEF LinkInv, GroupOnce
  <2> QED BY <1>1, <1>2, <2>1, <2>2, <2>3, SendingKeeps
<1>5. CASE group' = [group EXCEPT !.state = "failed", !.at = "done"] /\ UNCHANGED <<receipts, call>>
  <2>1. /\ group' \in Groups /\ group'.launches = group.launches /\ group'.at = "done"
        /\ group'.state = "failed" /\ group'.left = group.left
    BY <1>2, <1>5 DEF Groups, Ended
  <2>2. LinkTyped'
    BY <1>1, <1>5, <2>1 DEF LinkInv, LinkTyped, BoardTyped, TerminalsTyped, CallsTyped
  <2>3. GroupOnce' /\ WaitsKnown'
    BY <1>1, <1>5, <2>1, GroupStands DEF LinkInv, WaitsKnown
  <2>4. MessagesOk'
    BY <1>1, <1>5, OthersStand DEF MessagesOk
  <2> QED BY <2>2, <2>3, <2>4 DEF LinkInv
<1>6. CASE LET j == Joined(receipts, group)
           IN  /\ receipts' = j.receipts /\ call' = j.call
               /\ group' = [j.group EXCEPT !.on = j.on, !.at = IF j.on = NoId THEN "done" ELSE "await"]
  <2> PICK j : j = Joined(receipts, group)
    OBVIOUS
  <2> DEFINE at == IF j.on = NoId THEN "done" ELSE "await"
  <2>1. /\ receipts' = j.receipts /\ call' = j.call
        /\ group' = [j.group EXCEPT !.on = j.on, !.at = at]
    BY <1>6
  <2>2. at \in {"done", "await"}
    OBVIOUS
  <2> HIDE DEF at
  <2>3. CASE /\ j.receipts = receipts /\ j.call = call /\ j.on = NoId
             /\ j.group \in Groups
             /\ \/ j.group = group
                \/ group.state = "running" /\ j.group = [group EXCEPT !.state = "failed"]
    <3>1. /\ group' \in Groups /\ group'.launches = group.launches /\ group'.left = group.left
          /\ group'.at # "none" /\ (group'.state = "running" => group.state = "running")
      BY <1>2, <2>1, <2>2, <2>3 DEF Groups
    <3>2. LinkTyped'
      BY <1>1, <2>1, <2>3, <3>1 DEF LinkInv, LinkTyped, BoardTyped, TerminalsTyped, CallsTyped
    <3>3. GroupOnce' /\ WaitsKnown'
      BY <1>1, <2>1, <2>3, <3>1, GroupStands DEF LinkInv, WaitsKnown
    <3>4. MessagesOk'
      BY <1>1, <2>1, <2>3, OthersStand DEF MessagesOk
    <3> QED BY <3>2, <3>3, <3>4 DEF LinkInv
  <2>4. CASE /\ group.state = "running" /\ AllIn(receipts, group) /\ CanSend(Synthesizer, {})
             /\ j.receipts = Sending(receipts, Synthesizer, {}, "synthesis")
             /\ j.call = Carried(Synthesizer) /\ j.on = NextId
             /\ j.group = Launched(group, NextId)
    <3>1. Fresh # {} /\ NextId \in Ids /\ Synthesizer \in Nodes
      BY <2>4, BoardAssumption, FreshFacts DEF CanSend
    <3>2. /\ group' \in Groups /\ group'.launches = group.launches + 1 /\ group'.left = group.left
          /\ group'.at # "none" /\ group'.state = "joining"
      <4> PICK k \in Ids : k = NextId
        BY <3>1
      <4>1. /\ j.group \in Groups /\ j.group.launches = group.launches + 1
            /\ j.group.left = group.left /\ j.group.state = "joining"
        BY <1>2, <2>4, LaunchedFacts
      <4>2. group' = [j.group EXCEPT !.on = k, !.at = at]
        BY <2>1, <2>4
      <4> QED BY <2>2, <4>1, <4>2 DEF Groups
    <3>3. GroupOnce'
      BY <1>1, <1>2, <1>3, <2>1, <2>4, <3>1, <3>2, LaunchedOnce DEF LinkInv
    <3>4. receipts' = Sending(receipts, Synthesizer, {}, "synthesis") /\ call' = Carried(Synthesizer)
      BY <2>1, <2>4
    <3>5. /\ UNCHANGED <<proc, node, outcome, routed, undone>> /\ watch' \in [Nodes -> Watches]
          /\ \A m \in Nodes : /\ watch'[m].seen = watch[m].seen
                              /\ watch'[m].on \in {NoId, watch[m].on, NextId}
                              /\ watch'[m].at = "route" => watch'[m].from # NoId
      BY <1>1, <1>2
    <3>6. {} \in SUBSET Nodes /\ "synthesis" \in {"research", "synthesis", "forward"}
      OBVIOUS
    <3>7. Fresh # {} /\ Synthesizer \in Nodes /\ group' \in Groups
      BY <3>1, <3>2
    <3> QED BY <3>3, <3>4, <3>5, <3>6, <3>7, SendingKeeps
  <2> QED BY <1>2, <2>3, <2>4, JoinedFacts
<1> QED BY <1>4, <1>5, <1>6 DEF GroupNext

----------------------------------------------------------------------------
(* The watch.                                                              *)

\* A step of the watch alone: what it saw is in the terminal still.
LEMMA WatchKeeps ==
  ASSUME LinkInv, UNCHANGED <<proc, node, receipts, call, group, outcome, routed, undone>>,
         watch' \in [Nodes -> Watches],
         \A n \in Nodes : /\ watch'[n].on \in {NoId, watch[n].on}
                          /\ watch'[n].at = "route" => watch'[n].from # NoId
                          /\ \A i \in Ids : watch'[n].seen[i] \in {"none", watch[n].seen[i], proc[n].has[i]}
  PROVE  LinkInv'
<1>1. LinkTyped'
  BY DEF LinkInv, LinkTyped, BoardTyped, TerminalsTyped, CallsTyped
<1>2. GroupOnce' /\ WaitsKnown'
  BY WaitsStand DEF LinkInv, GroupOnce
<1>3. ASSUME NEW i \in Ids PROVE MessageOk(i)'
  <2>1. MessageOk(i)
    BY DEF LinkInv, MessagesOk
  <2>2. \A n \in Nodes : Held(n, i)' => Held(n, i)
    BY DEF Held
  <2>3. RoleKnown(i)' /\ HeldByTarget(i)'
    BY <2>1, <2>2 DEF MessageOk, RoleKnown, HeldByTarget
  <2>4. ToldTruly(i)'
    BY <2>1 DEF MessageOk, ToldTruly, Ended
  <2>5. UnderWay(i)' /\ Truthful(i)' /\ RoutedOnceAt(i)'
    BY <2>1, <2>2 DEF MessageOk, UnderWay, Truthful, RoutedOnceAt
  <2> QED BY <2>1, <2>3, <2>4, <2>5 DEF MessageOk
<1> QED BY <1>1, <1>2, <1>3 DEF LinkInv, MessagesOk

LEMMA PollKeeps ==
  ASSUME LinkInv, NEW n \in Nodes, Poll(n)
  PROVE  LinkInv'
<1>1. /\ watch' = [watch EXCEPT ![n].at = "settle", ![n].seen = News(n)]
      /\ UNCHANGED <<proc, node, receipts, call, group, outcome, routed, undone>>
  BY DEF Poll
<1>2. /\ watch \in [Nodes -> Watches] /\ proc \in [Nodes -> Procs]
      /\ \A m \in Nodes : watch[m].at = "route" => watch[m].from # NoId
  BY DEF LinkInv, LinkTyped, BoardTyped, TerminalsTyped
<1>3. News(n) \in [Ids -> Working] /\ \A i \in Ids : News(n)[i] \in {"none", proc[n].has[i]}
  BY <1>2 DEF News, Procs, Working
<1> PICK news \in [Ids -> Working] : news = News(n)
  BY <1>3
<1>4. /\ watch' \in [Nodes -> Watches] /\ watch'[n].at = "settle" /\ watch'[n].seen = news
      /\ watch'[n].on = watch[n].on /\ \A m \in Nodes : m # n => watch'[m] = watch[m]
  BY ZenonT(40), <1>1, <1>2 DEF Watches
<1>5. ASSUME NEW m \in Nodes
      PROVE  /\ watch'[m].on \in {NoId, watch[m].on}
             /\ watch'[m].at = "route" => watch'[m].from # NoId
             /\ \A i \in Ids : watch'[m].seen[i] \in {"none", watch[m].seen[i], proc[m].has[i]}
  BY <1>2, <1>3, <1>4
<1> QED BY <1>1, <1>4, <1>5, WatchKeeps

LEMMA SeenFacts ==
  ASSUME LinkInv, NEW n \in Nodes, NEW i \in Ids
  PROVE  /\ Seen(n, i) \in Watches /\ Seen(n, i).on = watch[n].on /\ Seen(n, i).at = watch[n].at
         /\ Seen(n, i).from = watch[n].from
         /\ \A k \in Ids : Seen(n, i).seen[k] \in {"none", watch[n].seen[k]}
<1> DEFINE ss == [watch[n].seen EXCEPT ![i] = "none"]
<1>1. watch[n] \in Watches
  BY DEF LinkInv, LinkTyped, BoardTyped
<1>2. ss \in [Ids -> Working] /\ \A k \in Ids : ss[k] \in {"none", watch[n].seen[k]}
  BY <1>1 DEF Watches, Working
<1>3. Seen(n, i) = [watch[n] EXCEPT !.seen = ss]
  BY DEF Seen
<1> HIDE DEF ss
<1> QED BY <1>1, <1>2, <1>3 DEF Watches

\* What the board says of a message it has heard of, and had not settled.
Stated(n, i, s) == [receipts EXCEPT ![i] = [Known(n, i) EXCEPT !.state = s]]

LEMMA KnownFacts ==
  ASSUME LinkInv, NEW n \in Nodes, NEW i \in Ids, watch[n].seen[i] # "none",
         NEW s \in {"running", "completed", "failed"}, NEW rs, rs = Stated(n, i, s)
  PROVE  /\ rs \in [Ids -> Receipts] /\ rs[i].state = s /\ rs[i].target = n /\ rs[i].role # "none"
         /\ rs[i].role = "research" => receipts[i].role = "research"
         /\ \A k \in Ids : k # i => rs[k] = receipts[k]
         /\ call[i] \notin {"out", "late"}
<1> DEFINE kn == Known(n, i)
           r  == [kn EXCEPT !.state = s]
<1>1. MessageOk(i) /\ Held(n, i) /\ receipts \in [Ids -> Receipts]
  BY DEF LinkInv, MessagesOk, LinkTyped, BoardTyped, Held
<1>2. /\ kn \in Receipts /\ kn.role # "none" /\ kn.target = n
      /\ kn.role = "research" => receipts[i].role = "research"
  <2>1. CASE receipts[i].role = "none"
    <3>1. kn = [state |-> "running", target |-> n, visited |-> {}, role |-> "typed"]
      BY <2>1 DEF Known
    <3> HIDE DEF kn
    <3> QED BY <3>1 DEF Receipts, Unheard
  <2>2. CASE receipts[i].role # "none"
    <3>1. kn = receipts[i]
      BY <2>2 DEF Known
    <3> QED BY <1>1, <2>2, <3>1 DEF MessageOk, HeldByTarget
  <2> QED BY <2>1, <2>2
<1> HIDE DEF kn
<1>3. r \in Receipts /\ r.state = s /\ r.role = kn.role /\ r.target = kn.target
  BY <1>2 DEF Receipts, Unheard, Ended
<1>4. rs = [receipts EXCEPT ![i] = r]
  BY DEF kn, Stated
<1> HIDE DEF r
<1>5. rs \in [Ids -> Receipts] /\ rs[i] = r /\ \A k \in Ids : k # i => rs[k] = receipts[k]
  BY <1>1, <1>3, <1>4
<1>6. call[i] \notin {"out", "late"}
  BY <1>1 DEF MessageOk, UnderWay
<1> QED BY <1>2, <1>3, <1>5, <1>6

\* The account of the message that is settled, or said to run.
LEMMA SettledOk ==
  ASSUME LinkInv, NEW n \in Nodes, NEW i \in Ids, watch[n].seen[i] # "none", Open(i),
         receipts'[i].state = watch[n].seen[i], receipts'[i].target = n, receipts'[i].role # "none",
         call[i] \notin {"out", "late"}, call'[i] = call[i], UNCHANGED <<proc, outcome, undone>>,
         routed'[i] = IF watch[n].seen[i] = "completed" THEN routed[i] + 1 ELSE routed[i],
         \A m \in Nodes : watch'[m].seen[i] \in {"none", watch[m].seen[i]}
  PROVE  MessageOk(i)'
<1>1. MessageOk(i) /\ Held(n, i) /\ routed[i] \in Nat
  BY DEF LinkInv, MessagesOk, LinkTyped, BoardTyped, Held
<1>2. \A m \in Nodes : Held(m, i) => receipts'[i].target = m
  BY <1>1 DEF MessageOk, HeldByTarget
<1>3. watch[n].seen[i] \in Ended => outcome[i] = watch[n].seen[i]
  BY <1>1 DEF MessageOk, ToldTruly
<1>4. Truthful(i)'
  BY <1>1, <1>3 DEF MessageOk, ToldTruly, Truthful, Ended
<1>5. RoutedOnceAt(i)'
  <2>1. i \notin undone => routed[i] = 0
    BY <1>1 DEF MessageOk, RoutedOnceAt, Open, Ended
  <2>2. CASE watch[n].seen[i] = "completed"
    BY <1>1, <1>3, <2>1, <2>2 DEF RoutedOnceAt, Ended
  <2>3. CASE watch[n].seen[i] # "completed"
    BY <1>1, <2>1, <2>3 DEF MessageOk, RoutedOnceAt
  <2> QED BY <2>2, <2>3
<1> QED BY <1>1, <1>2, <1>4, <1>5, MessageRestated

LEMMA ProgressKeeps ==
  ASSUME LinkInv, NEW n \in Nodes, NEW i \in Ids, watch[n].at = "settle", watch[n].seen[i] # "none",
         Progress(n, i, watch[n].seen[i]), UNCHANGED <<proc, node, outcome, undone>>
  PROVE  LinkInv'
<1> PICK s : s = watch[n].seen[i]
  OBVIOUS
<1>1. /\ Open(i) /\ s \notin Ended /\ receipts' = Stated(n, i, s)
      /\ watch' = [watch EXCEPT ![n] = Seen(n, i)] /\ UNCHANGED <<call, group, routed>>
  BY DEF Progress, Stated
<1>2. watch \in [Nodes -> Watches] /\ \A m \in Nodes : watch[m].at = "route" => watch[m].from # NoId
  BY DEF LinkInv, LinkTyped, BoardTyped
<1>3. s = "running"
  BY <1>1, <1>2 DEF Watches, Working, Ended
<1>4. /\ receipts' \in [Ids -> Receipts] /\ receipts'[i].state = s /\ receipts'[i].target = n
      /\ receipts'[i].role # "none" /\ call[i] \notin {"out", "late"}
      /\ receipts'[i].role = "research" => receipts[i].role = "research"
      /\ \A k \in Ids : k # i => receipts'[k] = receipts[k]
  <2> PICK rs : rs = Stated(n, i, s)
    OBVIOUS
  <2>1. s \in {"running", "completed", "failed"} /\ receipts' = rs
    BY <1>1, <1>3
  <2>2. /\ rs \in [Ids -> Receipts] /\ rs[i].state = s /\ rs[i].target = n /\ rs[i].role # "none"
        /\ rs[i].role = "research" => receipts[i].role = "research"
        /\ \A k \in Ids : k # i => rs[k] = receipts[k]
        /\ call[i] \notin {"out", "late"}
    BY <2>1, KnownFacts
  <2> QED BY <2>1, <2>2
<1>5. /\ watch' \in [Nodes -> Watches]
      /\ \A m \in Nodes : /\ watch'[m].on = watch[m].on
                          /\ watch'[m].at = "route" => watch'[m].from # NoId
                          /\ \A k \in Ids : watch'[m].seen[k] \in {"none", watch[m].seen[k]}
  BY <1>1, <1>2, SeenFacts
<1>6. LinkTyped'
  BY <1>1, <1>4, <1>5 DEF LinkInv, LinkTyped, BoardTyped, TerminalsTyped, CallsTyped
<1>7. GroupOnce'
  <2>1. Research(receipts') \subseteq Research(receipts)
    BY <1>4 DEF Research
  <2> QED BY <1>1, <2>1, GroupStands DEF LinkInv
<1>8. WaitsKnown'
  BY <1>4, <1>5, WaitsStand DEF LinkInv
<1>9. MessagesOk'
  <2> SUFFICES ASSUME NEW k \in Ids PROVE MessageOk(k)'
    BY DEF MessagesOk
  <2>1. CASE k = i
    BY <1>1, <1>3, <1>4, <1>5, <2>1, SettledOk
  <2>2. CASE k # i
    BY <1>1, <1>4, <1>5, <2>2, OthersStand
  <2> QED BY <2>1, <2>2
<1> QED BY <1>6, <1>7, <1>8, <1>9 DEF LinkInv

\* What Settle makes of the watch: it goes on, waits for the synthesis, or
\* routes the completion.
Joining(n, i, on) == [Seen(n, i) EXCEPT !.on = on, !.at = IF on = NoId THEN "settle" ELSE "await"]
Routing(n, i, to) == [Seen(n, i) EXCEPT !.from = i, !.to = to, !.at = "route"]

LEMMA SettleWatch ==
  ASSUME LinkInv, NEW n \in Nodes, NEW i \in Ids, watch[n].at = "settle", NEW on, on \in Ids \cup {NoId},
         NEW to \in SUBSET Nodes,
         \/ watch' = [watch EXCEPT ![n] = Seen(n, i)]
         \/ watch' = [watch EXCEPT ![n] = Joining(n, i, on)]
         \/ watch' = [watch EXCEPT ![n] = Routing(n, i, to)]
  PROVE  /\ watch' \in [Nodes -> Watches]
         /\ \A m \in Nodes : /\ watch'[m].on \in {watch[m].on, on}
                             /\ watch'[m].at = "route" => watch'[m].from # NoId
                             /\ \A k \in Ids : watch'[m].seen[k] \in {"none", watch[m].seen[k]}
<1> DEFINE at == IF on = NoId THEN "settle" ELSE "await"
<1>1. at \in {"settle", "await"}
  OBVIOUS
<1> HIDE DEF at
<1> PICK w : w = Seen(n, i)
  OBVIOUS
<1>2. /\ w \in Watches /\ w.on = watch[n].on /\ w.at = "settle"
      /\ \A k \in Ids : w.seen[k] \in {"none", watch[n].seen[k]}
  BY SeenFacts
<1>3. watch \in [Nodes -> Watches] /\ \A m \in Nodes : watch[m].at = "route" => watch[m].from # NoId
  BY DEF LinkInv, LinkTyped, BoardTyped
<1>4. PICK v \in Watches : /\ watch' = [watch EXCEPT ![n] = v] /\ v.seen = w.seen
                           /\ v.on \in {watch[n].on, on} /\ (v.at = "route" => v.from # NoId)
  <2>1. CASE watch' = [watch EXCEPT ![n] = Seen(n, i)]
    BY <1>2, <2>1
  <2>2. CASE watch' = [watch EXCEPT ![n] = Joining(n, i, on)]
    <3> DEFINE v == [w EXCEPT !.on = on, !.at = at]
    <3>1. v \in Watches /\ v.seen = w.seen /\ v.on = on /\ v.at # "route"
      BY <1>1, <1>2 DEF Watches
    <3>2. v = Joining(n, i, on)
      BY DEF Joining, at
    <3> QED BY <2>2, <3>1, <3>2
  <2>3. CASE watch' = [watch EXCEPT ![n] = Routing(n, i, to)]
    <3> DEFINE v == [w EXCEPT !.from = i, !.to = to, !.at = "route"]
    <3>1. v \in Watches /\ v.seen = w.seen /\ v.on = w.on /\ v.from # NoId
      BY <1>2, IdsAreNat DEF Watches
    <3>2. v = Routing(n, i, to)
      BY DEF Routing
    <3> QED BY <1>2, <2>3, <3>1, <3>2
  <2> QED BY <2>1, <2>2, <2>3
<1> QED BY <1>2, <1>3, <1>4

LEMMA SettleKeeps ==
  ASSUME LinkInv, NEW n \in Nodes, NEW i \in Ids, watch[n].at = "settle", watch[n].seen[i] # "none",
         Settle(n, i, watch[n].seen[i]), UNCHANGED <<proc, node, outcome, undone>>
  PROVE  LinkInv'
<1> PICK s : s = watch[n].seen[i]
  OBVIOUS
<1> DEFINE rs == Stated(n, i, s)
           g  == IF i = group.synthesis THEN [group EXCEPT !.state = s] ELSE group
           to == {m \in Nodes : <<n, m>> \in Links}
           j  == IF rs[i].role = "research" THEN Joined(rs, g)
                 ELSE [receipts |-> rs, call |-> call, group |-> g, on |-> NoId]
<1>1. /\ Open(i) /\ s \in Ended
      /\ receipts' = j.receipts /\ call' = j.call /\ group' = j.group
      /\ routed' = [routed EXCEPT ![i] = IF s = "completed" THEN @ + 1 ELSE @]
      /\ watch' = [watch EXCEPT ![n] =
           IF rs[i].role = "research"
           THEN [Seen(n, i) EXCEPT !.on = j.on, !.at = IF j.on = NoId THEN "settle" ELSE "await"]
           ELSE IF s = "completed" /\ to # {}
           THEN [Seen(n, i) EXCEPT !.from = i, !.to = to, !.at = "route"]
           ELSE Seen(n, i)]
  BY DEF Settle, Stated
<1>2. /\ watch \in [Nodes -> Watches] /\ group \in Groups /\ routed \in [Ids -> Nat]
      /\ receipts \in [Ids -> Receipts] /\ MessageOk(i) /\ Held(n, i)
  BY DEF LinkInv, LinkTyped, BoardTyped, MessagesOk, Held
<1>3. s \in {"running", "completed", "failed"} /\ outcome[i] = s
  BY <1>1, <1>2 DEF Watches, Working, MessageOk, ToldTruly
<1>4. /\ rs \in [Ids -> Receipts] /\ rs[i].state = s /\ rs[i].target = n /\ rs[i].role # "none"
      /\ rs[i].role = "research" => receipts[i].role = "research"
      /\ \A k \in Ids : k # i => rs[k] = receipts[k]
      /\ call[i] \notin {"out", "late"}
  BY <1>3, KnownFacts
<1>5. /\ g \in Groups /\ g.launches = group.launches /\ g.left = group.left /\ g.at = group.at
      /\ g.state = "running" => group.state = "running"
  BY <1>1, <1>2 DEF Groups, Ended
<1>6. /\ routed' \in [Ids -> Nat] /\ \A k \in Ids : k # i => routed'[k] = routed[k]
      /\ routed'[i] = IF s = "completed" THEN routed[i] + 1 ELSE routed[i]
  BY <1>1, <1>2
<1> HIDE DEF rs, g
<1>7. to \in SUBSET Nodes
  OBVIOUS
<1>8. \/ /\ j.receipts = rs /\ j.call = call /\ j.on = NoId /\ j.group \in Groups
         /\ j.group = g \/ j.group = [g EXCEPT !.state = "failed"]
      \/ /\ g.state = "running" /\ AllIn(rs, g) /\ CanSend(Synthesizer, {})
         /\ j.receipts = Sending(rs, Synthesizer, {}, "synthesis")
         /\ j.call = Carried(Synthesizer) /\ j.on = NextId /\ j.group = Launched(g, NextId)
  <2>1. CASE rs[i].role = "research"
    <3>1. j = Joined(rs, g)
      BY <2>1
    <3> HIDE DEF j
    <3> QED BY <1>5, <3>1, JoinedFacts
  <2>2. CASE rs[i].role # "research"
    BY <1>5, <2>2
  <2> QED BY <2>1, <2>2
<1>9. j.on \in Ids \cup {NoId} /\ (CanSend(Synthesizer, {}) => Fresh # {} /\ NextId \in Ids)
  BY <1>8, FreshFacts DEF CanSend
<1>10. \/ watch' = [watch EXCEPT ![n] = Seen(n, i)]
       \/ watch' = [watch EXCEPT ![n] = Joining(n, i, j.on)]
       \/ watch' = [watch EXCEPT ![n] = Routing(n, i, to)]
  <2> HIDE DEF j, to
  <2> QED BY <1>1 DEF Joining, Routing
<1> HIDE DEF j, to
<1>11. /\ watch' \in [Nodes -> Watches]
       /\ \A m \in Nodes : /\ watch'[m].on \in {watch[m].on, j.on}
                           /\ watch'[m].at = "route" => watch'[m].from # NoId
                           /\ \A k \in Ids : watch'[m].seen[k] \in {"none", watch[m].seen[k]}
  <2> PICK on : on = j.on
    OBVIOUS
  <2>1. \/ watch' = [watch EXCEPT ![n] = Seen(n, i)]
        \/ watch' = [watch EXCEPT ![n] = Joining(n, i, on)]
        \/ watch' = [watch EXCEPT ![n] = Routing(n, i, to)]
    BY <1>10
  <2>2. /\ watch' \in [Nodes -> Watches]
        /\ \A m \in Nodes : /\ watch'[m].on \in {watch[m].on, on}
                            /\ watch'[m].at = "route" => watch'[m].from # NoId
                            /\ \A k \in Ids : watch'[m].seen[k] \in {"none", watch[m].seen[k]}
    <3>1. on \in Ids \cup {NoId}
      BY <1>9
    <3>2. CASE watch' = [watch EXCEPT ![n] = Seen(n, i)]
      BY <1>7, <3>1, <3>2, SettleWatch
    <3>3. CASE watch' = [watch EXCEPT ![n] = Joining(n, i, on)]
      BY <1>7, <3>1, <3>3, SettleWatch
    <3>4. CASE watch' = [watch EXCEPT ![n] = Routing(n, i, to)]
      BY <1>7, <3>1, <3>4, SettleWatch
    <3> QED BY <2>1, <3>2, <3>3, <3>4
  <2> QED BY <2>2
<1>12. TerminalsTyped'
  BY DEF LinkInv, LinkTyped, TerminalsTyped
<1>13. CASE /\ j.receipts = rs /\ j.call = call /\ j.on = NoId /\ j.group \in Groups
            /\ j.group = g \/ j.group = [g EXCEPT !.state = "failed"]
  <2>1. /\ receipts' = rs /\ call' = call /\ group' \in Groups
        /\ group'.launches = group.launches /\ group'.left = group.left /\ group'.at = group.at
        /\ group'.state = "running" => group.state = "running"
    BY <1>1, <1>5, <1>13 DEF Groups
  <2>2. LinkTyped'
    BY <1>4, <1>6, <1>11, <1>12, <2>1 DEF LinkInv, LinkTyped, BoardTyped, CallsTyped
  <2>3. GroupOnce'
    <3>1. Research(receipts') \subseteq Research(receipts)
      BY <1>4, <2>1 DEF Research
    <3> QED BY <2>1, <3>1, GroupStands DEF LinkInv
  <2>4. WaitsKnown'
    BY <1>4, <1>11, <1>13, <2>1, WaitsStand DEF LinkInv
  <2>5. MessagesOk'
    <3> SUFFICES ASSUME NEW k \in Ids PROVE MessageOk(k)'
      BY DEF MessagesOk
    <3>1. CASE k = i
      BY <1>1, <1>4, <1>6, <1>11, <2>1, <3>1, SettledOk
    <3>2. CASE k # i
      BY <1>4, <1>6, <1>11, <2>1, <3>2, OthersStand
    <3> QED BY <3>1, <3>2
  <2> QED BY <2>2, <2>3, <2>4, <2>5 DEF LinkInv
<1>14. CASE /\ g.state = "running" /\ AllIn(rs, g) /\ CanSend(Synthesizer, {})
            /\ j.receipts = Sending(rs, Synthesizer, {}, "synthesis")
            /\ j.call = Carried(Synthesizer) /\ j.on = NextId /\ j.group = Launched(g, NextId)
  <2>1. Fresh # {} /\ NextId \in Ids /\ Synthesizer \in Nodes
    BY <1>9, <1>14, BoardAssumption
  <2> PICK k \in Ids : k = NextId
    BY <2>1
  <2>2. k # i
    BY <1>2, <2>1, FreshFacts
  <2>3. /\ group' \in Groups /\ group'.launches = g.launches + 1 /\ group'.left = g.left
        /\ group'.state = "joining" /\ group'.at = group.at
    BY <1>1, <1>5, <1>14, LaunchedFacts
  <2>4. receipts' = Sending(rs, Synthesizer, {}, "synthesis") /\ call' = Carried(Synthesizer)
    BY <1>1, <1>14
  <2>5. /\ MessageOk(k)' /\ receipts' \in [Ids -> Receipts] /\ CallsTyped'
        /\ receipts'[k].role = "synthesis"
        /\ \A m \in Ids : m # k => receipts'[m] = rs[m] /\ call'[m] = call[m]
    <3>1. {} \in SUBSET Nodes /\ "synthesis" \in {"research", "synthesis", "forward"}
      OBVIOUS
    <3> QED BY <1>4, <1>6, <1>11, <2>1, <2>2, <2>4, <3>1, SentOk
  <2>6. LinkTyped'
    BY <1>6, <1>11, <1>12, <2>3, <2>5 DEF LinkInv, LinkTyped, BoardTyped
  <2>7. GroupOnce'
    <3>1. \A m \in Research(rs) : rs[m].state = "completed" => outcome[m] = "completed"
      <4> SUFFICES ASSUME NEW m \in Ids, rs[m].state = "completed" PROVE outcome[m] = "completed"
        BY DEF Research
      <4>1. CASE m = i
        BY <1>3, <1>4, <4>1
      <4>2. CASE m # i
        BY <1>4, <4>2 DEF LinkInv, MessagesOk, MessageOk, Truthful, Ended
      <4> QED BY <4>1, <4>2
    <3>2. group'.at # "none" /\ group.state = "running"
      BY <1>5, <1>14, <2>3 DEF LinkInv, GroupOnce
    <3> QED BY <1>4, <1>5, <1>14, <2>1, <2>3, <2>4, <3>1, <3>2, LaunchedOnce DEF LinkInv
  <2>8. WaitsKnown'
    <3> SUFFICES ASSUME NEW m \in Nodes, watch'[m].on # NoId
                 PROVE  receipts'[watch'[m].on].role # "none"
      BY DEF WaitsKnown
    <3>1. CASE watch'[m].on = k
      BY <2>5, <3>1
    <3>2. CASE watch'[m].on # k
      <4>1. watch'[m].on = watch[m].on /\ watch[m].on \in Ids /\ receipts[watch[m].on].role # "none"
        BY <1>2, <1>11, <1>14, <3>2 DEF Watches, LinkInv, WaitsKnown
      <4> QED BY <1>4, <2>5, <3>2, <4>1
    <3> QED BY <3>1, <3>2
  <2>9. MessagesOk'
    <3> SUFFICES ASSUME NEW m \in Ids PROVE MessageOk(m)'
      BY DEF MessagesOk
    <3>1. CASE m = k
      BY <2>5, <3>1
    <3>2. CASE m = i
      BY <1>1, <1>4, <1>6, <1>11, <2>2, <2>5, <3>2, SettledOk
    <3>3. CASE m # i /\ m # k
      BY <1>4, <1>6, <1>11, <2>5, <3>3, OthersStand
    <3> QED BY <3>1, <3>2, <3>3
  <2> QED BY <2>6, <2>7, <2>8, <2>9 DEF LinkInv
<1> QED BY <1>8, <1>13, <1>14

LEMMA SettleNextKeeps ==
  ASSUME LinkInv, NEW n \in Nodes, SettleNext(n)
  PROVE  LinkInv'
<1>1. watch[n].at = "settle" /\ UNCHANGED <<proc, node, outcome, undone, events>>
  BY DEF SettleNext
<1>2. watch \in [Nodes -> Watches] /\ \A m \in Nodes : watch[m].at = "route" => watch[m].from # NoId
  BY DEF LinkInv, LinkTyped, BoardTyped
<1>3. CASE \E i \in Ids : /\ watch[n].seen[i] # "none"
                          /\ \/ Settled(n, i)
                             \/ Progress(n, i, watch[n].seen[i])
                             \/ Settle(n, i, watch[n].seen[i])
  <2> PICK i \in Ids : /\ watch[n].seen[i] # "none"
                       /\ \/ Settled(n, i)
                          \/ Progress(n, i, watch[n].seen[i])
                          \/ Settle(n, i, watch[n].seen[i])
    BY <1>3
  <2>1. CASE Settled(n, i)
    <3>1. /\ watch' = [watch EXCEPT ![n] = Seen(n, i)]
          /\ UNCHANGED <<receipts, call, group, routed>>
      BY <2>1 DEF Settled
    <3>2. /\ watch' \in [Nodes -> Watches]
          /\ \A m \in Nodes : /\ watch'[m].on \in {NoId, watch[m].on}
                              /\ watch'[m].at = "route" => watch'[m].from # NoId
                              /\ \A k \in Ids : watch'[m].seen[k] \in {"none", watch[m].seen[k], proc[m].has[k]}
      BY <1>2, <3>1, SeenFacts
    <3> QED BY <1>1, <3>1, <3>2, WatchKeeps
  <2>2. CASE Progress(n, i, watch[n].seen[i])
    BY <1>1, <2>2, ProgressKeeps
  <2>3. CASE Settle(n, i, watch[n].seen[i])
    BY <1>1, <2>3, SettleKeeps
  <2> QED BY <2>1, <2>2, <2>3
<1>4. CASE watch' = [watch EXCEPT ![n] = IdleWatch] /\ UNCHANGED <<receipts, call, group, routed>>
  <2>1. /\ IdleWatch \in Watches /\ IdleWatch.on = NoId /\ IdleWatch.at = "idle"
        /\ \A i \in Ids : IdleWatch.seen[i] = "none"
    BY NothingTold DEF IdleWatch, Watches
  <2>2. /\ watch' \in [Nodes -> Watches]
        /\ \A m \in Nodes : /\ watch'[m].on \in {NoId, watch[m].on}
                            /\ watch'[m].at = "route" => watch'[m].from # NoId
                            /\ \A k \in Ids : watch'[m].seen[k] \in {"none", watch[m].seen[k], proc[m].has[k]}
    BY <1>2, <1>4, <2>1
  <2> QED BY <1>1, <1>4, <2>2, WatchKeeps
<1> QED BY <1>3, <1>4 DEF SettleNext

LEMMA RouteKeeps ==
  ASSUME LinkInv, NEW n \in Nodes, Route(n)
  PROVE  LinkInv'
<1>1. watch[n].at = "route" /\ UNCHANGED <<proc, node, group, outcome, routed, undone, events>>
  BY DEF Route
<1>2. /\ watch \in [Nodes -> Watches] /\ receipts \in [Ids -> Receipts] /\ group \in Groups
      /\ \A m \in Nodes : watch[m].at = "route" => watch[m].from # NoId
  BY DEF LinkInv, LinkTyped, BoardTyped
<1>3. CASE /\ watch' = [watch EXCEPT ![n].at = "settle", ![n].from = NoId]
           /\ UNCHANGED <<receipts, call>>
  <2>1. /\ watch' \in [Nodes -> Watches]
        /\ \A m \in Nodes : /\ watch'[m].on \in {NoId, watch[m].on}
                            /\ watch'[m].at = "route" => watch'[m].from # NoId
                            /\ \A k \in Ids : watch'[m].seen[k] \in {"none", watch[m].seen[k], proc[m].has[k]}
    BY ZenonT(40), <1>2, <1>3 DEF Watches
  <2> QED BY <1>1, <1>3, <2>1, WatchKeeps
<1>4. ASSUME NEW m \in watch[n].to,
             watch' = [watch EXCEPT ![n].to = @ \ {m}], UNCHANGED <<receipts, call>>
      PROVE  LinkInv'
  <2>1. /\ watch' \in [Nodes -> Watches]
        /\ \A o \in Nodes : /\ watch'[o].on \in {NoId, watch[o].on}
                            /\ watch'[o].at = "route" => watch'[o].from # NoId
                            /\ \A k \in Ids : watch'[o].seen[k] \in {"none", watch[o].seen[k], proc[o].has[k]}
    BY <1>2, <1>4 DEF Watches
  <2> QED BY <1>1, <1>4, <2>1, WatchKeeps
<1>5. ASSUME NEW m \in watch[n].to, NEW visited, visited = receipts[watch[n].from].visited \cup {n},
             CanSend(m, visited), receipts' = Sending(receipts, m, visited, "forward"),
             call' = Carried(m),
             watch' = [watch EXCEPT ![n].to = @ \ {m}, ![n].on = NextId, ![n].at = "await"]
      PROVE  LinkInv'
  <2>1. Fresh # {} /\ NextId \in Ids /\ m \in Nodes
    BY <1>2, <1>5, FreshFacts DEF CanSend, Watches
  <2>2. visited \in SUBSET Nodes
    <3>1. watch[n].from \in Ids
      BY <1>1, <1>2 DEF Watches
    <3> QED BY <1>2, <1>5, <3>1 DEF Receipts
  <2> PICK k \in Ids : k = NextId
    BY <2>1
  <2>3. /\ watch' \in [Nodes -> Watches]
        /\ \A o \in Nodes : /\ watch'[o].seen = watch[o].seen
                            /\ watch'[o].on \in {NoId, watch[o].on, k}
                            /\ watch'[o].at = "route" => watch'[o].from # NoId
    <3> DEFINE left == watch[n].to \ {m}
               w    == [watch[n] EXCEPT !.to = left, !.on = k, !.at = "await"]
    <3>1. watch[n] \in Watches /\ left \in SUBSET Nodes
      BY <1>2 DEF Watches
    <3>2. watch' = [watch EXCEPT ![n] = w]
      BY <1>2, <1>5
    <3> HIDE DEF left
    <3>3. w \in Watches /\ w.seen = watch[n].seen /\ w.on = k /\ w.at = "await"
      BY <3>1 DEF Watches
    <3> HIDE DEF w
    <3> QED BY <1>2, <3>2, <3>3
  <2>4. group' \in Groups /\ GroupOnce'
    <3>1. Research(receipts') \subseteq Research(receipts)
      BY <1>2, <1>5, <2>1, <2>2, SendFacts DEF Research, LinkInv
    <3> QED BY <1>1, <1>2, <3>1, GroupStands DEF LinkInv
  <2> QED BY <1>1, <1>5, <2>1, <2>2, <2>3, <2>4, SendingKeeps
<1> QED BY <1>3, <1>4, <1>5 DEF Route

----------------------------------------------------------------------------
(* The invariant, and what follows from it.                                *)

LEMMA LinkStart == Init => LinkInv
<1> SUFFICES ASSUME Init PROVE LinkInv
  OBVIOUS
<1>1. Synthesizer \in Nodes
  BY BoardAssumption
<1>2. NoReceipt \in Receipts /\ NoReceipt.role = "none" /\ NoReceipt.state = "none"
  BY <1>1 DEF NoReceipt, Receipts
<1>3. /\ IdleWatch \in Watches /\ IdleWatch.on = NoId /\ IdleWatch.at = "idle"
      /\ \A i \in Ids : IdleWatch.seen[i] = "none"
  BY NothingTold DEF IdleWatch, Watches
<1>4. /\ receipts \in [Ids -> Receipts] /\ watch \in [Nodes -> Watches] /\ CallsTyped
      /\ \A i \in Ids : receipts[i] = NoReceipt /\ call[i] = "none" /\ routed[i] = 0 /\ outcome[i] = "none"
      /\ \A n \in Nodes : watch[n] = IdleWatch /\ proc[n].alive = TRUE /\ proc[n].has = Nothing
  BY <1>2, <1>3, NothingTold DEF Init, CallsTyped
<1>5. group \in Groups /\ group.launches = 0 /\ group.state = "none"
  BY DEF Init, Groups
<1>6. LinkTyped
  <2>1. TerminalsTyped
    <3>1. Started \in NodeViews /\ [Started EXCEPT !.state = "ready", !.address = TRUE] \in NodeViews
      BY DEF Started, NodeViews
    <3>2. node \in [Nodes -> NodeViews]
      BY <3>1 DEF Init
    <3> QED BY <3>2, NothingTold DEF Init, TerminalsTyped, Procs, Working
  <2>2. BoardTyped
    BY <1>3, <1>4, <1>5 DEF Init, BoardTyped
  <2> QED BY <2>1, <2>2 DEF LinkTyped
<1>7. GroupOnce /\ WaitsKnown
  BY <1>3, <1>4, <1>5 DEF GroupOnce, WaitsKnown
<1>8. ASSUME NEW i \in Ids PROVE MessageOk(i)
  <2>1. \A n \in Nodes : ~Held(n, i) /\ proc[n].has[i] = "none" /\ watch[n].seen[i] = "none"
    BY <1>3, <1>4, NothingTold DEF Held
  <2>2. RoleKnown(i) /\ HeldByTarget(i) /\ ToldTruly(i) /\ UnderWay(i)
    BY <1>2, <1>4, <2>1 DEF RoleKnown, HeldByTarget, ToldTruly, UnderWay, Ended
  <2>3. Truthful(i) /\ RoutedOnceAt(i)
    BY <1>2, <1>4 DEF Truthful, RoutedOnceAt, Ended
  <2> QED BY <2>2, <2>3 DEF MessageOk
<1> QED BY <1>6, <1>7, <1>8 DEF LinkInv, MessagesOk

LEMMA LinkNext == LinkInv /\ [Next]_vars => LinkInv'
<1> SUFFICES ASSUME LinkInv, [Next]_vars PROVE LinkInv'
  OBVIOUS
<1>1. CASE StartGroup \/ GroupNext
  BY <1>1, StartGroupKeeps, GroupNextKeeps
<1>2. ASSUME NEW i \in Ids, Answer(i) \/ Arrive(i) PROVE LinkInv'
  BY <1>2, AcknowledgedKeeps, RefusedKeeps, UnansweredKeeps, ArriveKeeps DEF Answer
<1>3. ASSUME NEW n \in Nodes, Watching(n) PROVE LinkInv'
  BY <1>3, ViewKeeps, PollKeeps, SettleNextKeeps, RouteKeeps DEF Watching
<1>4. ASSUME NEW n \in Nodes, Type(n) \/ ProcessEnds(n) PROVE LinkInv'
  BY <1>4, TypeKeeps, ProcessEndsKeeps
<1>5. ASSUME NEW n \in Nodes, NEW i \in Ids, NEW how \in {"completed", "failed"}, Finish(n, i, how)
      PROVE  LinkInv'
  BY <1>5, FinishKeeps
<1>6. ASSUME NEW n \in Nodes, Waited(n) \/ Close(n) \/ CloseDone(n) \/ CloseGivesUp(n) \/ Restart(n)
      PROVE  LinkInv'
  BY <1>6, WaitedKeeps, ViewKeeps, CloseDoneKeeps, RestartKeeps
<1>7. CASE UNCHANGED vars
  <2>1. UNCHANGED <<proc, receipts, call, watch, group, outcome, routed, undone>> /\ node' = node
    BY <1>7 DEF vars
  <2>2. node \in [Nodes -> NodeViews]
    BY DEF LinkInv, LinkTyped, TerminalsTyped
  <2> QED BY <2>1, <2>2, NodeKeeps
<1> QED BY <1>1, <1>2, <1>3, <1>4, <1>5, <1>6, <1>7 DEF Next

(* The account of every message and of the group holds in every state.     *)
THEOREM LinkInvariant == Spec => []LinkInv
BY LinkStart, LinkNext, PTL DEF Spec

(* DeepSleep._settle starts routing each completion once, and _join        *)
(* launches a group's synthesis once, when each of its terminals has       *)
(* completed its research - however requests and answers interleave with   *)
(* time-outs, with terminals that end, close or restart, and with their    *)
(* receipts, and whatever the links are.                                   *)
THEOREM SettlesOnce == Spec => []RoutedOnce
<1>1. LinkInv => RoutedOnce
  <2> SUFFICES ASSUME LinkInv PROVE RoutedOnce
    OBVIOUS
  <2>1. ASSUME NEW i \in Ids, routed[i] > 1 PROVE i \in undone
    <3>1. RoutedOnceAt(i) /\ routed[i] \in Nat
      BY DEF LinkInv, MessagesOk, MessageOk, LinkTyped, BoardTyped
    <3> QED BY <2>1, <3>1 DEF RoutedOnceAt
  <2> QED BY <2>1 DEF RoutedOnce, LinkInv, GroupOnce
<1> QED BY <1>1, LinkInvariant, PTL

(* A receipt that the board has settled - from the terminal's receipts, by *)
(* a refusal, or because the terminal is gone - is true of the terminal.   *)
THEOREM ReceiptsAreTrue == Spec => []ReceiptsTruthful
<1>1. LinkInv => ReceiptsTruthful
  BY DEF LinkInv, MessagesOk, MessageOk, Truthful, ReceiptsTruthful
<1> QED BY <1>1, LinkInvariant, PTL
=============================================================================
