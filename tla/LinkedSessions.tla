--------------------------- MODULE LinkedSessions ---------------------------
(***************************************************************************)
(* Terminals of one DeepSleep board (gui/deepsleep.py) that work on each   *)
(* other's messages (core/linked_sessions.py).  The board keeps a receipt  *)
(* of every message it sends, before it sends it; the terminal's process   *)
(* keeps its own, works on one message at a time, and forgets all when it  *)
(* ends.  The board asks each process for its receipts again and again.    *)
(* What a terminal completes goes on along its automatic links; what the   *)
(* researchers of a group complete is joined into one message for the      *)
(* terminal that is to synthesize it.                                      *)
(*                                                                         *)
(* A request goes out in a thread, may fail or time out before or after it *)
(* arrived, and may arrive late.  Whoever sent it waits for it: the        *)
(* coroutine of the group, or the watch of a terminal - which is cancelled *)
(* when that terminal is closed or restarted.                              *)
(*                                                                         *)
(* Left out: native terminals and their handoffs, sends by the owner or by *)
(* an agent, and the changing of links; limits on counts and rates.        *)
(***************************************************************************)
EXTENDS Naturals, FiniteSets

CONSTANTS
  Nodes,
  Researchers,   \* the group's research terminals
  Synthesizer,
  Links,         \* links <<source, target>> that forward automatically
  HopLimit,      \* a route is at most this long; 8 in the code
  MaxIds,        \* bound: messages
  Typed,         \* terminals the owner types in
  MaxEvents      \* bound: prompts, unanswered requests, ended, closed and restarted terminals

ASSUME BoardAssumption ==
  /\ Researchers \subseteq Nodes /\ Researchers # {}
  /\ Synthesizer \in Nodes \ Researchers /\ Typed \subseteq Nodes
  /\ Links \subseteq {l \in Nodes \X Nodes : l[1] # l[2]}
ASSUME LimitAssumption ==
  HopLimit \in Nat /\ MaxIds \in Nat /\ MaxEvents \in Nat

VARIABLES
  proc,       \* proc[n]: the process of a terminal, and its own receipts
  node,       \* node[n]: the board's view of the terminal
  receipts,   \* the board's receipts
  call,       \* call[i]: the request that carries message i
  watch,      \* watch[n]: the task that asks n's process for its receipts
  group,      \* the group, and the coroutine that launched it
  outcome,    \* history: what became of a message in its process
  routed,     \* history: how often the completion of a message was routed
  undone,     \* history: settled receipts that a lost answer made uncertain
  events      \* prompts, failures and ends so far

board == <<receipts, call, watch, group, routed, undone>>
vars  == <<proc, node, receipts, call, watch, group, outcome, routed, undone, events>>

Ids  == 1 .. MaxIds
NoId == 0

Ended   == {"completed", "failed", "interrupted"}
Unheard == {"sending", "running", "uncertain"}

NoReceipt == [state |-> "none", target |-> Synthesizer, visited |-> {}, role |-> "none"]
Nothing   == [i \in Ids |-> "none"]
IdleWatch == [at |-> "idle", seen |-> Nothing, from |-> NoId, to |-> {}, on |-> NoId]

Started   == [state |-> "starting", address |-> FALSE, closing |-> FALSE, waited |-> FALSE]

(* The researchers have been heard of, the synthesizer has just started.   *)
Init ==
  /\ proc = [n \in Nodes |-> [alive |-> TRUE, has |-> Nothing]]
  /\ node = [n \in Nodes |-> IF n = Synthesizer THEN Started
                             ELSE [Started EXCEPT !.state = "ready", !.address = TRUE]]
  /\ receipts = [i \in Ids |-> NoReceipt]
  /\ call = [i \in Ids |-> "none"]
  /\ watch = [n \in Nodes |-> IdleWatch]
  /\ group = [state |-> "none", at |-> "none", left |-> Researchers,
              synthesis |-> NoId, launches |-> 0, on |-> NoId]
  /\ outcome = Nothing
  /\ routed = [i \in Ids |-> 0]
  /\ undone = {}
  /\ events = 0

Event ==
  /\ events < MaxEvents
  /\ events' = events + 1

(* The board is one event loop: a task gives way only where it waits.      *)
Free ==
  /\ group.at # "next"
  /\ \A n \in Nodes : watch[n].at \in {"idle", "await"}

----------------------------------------------------------------------------
(* SENDING: DeepSleep.send up to its await, for a message that is new.     *)

Fresh  == {i \in Ids : receipts[i].role = "none" /\ outcome[i] = "none"
                         /\ \A n \in Nodes : proc[n].has[i] = "none"}
NextId == CHOOSE i \in Fresh : TRUE

(* Otherwise send raises, and no receipt is made.                          *)
CanSend(n, visited) ==
  /\ Fresh # {} /\ node[n].state = "ready"
  /\ n \notin visited /\ Cardinality(visited) < HopLimit

Sending(rs, n, visited, role) ==
  [rs EXCEPT ![NextId] = [state |-> "sending", target |-> n, visited |-> visited, role |-> role]]

(* The request goes to the process that lives, if there is one.            *)
Carried(n) == [call EXCEPT ![NextId] = IF proc[n].alive THEN "out" ELSE "dead"]

(* _join: what becomes of the group when the receipts are rs, and of the   *)
(* coroutine that looks - it waits "on" the request for the synthesis.     *)
Research(rs) == {i \in Ids : rs[i].role = "research"}

(* Mutant: the answers of those that were asked so far.                    *)
AllInSoon(rs, g) == \A i \in Research(rs) : rs[i].state = "completed"

AllIn(rs, g) == g.left = {} /\ \A i \in Research(rs) : rs[i].state = "completed"

Joined(rs, g) ==
  LET still  == [receipts |-> rs, call |-> call, group |-> g, on |-> NoId]
      failed == [still EXCEPT !.group.state = "failed"]
  IN  CASE g.state # "running" -> still
        [] g.state = "running" /\ \E i \in Research(rs) : rs[i].state \in {"failed", "interrupted"}
             -> failed
        [] g.state = "running" /\ AllIn(rs, g)
             -> IF ~CanSend(Synthesizer, {}) THEN failed
                ELSE [receipts |-> Sending(rs, Synthesizer, {}, "synthesis"),
                      call     |-> Carried(Synthesizer),
                      group    |-> [g EXCEPT !.state = "joining", !.synthesis = NextId,
                                             !.launches = @ + 1],
                      on       |-> NextId]
        [] OTHER -> still

----------------------------------------------------------------------------
(* THE GROUP: research to each, one after the other.                       *)

StartGroup ==
  /\ Free /\ group.at = "none"
  /\ \A n \in Researchers : node[n].state = "ready"
  /\ group' = [group EXCEPT !.state = "running", !.at = "next"]
  /\ UNCHANGED <<proc, node, receipts, call, watch, outcome, routed, undone, events>>

GroupNext ==
  /\ group.at = "next"
  /\ IF group.left # {}
     THEN \E n \in group.left :
            IF CanSend(n, {})
            THEN /\ receipts' = Sending(receipts, n, {}, "research")
                 /\ call' = Carried(n)
                 /\ group' = [group EXCEPT !.left = @ \ {n}, !.at = "await", !.on = NextId]
            ELSE /\ group' = [group EXCEPT !.state = "failed", !.at = "done"]
                 /\ UNCHANGED <<receipts, call>>
     ELSE LET j == Joined(receipts, group)
          IN  /\ receipts' = j.receipts /\ call' = j.call
              /\ group' = [j.group EXCEPT !.on = j.on, !.at = IF j.on = NoId THEN "done" ELSE "await"]
  /\ UNCHANGED <<proc, node, watch, outcome, routed, undone, events>>

----------------------------------------------------------------------------
(* THE ANSWER to a request, for the coroutine that waits for it.           *)

Resume(i, rs, g) ==
  /\ receipts' = rs
  /\ watch' = [n \in Nodes |->
       IF watch[n].on # i THEN watch[n]
       ELSE [watch[n] EXCEPT !.on = NoId, !.at = IF watch[n].from = NoId THEN "settle" ELSE "route"]]
  /\ LET launched == IF i # g.synthesis THEN g
                     ELSE [g EXCEPT !.state = IF rs[i].state \in Ended \cup {"uncertain"}
                                              THEN rs[i].state ELSE "submitted"]
     IN  group' = IF g.on # i THEN launched
                  ELSE [launched EXCEPT !.on = NoId,
                          !.at = IF i = g.synthesis THEN "done" ELSE "next"]
  /\ UNCHANGED <<proc, node, outcome, routed>>

Awaited(i) == group.on = i \/ \E n \in Nodes : watch[n].on = i

(* The process said it queued the message.                                 *)
Acknowledged(i) ==
  /\ Free /\ Awaited(i) /\ call[i] = "accepted"
  /\ call' = [call EXCEPT ![i] = "over"]
  /\ Resume(i, IF receipts[i].state \in Ended THEN receipts
               ELSE [receipts EXCEPT ![i].state = "running"], group)
  /\ UNCHANGED <<undone, events>>

(* ChildRefused: a research that failed fails its group.                   *)
Refused(i) ==
  /\ Free /\ Awaited(i) /\ call[i] = "refused"
  /\ call' = [call EXCEPT ![i] = "over"]
  /\ LET rs == [receipts EXCEPT ![i].state = "failed"]
     IN  Resume(i, rs, IF rs[i].role = "research" THEN Joined(rs, group).group ELSE group)
  /\ UNCHANGED <<undone, events>>

(* No answer: the process is gone, or the request failed or timed out and  *)
(* may have arrived, or yet arrive.  The receipt is uncertain, whatever it *)
(* said before.                                                            *)
Unanswered(i) ==
  /\ Free /\ Awaited(i)
  /\ \/ call[i] = "dead" /\ UNCHANGED events /\ call' = [call EXCEPT ![i] = "over"]
     \/ /\ Event /\ call[i] \in {"out", "accepted", "refused"}
        /\ \E c \in {"over"} \cup (IF call[i] = "out" THEN {"late"} ELSE {}) :
             call' = [call EXCEPT ![i] = c]
  /\ Resume(i, [receipts EXCEPT ![i].state = "uncertain"], group)
  /\ undone' = IF receipts[i].state \in Ended THEN undone \cup {i} ELSE undone

----------------------------------------------------------------------------
(* THE WATCH of a terminal: asks for its receipts and settles one by one.  *)

(* What the answer tells the board: entries it knows already, or whose     *)
(* receipt is settled, change nothing.                                     *)
News(n) ==
  [i \in Ids |-> IF proc[n].has[i] = receipts[i].state \/ receipts[i].state \in Ended
                 THEN "none" ELSE proc[n].has[i]]

Poll(n) ==
  /\ Free /\ watch[n].at = "idle" /\ proc[n].alive /\ node[n].address
  /\ News(n) # Nothing
  /\ watch' = [watch EXCEPT ![n].at = "settle", ![n].seen = News(n)]
  /\ UNCHANGED <<proc, node, receipts, call, group, outcome, routed, undone, events>>

Seen(n, i) == [watch[n] EXCEPT !.seen[i] = "none"]

(* The owner's own prompts have no receipt until they are settled.         *)
Known(n, i) ==
  IF receipts[i].role = "none"
  THEN [state |-> "running", target |-> n, visited |-> {}, role |-> "typed"]
  ELSE receipts[i]

(* Mutant: uncertain receipts are left to the owner.                       *)
OpenIfHeard(i) == receipts[i].state \notin Ended \cup {"uncertain"}

Open(i) == receipts[i].state \notin Ended

Settled(n, i) ==
  /\ ~Open(i)
  /\ watch' = [watch EXCEPT ![n] = Seen(n, i)]
  /\ UNCHANGED <<receipts, call, group, routed>>

Progress(n, i, state) ==
  /\ Open(i) /\ state \notin Ended
  /\ receipts' = [receipts EXCEPT ![i] = [Known(n, i) EXCEPT !.state = state]]
  /\ watch' = [watch EXCEPT ![n] = Seen(n, i)]
  /\ UNCHANGED <<call, group, routed>>

(* A completion is routed: to the group it is research for, or else along  *)
(* the terminal's automatic links.                                         *)
Settle(n, i, state) ==
  LET rs == [receipts EXCEPT ![i] = [Known(n, i) EXCEPT !.state = state]]
      g  == IF i = group.synthesis THEN [group EXCEPT !.state = state] ELSE group
      to == {m \in Nodes : <<n, m>> \in Links}
      j  == IF rs[i].role = "research" THEN Joined(rs, g)
            ELSE [receipts |-> rs, call |-> call, group |-> g, on |-> NoId]
  IN  /\ Open(i) /\ state \in Ended
      /\ receipts' = j.receipts /\ call' = j.call /\ group' = j.group
      /\ routed' = [routed EXCEPT ![i] = IF state = "completed" THEN @ + 1 ELSE @]
      /\ watch' = [watch EXCEPT ![n] =
           IF rs[i].role = "research"
           THEN [Seen(n, i) EXCEPT !.on = j.on, !.at = IF j.on = NoId THEN "settle" ELSE "await"]
           ELSE IF state = "completed" /\ to # {}
           THEN [Seen(n, i) EXCEPT !.from = i, !.to = to, !.at = "route"]
           ELSE Seen(n, i)]

SettleNext(n) ==
  /\ watch[n].at = "settle"
  /\ \/ \E i \in Ids :
          LET state == watch[n].seen[i]
          IN  /\ state # "none"
              /\ Settled(n, i) \/ Progress(n, i, state) \/ Settle(n, i, state)
     \/ /\ watch[n].seen = Nothing
        /\ watch' = [watch EXCEPT ![n] = IdleWatch]
        /\ UNCHANGED <<receipts, call, group, routed>>
  /\ UNCHANGED <<proc, node, outcome, undone, events>>

(* One link after the other; a link that cannot be taken is noted.         *)
Route(n) ==
  /\ watch[n].at = "route"
  /\ IF watch[n].to = {}
     THEN /\ watch' = [watch EXCEPT ![n].at = "settle", ![n].from = NoId]
          /\ UNCHANGED <<receipts, call>>
     ELSE \E m \in watch[n].to :
            LET visited == receipts[watch[n].from].visited \cup {n}
            IN  IF CanSend(m, visited)
                THEN /\ receipts' = Sending(receipts, m, visited, "forward")
                     /\ call' = Carried(m)
                     /\ watch' = [watch EXCEPT ![n].to = @ \ {m}, ![n].on = NextId, ![n].at = "await"]
                ELSE /\ watch' = [watch EXCEPT ![n].to = @ \ {m}]
                     /\ UNCHANGED <<receipts, call>>
  /\ UNCHANGED <<proc, node, group, outcome, routed, undone, events>>

----------------------------------------------------------------------------
(* THE TERMINALS: LinkedMessages, and the turns of its App.  A message is  *)
(* "running" from when it is queued; an interrupted turn is one that       *)
(* failed.                                                                 *)

(* The request arrives: the message is queued, or refused.                 *)
Arrive(i) ==
  LET n == receipts[i].target
  IN  /\ call[i] \in {"out", "late"} /\ proc[n].alive
      /\ \E taken \in BOOLEAN :
           /\ proc' = IF taken THEN [proc EXCEPT ![n].has[i] = "running"] ELSE proc
           /\ call' = [call EXCEPT ![i] = IF @ = "late" THEN "over"
                                          ELSE IF taken THEN "accepted" ELSE "refused"]
      /\ UNCHANGED <<node, receipts, watch, group, outcome, routed, undone, events>>

(* The owner types in the terminal.                                        *)
Type(n) ==
  /\ n \in Typed /\ proc[n].alive /\ Fresh # {} /\ Event
  /\ proc' = [proc EXCEPT ![n].has[NextId] = "running"]
  /\ UNCHANGED <<node, board, outcome>>

Finish(n, i, how) ==
  /\ proc[n].alive /\ proc[n].has[i] = "running"
  /\ proc' = [proc EXCEPT ![n].has[i] = how]
  /\ outcome' = [outcome EXCEPT ![i] = how]
  /\ UNCHANGED <<node, board, events>>

(* The process ends, at the board's wish or not.                           *)
ProcessEnds(n) ==
  /\ proc[n].alive /\ Event
  /\ proc' = [proc EXCEPT ![n] = [alive |-> FALSE, has |-> Nothing]]
  /\ outcome' = [i \in Ids |-> IF proc[n].has[i] = "running" THEN "lost" ELSE outcome[i]]
  /\ call' = [i \in Ids |-> IF receipts[i].role = "none" \/ receipts[i].target # n THEN call[i]
                            ELSE CASE call[i] = "out" -> "dead" [] call[i] = "late" -> "over"
                                   [] OTHER -> call[i]]
  /\ UNCHANGED <<node, receipts, watch, group, routed, undone>>

----------------------------------------------------------------------------
(* CLOSE, EXIT AND RESTART.                                                *)

(* _interrupt_receipts: nothing more will be heard of these.  A group      *)
(* whose research is interrupted fails.                                    *)
Interrupt(n) ==
  LET lost == {i \in Ids : receipts[i].target = n /\ receipts[i].state \in Unheard}
      rs == [i \in Ids |-> IF i \in lost THEN [receipts[i] EXCEPT !.state = "interrupted"] ELSE receipts[i]]
      g  == IF group.synthesis \in lost THEN [group EXCEPT !.state = "interrupted"] ELSE group
  IN  /\ receipts' = rs
      /\ group' = IF Research(rs) \cap lost # {} THEN Joined(rs, g).group ELSE g

(* _wait hears of the end of the process.                                  *)
Waited(n) ==
  /\ Free /\ ~proc[n].alive /\ ~node[n].waited
  /\ node' = [node EXCEPT ![n].state = "exited", ![n].address = FALSE, ![n].waited = TRUE]
  /\ Interrupt(n)
  /\ UNCHANGED <<proc, call, watch, outcome, routed, undone, events>>

(* The watch is cancelled where it waits, and so is what it waits for: its *)
(* request goes on in its thread and nobody hears the answer.              *)
CancelWatch(n) ==
  /\ watch' = [watch EXCEPT ![n] = IdleWatch]
  /\ call' = [i \in Ids |-> IF watch[n].on # i THEN call[i]
                            ELSE IF call[i] = "out" THEN "late" ELSE "over"]

Close(n) ==
  /\ Free /\ ~node[n].closing /\ node[n].state # "closed" /\ Event
  /\ node' = [node EXCEPT ![n].state = "stopping", ![n].closing = TRUE]
  /\ UNCHANGED <<proc, board, outcome>>

(* Mutant: the receipts are settled while the process may go on.           *)
GoneSoon(n) == TRUE

Gone(n) == ~proc[n].alive

CloseDone(n) ==
  /\ Free /\ node[n].closing /\ Gone(n)
  /\ node' = [node EXCEPT ![n] = [state |-> "closed", address |-> FALSE, closing |-> FALSE,
                                       waited |-> TRUE]]
  /\ Interrupt(n)
  /\ CancelWatch(n)
  /\ UNCHANGED <<proc, outcome, routed, undone, events>>

(* After four seconds.                                                     *)
CloseGivesUp(n) ==
  /\ Free /\ node[n].closing /\ proc[n].alive
  /\ node' = [node EXCEPT ![n].closing = FALSE]
  /\ UNCHANGED <<proc, board, outcome, events>>

(* A restart cancels the tasks of the old process, _wait among them.       *)
Restart(n) ==
  /\ Free /\ ~proc[n].alive /\ ~node[n].closing
  /\ node[n].state \in {"ready", "exited"} /\ Event
  /\ proc' = [proc EXCEPT ![n].alive = TRUE]
  /\ node' = [node EXCEPT ![n] = Started]
  /\ CancelWatch(n)
  /\ UNCHANGED <<receipts, group, outcome, routed, undone>>

(* The process has published its address: the terminal is ready, also one  *)
(* that is being closed and has not ended yet.                             *)
Discover(n) ==
  /\ Free /\ proc[n].alive /\ ~node[n].address
  /\ node' = [node EXCEPT ![n].state = "ready", ![n].address = TRUE]
  /\ UNCHANGED <<proc, board, outcome, events>>

----------------------------------------------------------------------------
Answer(i)   == Acknowledged(i) \/ Refused(i) \/ Unanswered(i)
Watching(n) == Discover(n) \/ Poll(n) \/ SettleNext(n) \/ Route(n)

Next ==
  \/ StartGroup \/ GroupNext
  \/ \E i \in Ids : Answer(i) \/ Arrive(i)
  \/ \E n \in Nodes :
       \/ Watching(n) \/ Type(n) \/ ProcessEnds(n)
       \/ \E i \in Ids, how \in {"completed", "failed"} : Finish(n, i, how)
       \/ Waited(n) \/ Close(n) \/ CloseDone(n) \/ CloseGivesUp(n) \/ Restart(n)

(* The board's event loop serves each of its tasks, and a request ends:    *)
(* by an answer, or by its time-out of three seconds.                      *)
Fairness ==
  /\ WF_vars(GroupNext)
  /\ WF_vars(\E n \in Nodes : Watching(n))
  /\ WF_vars(\E i \in Ids : Answer(i))
  /\ WF_vars(\E i \in Ids : call[i] = "out" /\ Arrive(i))

Spec == Init /\ [][Next]_vars /\ Fairness

----------------------------------------------------------------------------
(* SAFETY: each completion starts routing once - it is forwarded, or       *)
(* counts for its group - except one whose receipt a lost answer put back  *)
(* to uncertain; and a group is synthesized once, from research that every *)
(* one of its terminals completed.                                         *)
RoutedOnce ==
  /\ \A i \in Ids : routed[i] > 1 => i \in undone
  /\ group.launches <= 1
  /\ group.launches = 1 => /\ group.left = {}
                           /\ \A i \in Research(receipts) : outcome[i] = "completed"

(* SAFETY: a settled receipt tells the truth: what it says completed was,  *)
(* and what it says failed or was interrupted is not still waiting or      *)
(* being worked on in a terminal that lives.                               *)
ReceiptsTruthful ==
  \A i \in Ids : receipts[i].state \in Ended =>
    /\ receipts[i].state = "completed" => outcome[i] = "completed"
    /\ \A n \in Nodes : proc[n].has[i] # "running"

(* LIVENESS: what a terminal made of a message reaches the board, whatever *)
(* happened to the request that brought it, unless the terminal ends.      *)
OutcomeArrives ==
  []<>(\A n \in Nodes, i \in Ids : proc[n].has[i] \in Ended => receipts[i].state = proc[n].has[i])
=============================================================================
