---------------------------- MODULE CheckedTask ----------------------------
(***************************************************************************)
(* What a managed task promises: while it is open, handlers may act on the *)
(* world; it is checked complete only when the outcome of every one of     *)
(* them is known, and from then on nothing more is done for it.  The task  *)
(* list shows it done only after that, and the conversation is reset only  *)
(* after the task list shows it.                                           *)
(***************************************************************************)
CONSTANT Actions    \* handler calls
VARIABLES
  stage,            \* how far the task has come
  owed              \* handler calls whose effect is not known

Stages == {"open", "checked", "projected", "reset"}

Init == stage = "open" /\ owed = {}

Enter(a) ==
  /\ stage = "open"
  /\ owed' = owed \cup {a}
  /\ UNCHANGED stage

(* Handlers return, or the owner says what became of them.                 *)
Settle ==
  /\ owed' \in SUBSET owed
  /\ UNCHANGED stage

Check ==
  /\ stage = "open" /\ owed = {}
  /\ stage' = "checked"
  /\ UNCHANGED owed

Project == stage = "checked"   /\ stage' = "projected" /\ UNCHANGED owed
Reset   == stage = "projected" /\ stage' = "reset"     /\ UNCHANGED owed

Next == (\E a \in Actions : Enter(a)) \/ Settle \/ Check \/ Project \/ Reset

Spec == Init /\ [][Next]_<<stage, owed>>
=============================================================================
