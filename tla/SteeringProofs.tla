--------------------------- MODULE SteeringProofs ---------------------------
(***************************************************************************)
(* Proofs about Steering for every set of corrections and every bound.     *)
(*                                                                         *)
(* SteerInv is inductive.  TextInv relates, for one text, its receipt in   *)
(* memory and in the file, what its submitter was told, the messages and   *)
(* the requests.  The properties speak of the file and of requests; what   *)
(* makes them inductive is that the memory is at least as far as the file  *)
(* while the process lives, and where in the turn an included text may     *)
(* still be unsent.                                                        *)
(***************************************************************************)
EXTENDS Steering, FiniteSetTheorems, TLAPS

Rounds == {"top", "send", "opened", "reply"}

Types ==
  /\ receipts \in [Ids -> Statuses] /\ file \in [Ids -> Statuses]
  /\ open \in BOOLEAN
  /\ told \in [Ids -> {"none", "pending", "retained"}]
  /\ turn \in Rounds \cup {"cap", "salvage", "finished", "ending", "done", "unsealed", "dead"}
  /\ round \in 0 .. MaxRounds
  /\ cut \in BOOLEAN
  /\ context \in [Ids -> Nat]
  /\ sent \subseteq Ids
  /\ typed \subseteq Corrections /\ steered \subseteq typed /\ queue \subseteq typed
  /\ faults \in 0 .. MaxFaults

Taken == {id \in Ids : receipts[id] # "none"}

TakenInv == IsFiniteSet(Taken) /\ Cardinality(Taken) <= MaxReceipts

TextInv(id) ==
  /\ context[id] <= 1
  /\ receipts[id] = "pending" => context[id] = 0
  /\ receipts[id] = "included" => context[id] = 1
  /\ receipts[id] = "submitted" => id \in sent
  /\ id \in sent => context[id] = 1
  /\ told[id] = "none" => receipts[id] = "none"
  /\ told[id] # "none" => file[id] # "none"
  /\ turn # "dead" /\ told[id] # "none" => receipts[id] # "none"
  /\ file[id] = "submitted" => id \in sent
  /\ id \in Corrections /\ context[id] = 1 =>
       /\ file[id] \in {"included", "submitted", "retained"}
       /\ turn # "dead" => receipts[id] \in {"included", "submitted", "retained"}
  /\ turn \in Rounds /\ told[id] = "pending" =>
       receipts[id] \in {"pending", "included", "submitted"}
  /\ turn = "opened" /\ receipts[id] = "included" => id \in sent
  /\ turn = "reply" => receipts[id] # "included"
  /\ turn = "finished" /\ told[id] = "pending" => id \in sent

NoteInv ==
  /\ ~cut => told[Note] = "none" /\ context[Note] = 0
  /\ turn \in {"top", "reply"} /\ cut => receipts[Note] = "pending" \/ context[Note] = 1
  /\ turn = "send" /\ cut => context[Note] = 1
  /\ turn = "opened" /\ cut => Note \in sent

TurnInv ==
  /\ turn = "finished" => ~open
  /\ turn = "top" => round < MaxRounds

SteerInv == Types /\ TakenInv /\ (\A id \in Ids : TextInv(id)) /\ NoteInv /\ TurnInv

----------------------------------------------------------------------------
(* What the operations of the inbox come to, text by text.                 *)

LEMMA SameTaken ==
  ASSUME TakenInv, \A id \in Ids : receipts'[id] = "none" <=> receipts[id] = "none"
  PROVE  TakenInv'
<1>1. Taken' = Taken
  BY DEF Taken
<1> QED BY <1>1 DEF TakenInv

LEMMA FailFacts ==
  ASSUME Types, Fail
  PROVE  faults' \in 0..MaxFaults
BY BoundAssumption DEF Types, Fail

\* Moving the texts of one status to another.
LEMMA MovedFacts ==
  ASSUME Types, NEW from \in Statuses \ {"none"}, NEW to \in Statuses \ {"none"}
  PROVE  /\ Moved(With(from), to) \in [Ids -> Statuses]
         /\ \A id \in Ids : Moved(With(from), to)[id]
              = IF receipts[id] = from THEN to ELSE receipts[id]
BY DEF Types, Moved, With, Statuses

LEMMA AcceptFacts ==
  ASSUME Types, TakenInv, NEW id \in Ids, Accept(id)
  PROVE  /\ receipts[id] = "none" /\ open /\ turn # "dead" /\ open' = open
         /\ \E w \in {"pending", "retained"} :
              /\ receipts' = [receipts EXCEPT ![id] = w]
              /\ told' = [told EXCEPT ![id] = w]
         /\ file' \in [Ids -> Statuses] /\ file'[id] \in {"pending", "retained"}
         /\ \A k \in Ids : k # id => file'[k] = receipts[k]
         /\ faults' \in 0..MaxFaults
         /\ TakenInv'
<1>1. receipts[id] = "none" /\ open /\ turn # "dead" /\ open' = open
  BY DEF Accept, Room, Alive
<1>2. \A w \in {"pending", "retained"} :
        /\ Moved({id}, w) = [receipts EXCEPT ![id] = w]
        /\ Moved({id}, w) \in [Ids -> Statuses] /\ Moved({id}, w)[id] = w
        /\ \A k \in Ids : k # id => Moved({id}, w)[k] = receipts[k]
  BY DEF Moved, Types, Statuses
<1>3. PICK w \in {"pending", "retained"} :
        /\ receipts' = Moved({id}, w)
        /\ file' \in {Moved({id}, "pending"), Moved({id}, "retained")}
        /\ faults' \in 0..MaxFaults
  BY FailFacts DEF Accept, Saved, Types
<1>4. told' = [told EXCEPT ![id] = w]
  BY <1>2, <1>3 DEF Accept
<1>5. TakenInv'
  <2>1. Taken' = Taken \cup {id} /\ id \notin Taken
    BY <1>1, <1>2, <1>3 DEF Taken, Types
  <2>2. Taken = Ids \ With("none")
    BY DEF Taken, With
  <2>3. Cardinality(Taken) < MaxReceipts
    BY <2>2 DEF Accept, Room
  <2>4. IsFiniteSet(Taken) /\ Cardinality(Taken) \in Nat
    BY FS_CardinalityType DEF TakenInv
  <2>5. IsFiniteSet(Taken') /\ Cardinality(Taken') = Cardinality(Taken) + 1
    BY <2>1, <2>4, FS_AddElement
  <2> HIDE DEF Taken
  <2> QED BY <2>3, <2>4, <2>5, BoundAssumption DEF TakenInv
<1> QED BY <1>1, <1>2, <1>3, <1>4, <1>5

LEMMA NotAcceptedFacts ==
  ASSUME Types, TakenInv, NEW id \in Ids, NotAccepted(id)
  PROVE  /\ receipts[id] = "none" /\ open /\ turn # "dead"
         /\ UNCHANGED <<receipts, open, told>>
         /\ file' \in [Ids -> Statuses]
         /\ file' = file \/ /\ file'[id] = "pending"
                            /\ \A k \in Ids : k # id => file'[k] = receipts[k]
         /\ faults' \in 0..MaxFaults
         /\ TakenInv'
<1>1. /\ Moved({id}, "pending") \in [Ids -> Statuses] /\ Moved({id}, "pending")[id] = "pending"
      /\ \A k \in Ids : k # id => Moved({id}, "pending")[k] = receipts[k]
  BY DEF Moved, Types, Statuses
<1>2. file' \in {file, Moved({id}, "pending")} /\ faults' \in 0..MaxFaults
  BY FailFacts DEF NotAccepted, SaveFails
<1>3. /\ receipts[id] = "none" /\ open /\ turn # "dead"
      /\ receipts' = receipts /\ open' = open /\ told' = told
  BY DEF NotAccepted, Room, Alive
<1>4. TakenInv'
  BY <1>3, SameTaken
<1> QED BY <1>1, <1>2, <1>3, <1>4 DEF Types

LEMMA DrainFacts ==
  ASSUME Types, TakenInv, Drain
  PROVE  /\ receipts' \in [Ids -> Statuses] /\ context' \in [Ids -> Nat]
         /\ \A id \in Ids : receipts'[id] = IF receipts[id] = "pending" THEN "included"
                                            ELSE receipts[id]
         /\ \A id \in Ids : context'[id] = context[id] + IF receipts[id] = "pending" THEN 1 ELSE 0
         /\ file' \in [Ids -> Statuses]
         /\ \/ file' = receipts'
            \/ file' = file /\ \A id \in Ids : receipts[id] # "pending"
         /\ told' = told /\ faults' \in 0..MaxFaults /\ TakenInv'
<1>1. /\ receipts' = Moved(With("pending"), "included") /\ told' = told
      /\ context' = [id \in Ids |-> context[id] + IF id \in With("pending") THEN 1 ELSE 0]
      /\ \/ file' = file /\ With("pending") = {}
         \/ file' = Moved(With("pending"), "included")
      /\ faults' = faults
  BY DEF Drain, Saved
<1>2. /\ receipts' \in [Ids -> Statuses]
      /\ \A id \in Ids : receipts'[id] = IF receipts[id] = "pending" THEN "included"
                                         ELSE receipts[id]
  BY <1>1, MovedFacts DEF Statuses
<1>3. /\ context' \in [Ids -> Nat]
      /\ \A id \in Ids : context'[id] = context[id] + IF receipts[id] = "pending" THEN 1 ELSE 0
  BY <1>1 DEF Types, With
<1>4. TakenInv'
  BY <1>2, SameTaken
<1> QED BY <1>1, <1>2, <1>3, <1>4 DEF Types, With

LEMMA DrainBrokenFacts ==
  ASSUME Types, TakenInv, DrainBroken
  PROVE  /\ file' \in [Ids -> Statuses] /\ faults' \in 0..MaxFaults
         /\ file' = file \/ \A id \in Ids :
              file'[id] = IF receipts[id] = "pending" THEN "included" ELSE receipts[id]
         /\ turn' = "ending"
         /\ UNCHANGED <<receipts, open, told, context, sent, typed, steered, queue>>
         /\ TakenInv'
<1>1. /\ Moved(With("pending"), "included") \in [Ids -> Statuses]
      /\ \A id \in Ids : Moved(With("pending"), "included")[id]
           = IF receipts[id] = "pending" THEN "included" ELSE receipts[id]
  BY MovedFacts DEF Statuses
<1>2. /\ file' \in {file, Moved(With("pending"), "included")} /\ faults' \in 0..MaxFaults
      /\ turn' = "ending"
      /\ UNCHANGED <<receipts, open, told, context, sent, typed, steered, queue>>
  BY FailFacts DEF DrainBroken, SaveFails, Saved, Stays, terminal, Types
<1>3. TakenInv'
  BY <1>2, SameTaken
<1> QED BY <1>1, <1>2, <1>3 DEF Types

LEMMA UnsubmittedFacts ==
  ASSUME Types
  PROVE  /\ Moved(Unsubmitted, "retained") \in [Ids -> Statuses]
         /\ \A id \in Ids : Moved(Unsubmitted, "retained")[id]
              = IF receipts[id] \in {"pending", "included"} THEN "retained" ELSE receipts[id]
BY DEF Types, Moved, With, Statuses, Unsubmitted

LEMMA CloseFacts ==
  ASSUME Types, TakenInv, Close
  PROVE  /\ receipts' \in [Ids -> Statuses]
         /\ \A id \in Ids :
              receipts'[id] = IF receipts[id] \in {"pending", "included"} THEN "retained"
                              ELSE receipts[id]
         /\ file' \in [Ids -> Statuses] /\ (file' = file \/ file' = receipts')
         /\ open' = FALSE /\ told' = told /\ faults' \in 0..MaxFaults /\ TakenInv'
<1>1. /\ receipts' = Moved(Unsubmitted, "retained") /\ open' = FALSE /\ told' = told
      /\ file' = file \/ file' = Moved(Unsubmitted, "retained")
      /\ faults' = faults
  BY DEF Close, Saved
<1>2. /\ receipts' \in [Ids -> Statuses]
      /\ \A id \in Ids :
           receipts'[id] = IF receipts[id] \in {"pending", "included"} THEN "retained"
                           ELSE receipts[id]
  BY <1>1, UnsubmittedFacts
<1>3. TakenInv'
  BY <1>2, SameTaken
<1> QED BY <1>1, <1>2, <1>3 DEF Types

LEMMA CloseBrokenFacts ==
  ASSUME Types, TakenInv, CloseBroken
  PROVE  /\ file' \in [Ids -> Statuses] /\ faults' \in 0..MaxFaults
         /\ file' = file \/ \A id \in Ids :
              file'[id] = IF receipts[id] \in {"pending", "included"} THEN "retained"
                          ELSE receipts[id]
         /\ open' = FALSE /\ receipts' = receipts /\ told' = told /\ TakenInv'
<1>1. /\ file' \in {file, Moved(Unsubmitted, "retained")} /\ faults' \in 0..MaxFaults
      /\ open' = FALSE /\ receipts' = receipts /\ told' = told
  BY FailFacts DEF CloseBroken, SaveFails
<1>2. TakenInv'
  BY <1>1, SameTaken
<1> QED BY <1>1, <1>2, UnsubmittedFacts DEF Types

----------------------------------------------------------------------------
(* Corrections arrive.                                                     *)

LEMMA TextTaken ==
  ASSUME SteerInv, NEW id \in Corrections, Accept(id) \/ NotAccepted(id),
         UNCHANGED <<turn, round, cut, context, sent>>
  PROVE  /\ receipts' \in [Ids -> Statuses] /\ file' \in [Ids -> Statuses]
         /\ open' = open /\ told' \in [Ids -> {"none", "pending", "retained"}]
         /\ faults' \in 0..MaxFaults
         /\ TakenInv' /\ (\A k \in Ids : TextInv(k)') /\ NoteInv' /\ TurnInv'
<1>1. /\ Types /\ TakenInv /\ id \in Ids /\ id # Note /\ Note \in Ids
      /\ turn' = turn /\ round' = round /\ cut' = cut /\ context' = context /\ sent' = sent
  BY NoteAssumption DEF SteerInv, Ids
<1>2. CASE Accept(id)
  <2>1. /\ receipts[id] = "none" /\ open /\ turn # "dead" /\ open' = open
        /\ file' \in [Ids -> Statuses] /\ file'[id] \in {"pending", "retained"}
        /\ \A k \in Ids : k # id => file'[k] = receipts[k]
        /\ faults' \in 0..MaxFaults /\ TakenInv'
    BY <1>1, <1>2, AcceptFacts
  <2>2. PICK w \in {"pending", "retained"} :
          receipts' = [receipts EXCEPT ![id] = w] /\ told' = [told EXCEPT ![id] = w]
    BY <1>1, <1>2, AcceptFacts
  <2>3. /\ receipts' \in [Ids -> Statuses] /\ told' \in [Ids -> {"none", "pending", "retained"}]
        /\ receipts'[id] = w /\ told'[id] = w
        /\ \A k \in Ids : k # id => receipts'[k] = receipts[k] /\ told'[k] = told[k]
    BY <1>1, <2>2 DEF Types, Statuses
  <2>4. TextInv(id) /\ \A k \in Ids : TextInv(k)
    BY <1>1 DEF SteerInv
  <2>5. context[id] = 0 /\ turn # "finished"
    <3>1. context[id] \in Nat
      BY <1>1 DEF Types
    <3> QED BY <1>1, <2>1, <2>4, <3>1 DEF TextInv, SteerInv, TurnInv
  <2>6. TextInv(id)'
    BY <1>1, <2>1, <2>3, <2>4, <2>5 DEF TextInv
  <2>7. ASSUME NEW k \in Ids, k # id PROVE TextInv(k)'
    BY <1>1, <2>1, <2>3, <2>4, <2>7 DEF TextInv
  <2>8. NoteInv' /\ TurnInv'
    BY <1>1, <2>1, <2>3 DEF SteerInv, NoteInv, TurnInv
  <2> QED BY <2>1, <2>3, <2>6, <2>7, <2>8
<1>3. CASE NotAccepted(id)
  <2>1. /\ receipts[id] = "none" /\ open /\ turn # "dead"
        /\ receipts' = receipts /\ open' = open /\ told' = told
        /\ file' \in [Ids -> Statuses]
        /\ file' = file \/ /\ file'[id] = "pending"
                           /\ \A k \in Ids : k # id => file'[k] = receipts[k]
        /\ faults' \in 0..MaxFaults /\ TakenInv'
    BY <1>1, <1>3, NotAcceptedFacts
  <2>2. TextInv(id) /\ \A k \in Ids : TextInv(k)
    BY <1>1 DEF SteerInv
  <2>3. TextInv(id)'
    BY <1>1, <2>1, <2>2 DEF TextInv
  <2>4. ASSUME NEW k \in Ids, k # id PROVE TextInv(k)'
    BY <1>1, <2>1, <2>2, <2>4 DEF TextInv
  <2>5. NoteInv' /\ TurnInv'
    BY <1>1, <2>1 DEF SteerInv, NoteInv, TurnInv
  <2> QED BY <1>1, <2>1, <2>3, <2>4, <2>5 DEF Types
<1> QED BY <1>2, <1>3

LEMMA SteerKeeps ==
  ASSUME SteerInv, NEW id \in Corrections, Steer(id) \/ Type(id)
  PROVE  SteerInv'
<1>1. Types
  BY DEF SteerInv
<1>2. CASE Accept(id) \/ NotAccepted(id)
  <2>1. UNCHANGED <<turn, round, cut, context, sent>>
    BY DEF Steer, Type
  <2>2. typed' \subseteq Corrections /\ steered' \subseteq typed' /\ queue' \subseteq typed'
    BY <1>1 DEF Steer, Type, terminal, Types
  <2>3. Types'
    BY <1>1, <1>2, <2>1, <2>2, TextTaken DEF Types
  <2> QED BY <1>2, <2>1, <2>3, TextTaken DEF SteerInv
<1>3. CASE ~(Accept(id) \/ NotAccepted(id))
  <2>1. /\ UNCHANGED <<receipts, file, open, told, turn, round, cut, context, sent, steered, faults>>
        /\ typed' = typed \cup {id} /\ queue' = queue \cup {id}
    BY <1>3 DEF Steer, Type, inbox
  <2>2. Types'
    BY <1>1, <2>1 DEF Types
  <2>3. TakenInv'
    BY <2>1, SameTaken DEF SteerInv
  <2> QED BY <2>1, <2>2, <2>3 DEF SteerInv, TextInv, NoteInv, TurnInv
<1> QED BY <1>2, <1>3

----------------------------------------------------------------------------
(* The turn's steps that drain, close or send.                             *)

\* After draining, a text is as far as the messages say.
LEMMA Drained ==
  ASSUME SteerInv, Drain, turn \in Rounds, sent' = sent, cut' = cut, UNCHANGED terminal,
         turn' \in {"send", "top", "finished"}, open' \in {open, FALSE},
         round' \in 0..MaxRounds,
         turn' = "top" => round' < MaxRounds /\ turn \in {"top", "reply"},
         turn' = "send" => turn = "top",
         turn' = "finished" => turn = "reply" /\ With("pending") = {} /\ open' = FALSE
  PROVE  SteerInv'
<1>1. Types /\ TakenInv
  BY DEF SteerInv
<1>2. /\ receipts' \in [Ids -> Statuses] /\ context' \in [Ids -> Nat]
      /\ \A id \in Ids : receipts'[id] = IF receipts[id] = "pending" THEN "included"
                                         ELSE receipts[id]
      /\ \A id \in Ids : context'[id] = context[id] + IF receipts[id] = "pending" THEN 1 ELSE 0
      /\ file' \in [Ids -> Statuses]
      /\ \/ file' = receipts'
         \/ file' = file /\ \A id \in Ids : receipts[id] # "pending"
      /\ told' = told /\ faults' \in 0..MaxFaults /\ TakenInv'
  BY <1>1, DrainFacts
<1>3. Types'
  BY <1>1, <1>2 DEF Types, Rounds, terminal
<1>4. ASSUME NEW id \in Ids PROVE TextInv(id)'
  <2>1. TextInv(id) /\ context[id] \in Nat
    BY <1>1 DEF SteerInv, Types
  <2>2. turn' = "finished" => receipts[id] # "pending"
    BY DEF With
  <2>3. CASE receipts[id] = "pending"
    <3>1. receipts'[id] = "included" /\ context[id] = 0 /\ context'[id] = 1
      BY <1>2, <2>1, <2>3 DEF TextInv
    <3> QED BY <1>2, <2>1, <2>2, <2>3, <3>1 DEF TextInv, Rounds
  <2>4. CASE receipts[id] # "pending"
    <3>1. receipts'[id] = receipts[id] /\ context'[id] = context[id]
      BY <1>2, <2>1, <2>4
    <3> QED BY <1>2, <2>1, <2>4, <3>1 DEF TextInv, Rounds
  <2> QED BY <2>3, <2>4
<1>5. NoteInv'
  <2>1. Note \in Ids /\ context[Note] \in Nat /\ TextInv(Note)
    BY <1>1 DEF Ids, SteerInv, Types
  <2>3. ~cut => context'[Note] = 0 /\ told[Note] = "none"
    BY <1>2, <2>1 DEF SteerInv, NoteInv, TextInv
  <2>2. (cut /\ turn \in {"top", "reply"}) => context'[Note] = 1
    BY <1>2, <2>1 DEF SteerInv, NoteInv, TextInv
  <2> QED BY <1>2, <2>2, <2>3 DEF NoteInv
<1>6. TurnInv'
  BY DEF TurnInv
<1> QED BY <1>2, <1>3, <1>4, <1>5, <1>6 DEF SteerInv

LEMMA Broken ==
  ASSUME SteerInv, DrainBroken \/ CloseBroken, turn # "dead",
         turn' \in {"ending", "unsealed"}, round' \in 0..MaxRounds,
         context' = context, sent' = sent, cut' = cut, UNCHANGED terminal
  PROVE  SteerInv'
<1>1. Types /\ TakenInv
  BY DEF SteerInv
<1>2. /\ receipts' = receipts /\ told' = told /\ open' \in {open, FALSE}
      /\ file' \in [Ids -> Statuses] /\ faults' \in 0..MaxFaults /\ TakenInv'
      /\ \A id \in Ids : \/ file'[id] = file[id]
                         \/ file'[id] = receipts[id]
                         \/ receipts[id] = "pending" /\ file'[id] = "included"
                         \/ receipts[id] \in {"pending", "included"} /\ file'[id] = "retained"
  BY <1>1, DrainBrokenFacts, CloseBrokenFacts
<1>3. Types'
  BY <1>1, <1>2 DEF Types, terminal
<1>4. ASSUME NEW id \in Ids PROVE TextInv(id)'
  <2>1. TextInv(id)
    BY DEF SteerInv
  <2> QED BY <1>2, <2>1 DEF TextInv, Rounds
<1>5. NoteInv' /\ TurnInv'
  BY <1>2 DEF SteerInv, NoteInv, TurnInv
<1> QED BY <1>2, <1>3, <1>4, <1>5 DEF SteerInv

LEMMA Closed ==
  ASSUME SteerInv, Close, turn # "dead", sent' = sent, context' = context, round' = round, cut' = cut,
         UNCHANGED terminal, turn' \in {"salvage", "cap", "finished", "ending", "done"},
         turn' = "finished" => turn = "reply" /\ \A id \in Ids : receipts'[id] # "retained"
  PROVE  SteerInv'
<1>1. Types /\ TakenInv
  BY DEF SteerInv
<1>2. /\ receipts' \in [Ids -> Statuses]
      /\ \A id \in Ids :
           receipts'[id] = IF receipts[id] \in {"pending", "included"} THEN "retained"
                           ELSE receipts[id]
      /\ file' \in [Ids -> Statuses] /\ (file' = file \/ file' = receipts')
      /\ open' = FALSE /\ told' = told /\ faults' \in 0..MaxFaults /\ TakenInv'
  BY <1>1, CloseFacts
<1>3. Types'
  BY <1>1, <1>2 DEF Types, terminal
<1>4. ASSUME NEW id \in Ids PROVE TextInv(id)'
  <2>1. TextInv(id)
    BY DEF SteerInv
  <2>2. turn' = "finished" /\ told[id] = "pending" => id \in sent
    BY <1>2, <2>1 DEF TextInv, Rounds
  <2>3. CASE receipts[id] \in {"pending", "included"}
    <3>1. receipts'[id] = "retained"
      BY <1>2, <2>3
    <3> QED BY <1>2, <2>1, <2>2, <2>3, <3>1 DEF TextInv, Rounds
  <2>4. CASE receipts[id] \notin {"pending", "included"}
    <3>1. receipts'[id] = receipts[id]
      BY <1>2, <2>4
    <3> QED BY <1>2, <2>1, <2>2, <2>4, <3>1 DEF TextInv, Rounds
  <2> QED BY <2>3, <2>4
<1>5. NoteInv' /\ TurnInv'
  BY <1>2 DEF SteerInv, NoteInv, TurnInv
<1> QED BY <1>2, <1>3, <1>4, <1>5 DEF SteerInv

LEMMA Sent ==
  ASSUME SteerInv, \/ turn = "send" /\ Opens("opened")
                   \/ turn = "salvage" /\ Opens("ending")
  PROVE  SteerInv'
<1>1. /\ Types /\ TakenInv
      /\ sent' = sent \cup InContext /\ turn' \in {"opened", "ending"}
      /\ turn' = "opened" => turn = "send"
      /\ UNCHANGED <<receipts, file, open, told, round, cut, context, typed, steered, queue, faults>>
  BY DEF SteerInv, Opens, inbox, terminal
<1>2. Types'
  BY <1>1 DEF Types, InContext, Rounds
<1>3. TakenInv'
  BY <1>1, SameTaken
<1>4. ASSUME NEW id \in Ids PROVE TextInv(id)'
  <2>1. TextInv(id) /\ context[id] \in Nat
    BY <1>1 DEF SteerInv, Types
  <2>2. id \in sent' <=> context[id] = 1
    BY <1>1, <2>1 DEF InContext, TextInv
  <2> QED BY <1>1, <2>1, <2>2 DEF TextInv, Rounds
<1>5. NoteInv' /\ TurnInv'
  <2>1. Note \in Ids
    BY DEF Ids
  <2>2. turn' = "opened" /\ cut => Note \in sent'
    BY <1>1, <2>1 DEF SteerInv, NoteInv, InContext
  <2>3. turn' = "opened" => turn = "send"
    BY <1>1
  <2> QED BY <1>1, <2>2, <2>3 DEF SteerInv, NoteInv, TurnInv
<1> QED BY <1>2, <1>3, <1>4, <1>5 DEF SteerInv

\* Steps of the turn that only go on.
LEMMA Moves ==
  ASSUME SteerInv, turn # "dead", UNCHANGED <<inbox, round, cut, context, sent, terminal, faults>>,
         \/ turn' \in {"cap", "ending"}
         \/ turn' = "top" /\ turn = "reply" /\ round < MaxRounds
  PROVE  SteerInv'
<1>1. /\ Types /\ TakenInv
      /\ UNCHANGED <<receipts, file, open, told, round, cut, context, sent, typed, steered,
                     queue, faults>>
  BY DEF SteerInv, inbox, terminal
<1>2. Types'
  BY <1>1 DEF Types, Rounds
<1>3. TakenInv'
  BY <1>1, SameTaken
<1>4. ASSUME NEW id \in Ids PROVE TextInv(id)'
  <2>1. TextInv(id)
    BY DEF SteerInv
  <2> QED BY <1>1, <2>1 DEF TextInv, Rounds
<1>5. NoteInv' /\ TurnInv'
  BY <1>1 DEF SteerInv, NoteInv, TurnInv
<1> QED BY <1>2, <1>3, <1>4, <1>5 DEF SteerInv

LEMMA SubmittedKeeps ==
  ASSUME SteerInv, RecordSubmitted
  PROVE  SteerInv'
<1> DEFINE staged == Moved(With("included"), "submitted")
<1>1. Types /\ TakenInv
  BY DEF SteerInv
<1>2. /\ staged \in [Ids -> Statuses]
      /\ \A id \in Ids : staged[id] = IF receipts[id] = "included" THEN "submitted"
                                      ELSE receipts[id]
  BY <1>1, MovedFacts DEF Statuses
<1>3. /\ turn = "opened" /\ receipts' = staged /\ (file' = file \/ file' = staged)
      /\ turn' \in {"reply", "ending"} /\ faults' \in 0..MaxFaults
      /\ UNCHANGED <<open, told, round, cut, context, sent, typed, steered, queue>>
  BY <1>1, FailFacts DEF RecordSubmitted, Saved, SaveFails, Stays, terminal, Types
<1> HIDE DEF staged
<1>4. Types'
  BY <1>1, <1>2, <1>3 DEF Types, Rounds
<1>5. TakenInv'
  BY <1>1, <1>2, <1>3, SameTaken
<1>6. ASSUME NEW id \in Ids PROVE TextInv(id)'
  <2>1. TextInv(id)
    BY DEF SteerInv
  <2>2. CASE receipts[id] = "included"
    <3>1. receipts'[id] = "submitted" /\ id \in sent
      BY <1>2, <1>3, <2>1, <2>2 DEF TextInv
    <3> QED BY <1>2, <1>3, <2>1, <2>2, <3>1 DEF TextInv, Rounds
  <2>3. CASE receipts[id] # "included"
    <3>1. receipts'[id] = receipts[id]
      BY <1>2, <1>3, <2>3
    <3> QED BY <1>2, <1>3, <2>1, <2>3, <3>1 DEF TextInv, Rounds
  <2> QED BY <2>2, <2>3
<1>7. NoteInv' /\ TurnInv'
  <2>1. TextInv(Note)
    BY DEF SteerInv, Ids
  <2> QED BY <1>3, <2>1 DEF SteerInv, NoteInv, TurnInv, TextInv
<1> QED BY <1>4, <1>5, <1>6, <1>7 DEF SteerInv

LEMMA CutKeeps ==
  ASSUME SteerInv, CutReply
  PROVE  SteerInv'
<1>1. /\ Types /\ TakenInv /\ Note \in Ids
      /\ turn = "reply" /\ round # MaxRounds /\ round < MaxRounds
      /\ told[Note] = "none" /\ receipts[Note] = "none" /\ context[Note] = 0
      /\ Note \notin Corrections
      /\ UNCHANGED <<round, sent, typed, steered, queue>>
      /\ turn' \in {"top", "ending"} /\ cut' = TRUE
  <2>1. Note \in Ids /\ TextInv(Note) /\ Types /\ TakenInv
    BY DEF SteerInv, Ids
  <2>2. turn = "reply" /\ round # MaxRounds /\ told[Note] = "none" /\ context[Note] = 0
    BY DEF CutReply, Last, SteerInv, NoteInv
  <2>3. /\ UNCHANGED <<round, sent, typed, steered, queue>> /\ turn' \in {"top", "ending"}
        /\ cut' = TRUE
    BY DEF CutReply, Stays, terminal
  <2> QED BY <2>1, <2>2, <2>3, NoteAssumption, BoundAssumption DEF TextInv, Types
<1>2. \A k \in Ids : TextInv(k)
  BY DEF SteerInv
<1>3. context' \in [Ids -> Nat] /\ \A k \in Ids : k # Note => context'[k] = context[k]
  BY <1>1 DEF CutReply, AddNote, Types
<1>4. CASE Accept(Note)
  <2>1. /\ open' = open
        /\ file' \in [Ids -> Statuses] /\ file'[Note] \in {"pending", "retained"}
        /\ \A k \in Ids : k # Note => file'[k] = receipts[k]
        /\ faults' \in 0..MaxFaults /\ TakenInv'
    BY <1>1, <1>4, AcceptFacts
  <2>2. PICK w \in {"pending", "retained"} :
          receipts' = [receipts EXCEPT ![Note] = w] /\ told' = [told EXCEPT ![Note] = w]
    BY <1>1, <1>4, AcceptFacts
  <2>3. /\ receipts' \in [Ids -> Statuses] /\ told' \in [Ids -> {"none", "pending", "retained"}]
        /\ receipts'[Note] = w /\ told'[Note] = w
        /\ \A k \in Ids : k # Note => receipts'[k] = receipts[k] /\ told'[k] = told[k]
    BY <1>1, <2>2 DEF Types, Statuses
  <2>4. context'[Note] = IF w = "pending" THEN 0 ELSE 1
    <3>1. Room(Note) /\ ~NotAccepted(Note)
      BY <1>1, <1>4, <2>3 DEF Accept, NotAccepted
    <3>2. IF receipts'[Note] = "pending" THEN UNCHANGED context ELSE AddNote
      BY <3>1 DEF CutReply
    <3> QED BY <1>1, <2>3, <3>2 DEF Types, AddNote
  <2>5. TextInv(Note)'
    BY <1>1, <1>2, <2>1, <2>3, <2>4 DEF TextInv, Rounds
  <2>6. ASSUME NEW k \in Ids, k # Note PROVE TextInv(k)'
    BY <1>1, <1>2, <1>3, <2>1, <2>3, <2>6 DEF TextInv, Rounds
  <2>7. NoteInv' /\ TurnInv'
    BY <1>1, <2>3, <2>4 DEF NoteInv, TurnInv
  <2>8. Types'
    BY <1>1, <1>3, <2>1, <2>3 DEF Types, Rounds
  <2> QED BY <2>1, <2>5, <2>6, <2>7, <2>8 DEF SteerInv
<1>5. CASE NotAccepted(Note)
  <2>1. /\ receipts' = receipts /\ open' = open /\ told' = told
        /\ file' \in [Ids -> Statuses]
        /\ file' = file \/ /\ file'[Note] = "pending"
                           /\ \A k \in Ids : k # Note => file'[k] = receipts[k]
        /\ faults' \in 0..MaxFaults /\ TakenInv'
    BY <1>1, <1>5, NotAcceptedFacts
  <2>2. context'[Note] \in {0, 1} /\ told'[Note] = "none" /\ receipts'[Note] = "none"
    BY <1>1, <2>1 DEF CutReply, AddNote, Types
  <2>3. TextInv(Note)'
    BY <1>1, <1>2, <2>1, <2>2 DEF TextInv, Rounds
  <2>4. ASSUME NEW k \in Ids, k # Note PROVE TextInv(k)'
    BY <1>1, <1>2, <1>3, <2>1, <2>4 DEF TextInv, Rounds
  <2>5. turn' = "ending"
    <3>1. Room(Note)
      BY <1>5 DEF NotAccepted
    <3>2. ASSUME Accept(Note) PROVE FALSE
      <4>1. PICK w \in {"pending", "retained"} : receipts' = [receipts EXCEPT ![Note] = w]
        BY <1>1, <3>2, AcceptFacts
      <4> QED BY <1>1, <2>2, <4>1 DEF Types
    <3> QED BY <3>1, <3>2 DEF CutReply, Stays
  <2>6. NoteInv' /\ TurnInv'
    BY <1>1, <2>1, <2>5 DEF NoteInv, TurnInv
  <2>7. Types'
    BY <1>1, <1>3, <2>1 DEF Types, Rounds
  <2> QED BY <2>1, <2>3, <2>4, <2>6, <2>7 DEF SteerInv
<1>6. CASE ~Accept(Note) /\ ~NotAccepted(Note)
  <2>1. /\ UNCHANGED <<receipts, file, open, told, faults>> /\ turn' = "top"
        /\ context' = [context EXCEPT ![Note] = @ + 1]
    BY <1>6 DEF CutReply, inbox, AddNote, Stays
  <2>2. context'[Note] = 1
    BY <1>1, <2>1 DEF Types
  <2>3. TextInv(Note)'
    BY <1>1, <1>2, <2>1, <2>2 DEF TextInv, Rounds
  <2>4. ASSUME NEW k \in Ids, k # Note PROVE TextInv(k)'
    BY <1>1, <1>2, <1>3, <2>1, <2>4 DEF TextInv, Rounds
  <2>5. NoteInv' /\ TurnInv'
    BY <1>1, <2>1, <2>2 DEF NoteInv, TurnInv
  <2>6. Types'
    BY <1>1, <1>3, <2>1 DEF Types, Rounds
  <2>7. TakenInv'
    BY <1>1, <2>1, SameTaken
  <2> QED BY <2>3, <2>4, <2>5, <2>6, <2>7 DEF SteerInv
<1> QED BY <1>4, <1>5, <1>6

LEMMA StepKeeps ==
  ASSUME SteerInv, TurnStep
  PROVE  SteerInv'
<1>1. Types /\ round \in Nat /\ round <= MaxRounds /\ MaxRounds \in Nat
  BY BoundAssumption DEF SteerInv, Types
<1>2. CASE BeginRound
  <2>1. turn = "top" /\ round < MaxRounds /\ round' = round + 1 /\ cut' = cut /\ round' \in 0..MaxRounds
    BY <1>1, <1>2 DEF BeginRound, SteerInv, TurnInv
  <2>2. CASE Drain /\ Stays("send") /\ UNCHANGED open
    BY <2>1, <2>2, Drained DEF Stays, Rounds
  <2>3. CASE DrainBroken
    BY <2>1, <2>3, Broken DEF DrainBroken, Stays
  <2> QED BY <1>2, <2>2, <2>3 DEF BeginRound
<1>3. CASE ContextStop
  <2>1. turn = "send" /\ round' = round /\ cut' = cut /\ context' = context /\ round' \in 0..MaxRounds
    BY <1>1, <1>3 DEF ContextStop
  <2> QED BY <1>3, <2>1, Closed, Broken DEF ContextStop, Stays
<1>4. CASE RequestOpens
  BY <1>4, Sent DEF RequestOpens
<1>5. CASE RecordSubmitted
  BY <1>5, SubmittedKeeps
<1>6. CASE NextRound
  <2>1. /\ turn = "reply" /\ UNCHANGED <<inbox, round, cut, context, sent, terminal, faults>>
        /\ turn' = IF round = MaxRounds THEN "cap" ELSE "top"
    BY <1>6 DEF NextRound, Stays, Last
  <2> QED BY <1>1, <2>1, Moves
<1>7. CASE CutReply
  BY <1>7, CutKeeps
<1>8. CASE Answer
  <2>1. turn = "reply" /\ round < MaxRounds /\ round' = round /\ cut' = cut /\ round' \in 0..MaxRounds
    BY <1>1, <1>8 DEF Answer, Last
  <2>2. CASE DrainBroken
    BY <2>1, <2>2, Broken DEF DrainBroken, Stays
  <2>3. CASE Drain /\ With("pending") = {} /\ Stays("finished") /\ open' = FALSE
    BY <2>1, <2>3, Drained DEF Stays, Rounds
  <2>4. CASE Drain /\ Stays("top") /\ UNCHANGED open
    BY <2>1, <2>4, Drained DEF Stays, Rounds
  <2> QED BY <1>8, <2>2, <2>3, <2>4 DEF Answer
<1>9. CASE LastAnswer
  <2>1. turn = "reply" /\ round' = round /\ cut' = cut /\ context' = context /\ round' \in 0..MaxRounds
    BY <1>1, <1>9 DEF LastAnswer
  <2>2. CASE Close /\ Stays(IF \E id \in Ids : receipts'[id] = "retained" THEN "cap" ELSE "finished")
    BY <2>1, <2>2, Closed DEF Stays
  <2>3. CASE CloseBroken /\ Stays("ending")
    BY <2>1, <2>3, Broken DEF Stays
  <2> QED BY <1>9, <2>2, <2>3 DEF LastAnswer
<1>10. CASE EndInSalvage
  <2>1. turn # "dead" /\ round' = round /\ cut' = cut /\ context' = context /\ round' \in 0..MaxRounds
    BY <1>1, <1>10 DEF EndInSalvage
  <2> QED BY <1>10, <2>1, Closed, Broken DEF EndInSalvage, Stays
<1>11. CASE SalvageOpens
  BY <1>11, Sent DEF SalvageOpens
<1>12. CASE EndEarly
  BY <1>12, Moves DEF EndEarly, Stays
<1>13. CASE EngineClose
  <2>1. turn # "dead" /\ round' = round /\ cut' = cut /\ context' = context /\ round' \in 0..MaxRounds
    BY <1>1, <1>13 DEF EngineClose
  <2> QED BY <1>13, <2>1, Closed, Broken DEF EngineClose, Stays
<1> QED BY <1>2, <1>3, <1>4, <1>5, <1>6, <1>7, <1>8, <1>9, <1>10, <1>11, <1>12, <1>13 DEF TurnStep

LEMMA TypedKeeps ==
  ASSUME SteerInv, TakeTyped
  PROVE  SteerInv'
<1>1. /\ Types /\ TakenInv
      /\ UNCHANGED <<receipts, file, open, told, turn, round, cut, context, sent, typed, faults>>
      /\ queue' \subseteq queue \cup steered /\ steered' = {}
  BY DEF SteerInv, TakeTyped, inbox
<1>2. Types'
  BY <1>1 DEF Types
<1>3. TakenInv'
  BY <1>1, SameTaken
<1> QED BY <1>1, <1>2, <1>3 DEF SteerInv, TextInv, NoteInv, TurnInv

LEMMA CrashKeeps ==
  ASSUME SteerInv, Crash
  PROVE  SteerInv'
<1>1. /\ Types
      /\ turn' = "dead" /\ open' = FALSE /\ steered' = {} /\ queue' = {}
      /\ receipts' = [id \in Ids |-> "none"]
      /\ UNCHANGED <<file, told, round, cut, context, sent, typed, faults>>
  BY DEF SteerInv, Crash
<1>2. Types'
  BY <1>1 DEF Types, Statuses
<1>3. TakenInv'
  <2>1. Taken' = {}
    BY <1>1 DEF Taken
  <2> QED BY <2>1, FS_EmptySet, BoundAssumption DEF TakenInv
<1>4. ASSUME NEW id \in Ids PROVE TextInv(id)'
  <2>1. TextInv(id) /\ receipts'[id] = "none"
    BY <1>1 DEF SteerInv
  <2> QED BY <1>1, <2>1 DEF TextInv, Rounds
<1>5. NoteInv' /\ TurnInv'
  BY <1>1 DEF SteerInv, NoteInv, TurnInv
<1> QED BY <1>2, <1>3, <1>4, <1>5 DEF SteerInv

LEMMA Beginning ==
  ASSUME Init
  PROVE  SteerInv
<1>1. Types
  <2>1. cut \in BOOLEAN /\ open \in BOOLEAN
    BY DEF Init
  <2> QED BY <2>1, BoundAssumption DEF Init, Types, Statuses, Rounds
<1>2. TakenInv
  <2>1. Taken = {}
    BY DEF Init, Taken
  <2> QED BY <2>1, FS_EmptySet, BoundAssumption DEF TakenInv
<1>3. \A id \in Ids : TextInv(id)
  BY DEF Init, TextInv
<1>4. NoteInv /\ TurnInv
  <2>1. Note \in Ids
    BY DEF Ids
  <2> QED BY <2>1, BoundAssumption DEF Init, NoteInv, TurnInv
<1> QED BY <1>1, <1>2, <1>3, <1>4 DEF SteerInv

LEMMA Inductive ==
  ASSUME SteerInv, [Next]_vars
  PROVE  SteerInv'
<1>1. CASE UNCHANGED vars
  <2>1. UNCHANGED <<receipts, file, open, told, turn, round, cut, context, sent,
                    typed, steered, queue, faults>>
    BY <1>1 DEF vars
  <2>2. Types'
    BY <2>1 DEF SteerInv, Types
  <2>3. TakenInv'
    BY <2>1, SameTaken DEF SteerInv
  <2> QED BY <2>1, <2>2, <2>3 DEF SteerInv, TextInv, NoteInv, TurnInv
<1> QED BY <1>1, SteerKeeps, StepKeeps, TypedKeeps, CrashKeeps DEF Next

(* In every reachable state each text's receipt, file, messages and        *)
(* requests fit together.                                                  *)
THEOREM SteerInvariant == Spec => []SteerInv
<1>1. Init => SteerInv
  BY Beginning
<1>2. SteerInv /\ [Next]_vars => SteerInv'
  BY Inductive
<1> QED BY <1>1, <1>2, PTL DEF Spec

(* What the inbox, and the receipt file after a crash, say of a text is    *)
(* what happened to it, and no text is in the messages twice.              *)
THEOREM ReceiptsAreHonest == Spec => []ReceiptsHonest
<1>1. SteerInv => ReceiptsHonest
  <2> SUFFICES ASSUME SteerInv PROVE ReceiptsHonest
    OBVIOUS
  <2>1. Taken = Ids \ With("none")
    BY DEF Taken, With
  <2>2. TypeOK
    BY <2>1 DEF SteerInv, Types, TakenInv, TypeOK, Rounds
  <2>3. StatusHonest
    BY DEF SteerInv, TextInv, StatusHonest
  <2>4. FileHonest
    <3>1. Corrections \subseteq Ids
      BY DEF Ids
    <3> QED BY <3>1 DEF SteerInv, TextInv, FileHonest
  <2> QED BY <2>2, <2>3, <2>4 DEF ReceiptsHonest
<1> QED BY <1>1, SteerInvariant, PTL

(* A text whose receipt was given to its submitter stays in the file.      *)
THEOREM TextsAreKept == Spec => []TextIsKept
<1>1. SteerInv => TextIsKept
  BY DEF SteerInv, TextInv, TextIsKept
<1> QED BY <1>1, SteerInvariant, PTL

(* The request after a cut reply carries Dream's note.                     *)
THEOREM NoteIsCarried == Spec => []ContinuationCarriesNote
<1>1. SteerInv => ContinuationCarriesNote
  BY DEF SteerInv, NoteInv, ContinuationCarriesNote
<1> QED BY <1>1, SteerInvariant, PTL

(* A turn that ends in success has sent each correction it took.           *)
THEOREM SuccessIsComplete == Spec => []SuccessAnswersAll
<1>1. SteerInv => SuccessAnswersAll
  BY DEF SteerInv, TextInv, SuccessAnswersAll
<1> QED BY <1>1, SteerInvariant, PTL
=============================================================================
