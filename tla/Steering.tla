------------------------------ MODULE Steering ------------------------------
(***************************************************************************)
(* Corrections an owner sends into a running chat turn: SteeringInbox      *)
(* (dream/core/steering.py), the turn that uses them (_ask of the HTTP     *)
(* backend), and the terminal that hands over what is typed while the turn *)
(* works (_send_typed, _take_typed of dream/tui/app.py).                   *)
(*                                                                         *)
(* Every inbox operation holds one asyncio lock from its first read to its *)
(* last assignment and a cancelled caller waits for its storage call       *)
(* (finish_owned), so an operation is one step with several outcomes.      *)
(* What is not atomic is the turn around it: a correction, a stop, a       *)
(* failing save or the end of the process may come between any two steps.  *)
(*                                                                         *)
(* A save replaces the whole receipt file.  It may fail before the         *)
(* replacement (the file keeps its old contents) or after it, in the       *)
(* directory fsync (the file has the new contents, the caller an error).   *)
(*                                                                         *)
(* One turn is modelled, with at most one reply cut at the output ceiling. *)
(* Texts are their receipt identities.                                     *)
(***************************************************************************)
EXTENDS Naturals, FiniteSets

CONSTANTS
  Corrections,   \* receipt identities of the owner's corrections
  Note,          \* identity of Dream's own note after a cut reply
  MaxReceipts,   \* 32 in the code: receipts of one turn
  MaxRounds,     \* _MAX_TOOL_ROUNDS: lead requests of one turn
  MaxFaults      \* bound on storage and logging failures

ASSUME NoteAssumption == Note \notin Corrections
ASSUME BoundAssumption == /\ MaxReceipts \in Nat
                          /\ MaxRounds \in Nat \ {0}
                          /\ MaxFaults \in Nat

VARIABLES
  receipts,   \* status of each receipt in the inbox's memory
  file,       \* status of each receipt in the .steering.json file
  open,       \* the inbox takes corrections
  told,       \* the status its submitter was first told
  turn,       \* where _ask is
  round,      \* lead requests begun
  cut,        \* history: a reply was cut, so the requests from then on are to
              \* carry Dream's note; bounds the cut replies to one
  context,    \* how often each text stands in the messages of the chat
  sent,       \* texts in a request whose response opened
  typed,      \* corrections typed at the terminal during the turn
  steered,    \* _typed_steered: those the inbox took
  queue,      \* _typed_queue: texts for the next prompt
  faults      \* failures so far

inbox == <<receipts, file, open, told>>
terminal == <<typed, steered, queue>>
vars == <<receipts, file, open, told, turn, round, cut, context, sent,
          typed, steered, queue, faults>>

Ids == Corrections \cup {Note}

Statuses == {"none", "pending", "included", "submitted", "retained"}

With(status) == {id \in Ids : receipts[id] = status}

\* The receipts with those of a set moved to another status.
Moved(ids, status) == [id \in Ids |-> IF id \in ids THEN status ELSE receipts[id]]

Init ==
  /\ receipts = [id \in Ids |-> "none"]
  /\ file = [id \in Ids |-> "none"]
  /\ open = TRUE
  /\ told = [id \in Ids |-> "none"]
  /\ turn = "top"
  /\ round = 0
  /\ cut = FALSE
  /\ context = [id \in Ids |-> 0]
  /\ sent = {}
  /\ typed = {} /\ steered = {} /\ queue = {}
  /\ faults = 0

Alive == turn # "dead"

-----------------------------------------------------------------------------
(* The receipt file. *)

Fail == faults < MaxFaults /\ faults' = faults + 1

\* Mutant: the file is written in place, so a failure can leave it empty.
SaveFailsInPlace(staged) == Fail /\ file' \in {[id \in Ids |-> "none"], staged}

SaveFails(staged) == Fail /\ file' \in {file, staged}

Saved(staged) == file' = staged /\ UNCHANGED faults

-----------------------------------------------------------------------------
(* A correction arrives. *)

Room(id) ==
  /\ Alive /\ receipts[id] = "none"
  /\ open
  /\ Cardinality(Ids \ With("none")) < MaxReceipts

\* The receipt is saved first; then the session log and the receipt are
\* updated.  An unlogged correction is retained, and so is one whose second
\* save fails, whatever the file then says.
Accept(id) ==
  /\ Room(id)
  /\ \/ /\ Saved(Moved({id}, "pending"))
        /\ receipts' = Moved({id}, "pending")
     \/ /\ Fail
        /\ file' \in {Moved({id}, "pending"), Moved({id}, "retained")}
        /\ receipts' = Moved({id}, "retained")
  /\ told' = [told EXCEPT ![id] = receipts'[id]]
  /\ UNCHANGED open

\* The first save fails: the submitter gets an error and may try again.
NotAccepted(id) ==
  /\ Room(id)
  /\ SaveFails(Moved({id}, "pending"))
  /\ UNCHANGED <<receipts, open, told>>

\* The browser's Steer button, and Dream's progress guard.
Steer(id) ==
  /\ id \notin typed
  /\ Accept(id) \/ NotAccepted(id)
  /\ UNCHANGED <<turn, round, cut, context, sent, terminal>>

\* Enter at the terminal: into the turn, or else the next prompt.  Only a
\* refusal is caught; a storage error leaves the text nowhere.
Type(id) ==
  /\ Alive /\ id \notin typed /\ receipts[id] = "none"
  /\ typed' = typed \cup {id}
  /\ \/ Accept(id) /\ steered' = steered \cup {id} /\ UNCHANGED queue
     \/ NotAccepted(id) /\ UNCHANGED <<steered, queue>>
     \/ ~Room(id) /\ queue' = queue \cup {id} /\ UNCHANGED <<inbox, steered, faults>>
  /\ UNCHANGED <<turn, round, cut, context, sent>>

-----------------------------------------------------------------------------
(* The turn. *)

Stays(next) == turn' = next /\ UNCHANGED <<sent, terminal>>

\* Mutant: what was drained is assigned before, and without, the save.
DrainUnsaved ==
  LET pending == With("pending")
  IN  /\ receipts' = Moved(pending, "included")
      /\ context' = [id \in Ids |-> context[id] + IF id \in pending THEN 1 ELSE 0]
      /\ UNCHANGED <<told, file, faults>>

\* Saved corrections join the messages once the file says so.
Drain ==
  LET pending == With("pending")
  IN  /\ IF pending = {} THEN UNCHANGED <<file, faults>> ELSE Saved(Moved(pending, "included"))
      /\ receipts' = Moved(pending, "included")
      /\ context' = [id \in Ids |-> context[id] + IF id \in pending THEN 1 ELSE 0]
      /\ UNCHANGED told

\* The save fails, or the turn is stopped while it runs and it completes.
DrainBroken ==
  LET staged == Moved(With("pending"), "included")
  IN  /\ With("pending") # {}
      /\ SaveFails(staged) \/ Saved(staged)
      /\ Stays("ending")
      /\ UNCHANGED <<receipts, open, told, context>>

\* close(): what was not submitted is retained.  A failed save leaves memory
\* as it was, but the inbox shut.
Unsubmitted == With("pending") \cup With("included")

Close ==
  /\ IF Unsubmitted = {} THEN UNCHANGED <<file, faults>> ELSE Saved(Moved(Unsubmitted, "retained"))
  /\ receipts' = Moved(Unsubmitted, "retained")
  /\ open' = FALSE
  /\ UNCHANGED told

CloseBroken ==
  /\ Unsubmitted # {} /\ SaveFails(Moved(Unsubmitted, "retained"))
  /\ open' = FALSE
  /\ UNCHANGED <<receipts, told>>

\* A round: pending corrections first, then the request.
BeginRound ==
  /\ turn = "top"
  /\ \/ Drain /\ Stays("send") /\ UNCHANGED open
     \/ DrainBroken
  /\ round' = round + 1
  /\ UNCHANGED cut

\* The context is at the owner's limit: no request, but what earlier rounds
\* found is salvaged.
ContextStop ==
  /\ turn = "send"
  /\ \/ Close /\ Stays(IF round > 1 THEN "salvage" ELSE "ending")
     \/ CloseBroken /\ Stays("ending")
  /\ UNCHANGED <<round, cut, context>>

InContext == {id \in Ids : context[id] > 0}

Opens(next) ==
  /\ sent' = sent \cup InContext
  /\ turn' = next
  /\ UNCHANGED <<inbox, round, cut, context, terminal, faults>>

RequestOpens == turn = "send" /\ Opens("opened")

\* submitted(): a request went out even if saving that fails.
RecordSubmitted ==
  /\ turn = "opened"
  /\ LET staged == Moved(With("included"), "submitted")
     IN  /\ receipts' = staged
         /\ \/ With("included") = {} /\ UNCHANGED <<file, faults>> /\ Stays("reply")
            \/ With("included") # {} /\ Saved(staged) /\ Stays("reply")
            \/ With("included") # {} /\ SaveFails(staged) /\ Stays("ending")
  /\ UNCHANGED <<open, told, round, cut, context>>

Last == round = MaxRounds

\* The reply's tool batch has settled.
NextRound ==
  /\ turn = "reply"
  /\ Stays(IF Last THEN "cap" ELSE "top")
  /\ UNCHANGED <<inbox, round, cut, context, faults>>

AddNote == context' = [context EXCEPT ![Note] = @ + 1]

\* Mutant: a note the inbox refuses is dropped.
CutReplyDropping ==
  /\ turn = "reply" /\ ~Last /\ ~cut
  /\ \/ /\ Accept(Note)
        /\ IF receipts'[Note] = "pending" THEN UNCHANGED context ELSE AddNote
        /\ Stays("top")
     \/ ~Room(Note) /\ UNCHANGED <<inbox, context, faults>> /\ Stays("top")
     \/ NotAccepted(Note) /\ UNCHANGED context /\ Stays("ending")
  /\ cut' = TRUE
  /\ UNCHANGED round

\* The reply was cut at the output ceiling: Dream asks for smaller pieces,
\* through the inbox if that will hand the note to the next request.
CutReply ==
  /\ turn = "reply" /\ ~Last /\ ~cut
  /\ \/ /\ Accept(Note)
        /\ IF receipts'[Note] = "pending" THEN UNCHANGED context ELSE AddNote
        /\ Stays("top")
     \/ ~Room(Note) /\ AddNote /\ UNCHANGED <<inbox, faults>> /\ Stays("top")
     \/ NotAccepted(Note) /\ UNCHANGED context /\ Stays("ending")
  /\ cut' = TRUE
  /\ UNCHANGED round

\* Mutant: with nothing pending, the inbox stays open.
AnswerLeftOpen ==
  /\ turn = "reply" /\ ~Last
  /\ Drain /\ Stays(IF With("pending") = {} THEN "finished" ELSE "top") /\ UNCHANGED open
  /\ UNCHANGED <<round, cut>>

\* The reply is an answer.  A correction that came during it gets another
\* round while there is one; otherwise the intake closes in the same step.
Answer ==
  /\ turn = "reply" /\ ~Last
  /\ \/ /\ Drain
        /\ IF With("pending") = {} THEN Stays("finished") /\ open' = FALSE
                                   ELSE Stays("top") /\ UNCHANGED open
     \/ DrainBroken
  /\ UNCHANGED <<round, cut>>

\* An answer in the last round is a success only if it left nothing over.
LastAnswer ==
  /\ turn = "reply" /\ Last
  /\ \/ Close /\ Stays(IF \E id \in Ids : receipts'[id] = "retained" THEN "cap" ELSE "finished")
     \/ CloseBroken /\ Stays("ending")
  /\ UNCHANGED <<round, cut, context>>

\* The loop guard, or the round limit.
EndInSalvage ==
  /\ turn \in {"reply", "cap"}
  /\ \/ Close /\ Stays("salvage")
     \/ CloseBroken /\ Stays("ending")
  /\ UNCHANGED <<round, cut, context>>

\* One last request over the same messages, with no tools.
SalvageOpens == turn = "salvage" /\ Opens("ending")

\* A stop by the owner, or a failed request or stream.
EndEarly ==
  /\ turn \in {"top", "send", "opened", "reply", "salvage"}
  /\ Stays("ending")
  /\ UNCHANGED <<inbox, round, cut, context, faults>>

\* Mutant: an inbox that is shut already is taken for settled.
EngineCloseIfOpen ==
  /\ turn \in {"ending", "finished"}
  /\ \/ open /\ Close /\ Stays("done")
     \/ open /\ CloseBroken /\ Stays("unsealed")
     \/ ~open /\ Stays("done") /\ UNCHANGED <<inbox, faults>>
  /\ UNCHANGED <<round, cut, context>>

\* Engine.ask's finally.
EngineClose ==
  /\ turn \in {"ending", "finished"}
  /\ \/ Close /\ Stays("done")
     \/ CloseBroken /\ Stays("unsealed")
  /\ UNCHANGED <<round, cut, context>>

\* Mutant: what was typed into the turn is not looked at again.
TakeTypedForgetful ==
  /\ turn \in {"done", "unsealed"} /\ steered # {}
  /\ steered' = {}
  /\ UNCHANGED <<inbox, turn, round, cut, context, sent, typed, queue, faults>>

\* After the turn: retained texts lead the queue for the next prompt.
TakeTyped ==
  /\ turn \in {"done", "unsealed"} /\ steered # {}
  /\ queue' = queue \cup (steered \cap With("retained"))
  /\ steered' = {}
  /\ UNCHANGED <<inbox, turn, round, cut, context, sent, typed, faults>>

\* The process ends: its memory is gone, and nothing reads the file back.
Crash ==
  /\ Alive
  /\ turn' = "dead" /\ open' = FALSE
  /\ receipts' = [id \in Ids |-> "none"]
  /\ steered' = {} /\ queue' = {}
  /\ UNCHANGED <<file, told, round, cut, context, sent, typed, faults>>

TurnStep ==
  \/ BeginRound \/ ContextStop \/ RequestOpens \/ RecordSubmitted
  \/ NextRound \/ CutReply \/ Answer \/ LastAnswer
  \/ EndInSalvage \/ SalvageOpens \/ EndEarly \/ EngineClose

Next ==
  \/ \E id \in Corrections : Steer(id) \/ Type(id)
  \/ TurnStep
  \/ TakeTyped
  \/ Crash

\* A turn goes on until it ends: every request of it has a read timeout.  The
\* prompt loop calls _take_typed after each turn.  Nobody has to correct it.
Fairness == WF_vars(TurnStep) /\ WF_vars(TakeTyped)

Spec == Init /\ [][Next]_vars /\ Fairness

-----------------------------------------------------------------------------
(* Properties.                                                             *)

\* Types, and the bounds of the code: no turn takes more receipts than
\* MaxReceipts or begins more lead requests than MaxRounds.
TypeOK ==
  /\ receipts \in [Ids -> Statuses] /\ file \in [Ids -> Statuses]
  /\ Cardinality(Ids \ With("none")) <= MaxReceipts
  /\ open \in BOOLEAN
  /\ told \in [Ids -> {"none", "pending", "retained"}]
  /\ turn \in {"top", "send", "opened", "reply", "cap", "salvage", "finished",
               "ending", "done", "unsealed", "dead"}
  /\ round \in 0 .. MaxRounds
  /\ cut \in BOOLEAN
  /\ context \in [Ids -> Nat]
  /\ sent \subseteq Ids
  /\ typed \subseteq Corrections /\ steered \subseteq typed /\ queue \subseteq typed
  /\ faults \in 0 .. MaxFaults

\* What a receipt says is what happened: a pending text is in no message, an
\* included one in exactly one, a submitted one in a request whose response
\* opened, and no text is ever in the messages twice, however saves fail
\* and the turn is stopped between draining and sending.
StatusHonest ==
  \A id \in Ids :
    /\ context[id] <= 1
    /\ receipts[id] = "pending" => context[id] = 0
    /\ receipts[id] = "included" => context[id] = 1
    /\ receipts[id] = "submitted" => id \in sent

\* What the file says can be relied on after a crash: "submitted" only of
\* what was sent, and "pending" of nothing a request has carried, so that an
\* owner who sends a pending text again does not send it twice.
FileHonest ==
  \A id \in Corrections :
    /\ file[id] = "submitted" => id \in sent
    /\ id \in sent => file[id] \in {"included", "submitted", "retained"}

\* Receipts are honest, in memory and in the file: what the inbox and an owner
\* who reads the file after a crash say of a text is what happened to it.
ReceiptsHonest == TypeOK /\ StatusHonest /\ FileHonest

\* A text whose receipt was given to its submitter stays in the file, through
\* failed saves of later operations and the end of the process.
TextIsKept == \A id \in Ids : told[id] # "none" => file[id] # "none"

\* The request after a cut reply carries Dream's note, whether the inbox took
\* it, took it without being able to hand it on (a retained receipt), or
\* refused it because its receipts are used up.
ContinuationCarriesNote == turn = "opened" /\ cut => Note \in sent

\* A turn ends in success only when each correction it took as pending was in
\* a request whose response opened: none slips in between the last look at
\* the inbox and its closing.
SuccessAnswersAll ==
  turn = "finished" => \A id \in Ids : told[id] = "pending" => id \in sent

\* A correction taken as pending ends as submitted or retained, unless the
\* process dies or the last save fails.
CorrectionsEnd ==
  \A id \in Corrections :
    told[id] = "pending" ~> \/ receipts[id] \in {"submitted", "retained"}
                           \/ turn \in {"dead", "unsealed"}

\* A text typed during a turn is sent in it or waits for the next prompt,
\* unless its first save failed, the process dies or the last save fails.
TypedIsUsed ==
  \A id \in Corrections :
    (id \in typed /\ told[id] # "none") ~> \/ id \in sent \cup queue
                                          \/ turn \in {"dead", "unsealed"}

\* "What was typed during the last turn and not taken into it ...: the next
\* prompt" (tui/app.py): a text that waits for the next prompt was in no
\* request of the turn.  The code breaks this.
TypedOnce == queue \cap sent = {}
=============================================================================
