--------------------------- MODULE ConversationRuns ---------------------------
(***************************************************************************)
(* One conversation of a registered customer: its row, its runs, public    *)
(* messages and events (sqlite_conversations.py), the background tasks     *)
(* that execute its runs (conversation_runtime.py), the routes over it     *)
(* (web/routes/conversations.py), the event stream a client follows, and   *)
(* the start and the stop of the process (web/app.py).                     *)
(*                                                                         *)
(* Each repository method is one transaction.  What a route does before    *)
(* and after one is a step of its own, and so is everything that touches   *)
(* the checkpoint database or the memory of the process.  The graph is     *)
(* seen from outside: what it leaves in the checkpoint is an end or one of *)
(* its interrupts.  The graph of refunds is RefundApproval.                *)
(***************************************************************************)
EXTENDS Naturals, SequencesExt

CONSTANTS
  ClientKeys,     \* client_request_ids of messages and retries
  DecisionKeys,   \* the ids made from an action and a decision
  Texts,          \* what a customer may write
  OtherOrder,     \* the texts that name an order the conversation is not about
  Label,          \* the text of a decision's or a retry's message row
  Followed,       \* the runs whose events the client may follow
  OldRoute,       \* the texts sent through POST /chat/messages, which answers at once
  MaxRuns,        \* bound: runs of the conversation
  MaxOldRoute     \* bound: requests of the old route

ASSUME ConversationAssumption ==
  /\ {MaxRuns, MaxOldRoute} \subseteq Nat
  /\ ClientKeys \cap DecisionKeys = {}
  /\ OtherOrder \cup OldRoute \subseteq Texts
  /\ Label \notin Texts

VARIABLES
  lifecycle,      \* conversations.lifecycle_status
  pending,        \* conversations.pending_action
  runs,           \* agent_runs, in the order of their acceptance
  messages,       \* conversation_messages, by sequence_no
  events,         \* agent_run_events: for each run its event keys, in order
  checkpoint,     \* the interrupt the thread's checkpoint is at, "none"
                  \* without a checkpoint, "end" when it is at no interrupt
  task,           \* run -> its background task
  lock,           \* the thread lock: the run that holds it, Direct, or 0
  asked,          \* decisions that passed the checks of their route
  underway,       \* archive and delete requests, at the step they reached
  doomed,         \* the run the shutdown found active, or 0
  server,         \* "up", or "stopping" after the grace period
  stream,         \* one client's event stream
  direct          \* one request of the old route, in the process

rows  == <<lifecycle, pending, runs, messages, events>>
vars  == <<rows, checkpoint, task, lock, asked, underway, doomed, server, stream, direct>>
outside == <<stream, direct>>

Ids == 1..MaxRuns
Direct == MaxRuns + 1

ActiveRuns    == {"accepted", "running"}
ClosedRuns    == {"waiting_action", "completed", "failed", "interrupted"}
Interrupts    == {"user_input", "confirm"}    \* confirm: every other interrupt
RunEvents     == {"accepted", "started", "step", "message-completed", "terminal"}

-----------------------------------------------------------------------------
(* Rows                                                                    *)

Active == {r \in DOMAIN runs : runs[r].status \in ActiveRuns}

ByKey(key) == {r \in DOMAIN runs : runs[r].key = key}

Message(r, role, content) == [run |-> r, role |-> role, content |-> content]

Answered(r) == \E i \in DOMAIN messages : messages[i].run = r /\ messages[i].role = "assistant"

(* _append_event: keyed, so the second of a kind is not written.           *)
Keyed(told, key) == IF Contains(told, key) THEN told ELSE Append(told, key)

Tell(r, key) == [events EXCEPT ![r] = Keyed(@, key)]

(* accept_chat_message and accept_action, once nothing speaks against it.  *)
NoOneActive == Active = {}

IsOpen_Unchecked == lifecycle # "deleted"   \* mutant: not gone is open
IsOpen == lifecycle = "active"

AcceptAs(key, kind, content, text, phase) ==
  LET r == Len(runs) + 1
  IN /\ r <= MaxRuns
     /\ IsOpen
     /\ ByKey(key) = {}
     /\ NoOneActive
     /\ runs' = Append(runs, [key |-> key, kind |-> kind, text |-> text,
                              status |-> "accepted"])
     /\ messages' = Append(messages, Message(r, "user", content))
     /\ events' = Append(events, <<"accepted">>)
     /\ task' = [task EXCEPT ![r] = phase]
     /\ UNCHANGED <<lifecycle, pending, checkpoint, lock, underway, doomed, server, stream>>

Accept(key, kind, content, text) ==
  AcceptAs(key, kind, content, text, "queued") /\ UNCHANGED direct

(* The assistant's message of complete_run and of fail_run: one for a run. *)
AnswersAgain(r) == Append(messages, Message(r, "assistant", Label))  \* mutant: not looked up
Answers(r) == IF Answered(r) THEN messages ELSE Append(messages, Message(r, "assistant", Label))

(* complete_run, whatever the status of the run.                           *)
CompleteRun(r, action) ==
  /\ r \in DOMAIN runs
  /\ runs' = [runs EXCEPT ![r].status = IF action = "none" THEN "completed"
                                        ELSE "waiting_action"]
  /\ pending' = action
  /\ messages' = Answers(r)
  /\ events' = [events EXCEPT ![r] = Keyed(Keyed(@, "message-completed"), "terminal")]
  /\ UNCHANGED lifecycle

(* fail_run: the pending action of the conversation stays.                 *)
FailRun_Unanswered(r, status) ==    \* mutant: no assistant message
  /\ r \in DOMAIN runs
  /\ runs' = [runs EXCEPT ![r].status = status]
  /\ events' = Tell(r, "terminal")
  /\ UNCHANGED <<lifecycle, pending, messages>>

FailRun(r, status) ==
  /\ r \in DOMAIN runs
  /\ runs' = [runs EXCEPT ![r].status = status]
  /\ messages' = Answers(r)
  /\ events' = Tell(r, "terminal")
  /\ UNCHANGED <<lifecycle, pending>>

-----------------------------------------------------------------------------
(* Requests                                                                *)

SubmitMessage(key, text) ==
  /\ server = "up"
  /\ pending \in {"none", "user_input"}
  /\ Accept(key, "chat_message", text, text)
  /\ UNCHANGED asked

(* retry_run: the graph gets the text of the message row of the run that   *)
(* failed.                                                                 *)
MessageOf(r) == messages[CHOOSE i \in DOMAIN messages :
                           messages[i].run = r /\ messages[i].role = "user"].content

RetryRun(key, r) ==
  /\ server = "up"
  /\ runs[r].status \in {"failed", "interrupted"}
  /\ Accept(key, "retry", Label, MessageOf(r))
  /\ UNCHANGED asked

(* A decision: the route looks for the interrupt, and accept_action for    *)
(* anything else.                                                          *)
AskDecision(key) ==
  /\ server = "up"
  /\ checkpoint = "confirm"
  /\ asked' = asked \cup {key}
  /\ UNCHANGED <<rows, checkpoint, task, lock, underway, doomed, server, outside>>

AcceptDecision(key) ==
  /\ key \in asked
  /\ asked' = asked \ {key}
  /\ \/ Accept(key, "decision", Label, Label)
     \/ /\ ~IsOpen \/ ByKey(key) # {} \/ ~NoOneActive
        /\ UNCHANGED <<rows, checkpoint, task, lock, underway, doomed, server, outside>>

-----------------------------------------------------------------------------
(* A run in the background                                                 *)

Moved(r, phase) == task' = [task EXCEPT ![r] = phase]

(* The thread lock; mark_run_started leaves any status but accepted.       *)
StartRun(r) ==
  /\ task[r] = "queued" /\ r \in DOMAIN runs
  /\ \/ /\ lock = 0
        /\ lock' = r
        /\ Moved(r, "running")
        /\ runs' = [runs EXCEPT ![r].status = IF @ = "accepted" THEN "running" ELSE @]
        /\ events' = Tell(r, "started")
        /\ UNCHANGED <<lifecycle, pending, messages>>
     \/ /\ lock # 0
        /\ FailRun(r, "failed")
        /\ Moved(r, "none")
        /\ UNCHANGED lock
  /\ UNCHANGED <<checkpoint, asked, underway, doomed, server, outside>>

(* A message about another order is answered without the graph.            *)
Mismatch(r) ==
  /\ task[r] = "running" /\ r \in DOMAIN runs
  /\ runs[r].kind # "decision"
  /\ runs[r].text \in OtherOrder
  /\ CompleteRun(r, "none")
  /\ Moved(r, "leaving")
  /\ UNCHANGED <<checkpoint, lock, asked, underway, doomed, server, outside>>

(* Nodes are executed: the interrupt the thread was at, if any, is         *)
(* consumed or dropped, and steps are published.                           *)
ExecuteNodes(r) ==
  /\ task[r] = "running" /\ r \in DOMAIN runs
  /\ runs[r].kind = "decision" \/ runs[r].text \notin OtherOrder
  /\ checkpoint' = "end"
  /\ Moved(r, "executing")
  /\ events' = Tell(r, "step")
  /\ UNCHANGED <<lifecycle, pending, runs, messages, lock, asked, underway, doomed, server,
                 outside>>

(* The graph stops at its end or at an interrupt.                          *)
StopGraph(r) ==
  /\ task[r] = "executing"
  /\ Moved(r, "stopped")
  /\ checkpoint' \in Interrupts \cup {"end"}
  /\ UNCHANGED <<rows, lock, asked, underway, doomed, server, outside>>

PendingAction == IF checkpoint \in Interrupts THEN checkpoint ELSE "none"

Finish(r) ==
  /\ task[r] = "stopped"
  /\ CompleteRun(r, PendingAction)
  /\ Moved(r, "leaving")
  /\ UNCHANGED <<checkpoint, lock, asked, underway, doomed, server, outside>>

(* Whatever raises under the lock, the projection of the result included.  *)
Raise(r) ==
  /\ task[r] \in {"running", "executing", "stopped"}
  /\ FailRun(r, "failed")
  /\ Moved(r, "leaving")
  /\ UNCHANGED <<checkpoint, lock, asked, underway, doomed, server, outside>>

(* The lock is released behind the last commit.                            *)
Leave(r) ==
  /\ task[r] = "leaving"
  /\ lock' = 0
  /\ Moved(r, "none")
  /\ UNCHANGED <<rows, checkpoint, asked, underway, doomed, server, outside>>

-----------------------------------------------------------------------------
(* The old route, send_chat_message: the graph first, in the request and   *)
(* under the thread lock, the public rows behind it.  It looks neither at  *)
(* conversations.lifecycle_status nor at conversations.pending_action.     *)

NoDirect(n) ==
  [phase |-> "none", text |-> Label, resumes |-> FALSE, run |-> 0, action |-> "none", count |-> n]
Goes(phase) == direct' = [direct EXCEPT !.phase = phase]

\* An interrupt that waits for a decision is answered 409.  A resumed case
\* records the exchange under the lock, any other message behind it.
BeginDirect(text) ==
  /\ server = "up" /\ direct.phase = "none" /\ direct.count < MaxOldRoute
  /\ lock = 0
  /\ checkpoint # "confirm"
  /\ lock' = Direct
  /\ direct' = [NoDirect(direct.count + 1) EXCEPT !.phase = "running", !.text = text,
                               !.resumes = checkpoint = "user_input"]
  /\ UNCHANGED <<rows, checkpoint, task, asked, underway, doomed, server, stream>>

\* What the graph leaves in the checkpoint is not looked at before it stops.
DirectGraph ==
  /\ direct.phase = "running"
  /\ checkpoint' \in Interrupts \cup {"end"}
  /\ direct' = [direct EXCEPT !.phase = "stopped", !.action = PendingAction']
  /\ lock' = IF direct.resumes THEN lock ELSE 0
  /\ UNCHANGED <<rows, task, asked, underway, doomed, server, stream>>

\* _persist_legacy_exchange, with an id of its own: three transactions.
DirectAccept ==
  /\ direct.phase = "stopped" /\ pending \in {"none", "user_input"}
  /\ AcceptAs(<<"legacy", Len(runs) + 1>>, "chat_message", direct.text, direct.text, "none")
  /\ direct' = [direct EXCEPT !.phase = "accepted", !.run = Len(runs')]
  /\ UNCHANGED asked

DirectStart ==
  /\ direct.phase = "accepted" /\ Goes("started")
  /\ runs' = [runs EXCEPT ![direct.run].status = IF @ = "accepted" THEN "running" ELSE @]
  /\ events' = Tell(direct.run, "started")
  /\ UNCHANGED <<lifecycle, pending, messages, checkpoint, task, lock, asked, underway, doomed,
                 server, stream>>

DirectEnds ==
  /\ direct' = NoDirect(direct.count)
  /\ lock' = IF lock = Direct THEN 0 ELSE lock
  /\ UNCHANGED <<task, asked, underway, doomed, server, stream>>

DirectFinish ==
  /\ direct.phase = "started"
  /\ CompleteRun(direct.run, direct.action)
  /\ UNCHANGED checkpoint /\ DirectEnds

\* accept_chat_message refuses the message that the graph has answered already,
\* or the graph raises: nothing of the exchange is recorded.
DirectRefused ==
  /\ direct.phase = "stopped"
  /\ pending = "confirm" \/ ~IsOpen \/ ~NoOneActive
  /\ UNCHANGED <<rows, checkpoint>> /\ DirectEnds

DirectRaise ==
  /\ direct.phase = "running"
  /\ checkpoint' \in {checkpoint, "end"}
  /\ UNCHANGED rows /\ DirectEnds

-----------------------------------------------------------------------------
(* Archive and delete                                                      *)

Found == lifecycle \notin {"deleting", "deleted"}

CanDelete == server = "up" /\ Found /\ checkpoint \notin Interrupts

AskArchive ==
  /\ server = "up"
  /\ Found
  /\ checkpoint \notin Interrupts
  /\ underway' = underway \cup {"archive"}
  /\ UNCHANGED <<rows, checkpoint, task, lock, asked, doomed, server, outside>>

AskDelete ==
  /\ CanDelete
  /\ underway' = underway \cup {"delete"}
  /\ UNCHANGED <<rows, checkpoint, task, lock, asked, doomed, server, outside>>

(* set_lifecycle, which a request to un-archive reaches at once.           *)
SetLifecycle(status) ==
  /\ IF Found /\ Active = {} THEN lifecycle' = status ELSE UNCHANGED lifecycle
  /\ UNCHANGED <<pending, runs, messages, events, checkpoint, task, lock, asked, doomed,
                 server, outside>>

Archive ==
  /\ "archive" \in underway
  /\ underway' = underway \ {"archive"}
  /\ SetLifecycle("archived")

Unarchive ==
  /\ server = "up"
  /\ lifecycle = "archived"
  /\ SetLifecycle("active")
  /\ UNCHANGED underway

(* begin_delete: the row is looked at again, the checkpoint is not.        *)
MayBeginDelete_IgnoresRuns ==       \* mutant: no thread_busy
  lifecycle # "deleted" /\ pending = "none"
MayBeginDelete == lifecycle # "deleted" /\ pending = "none" /\ Active = {}

BeginDelete ==
  /\ "delete" \in underway
  /\ IF MayBeginDelete
     THEN /\ lifecycle' = "deleting"
          /\ underway' = (underway \ {"delete"}) \cup {"clear"}
     ELSE underway' = underway \ {"delete"} /\ UNCHANGED lifecycle
  /\ UNCHANGED <<pending, runs, messages, events, checkpoint, task, lock, asked, doomed,
                 server, outside>>

(* SqliteSaver.delete_thread.                                              *)
ClearCheckpoint ==
  /\ "clear" \in underway
  /\ underway' = (underway \ {"clear"}) \cup {"finish"}
  /\ checkpoint' = "none"
  /\ UNCHANGED <<rows, task, lock, asked, doomed, server, outside>>

(* finish_delete: messages and runs, and by their foreign key the events.  *)
FinishDelete ==
  /\ "finish" \in underway
  /\ underway' = underway \ {"finish"}
  /\ lifecycle' = "deleted"
  /\ pending' = "none"
  /\ runs' = <<>> /\ messages' = <<>> /\ events' = <<>>
  /\ UNCHANGED <<checkpoint, task, lock, asked, doomed, server, outside>>

(* Either of the two steps raises: conversation_deletion_incomplete.       *)
DeleteFails ==
  /\ underway \cap {"clear", "finish"} # {}
  /\ underway' = underway \ {"clear", "finish"}
  /\ UNCHANGED <<rows, checkpoint, task, lock, asked, doomed, server, outside>>

-----------------------------------------------------------------------------
(* stream_run_events: one client follows one run.                          *)

Reading == {"list", "check", "recheck"}

Follow(phase, seen) ==
  /\ stream' = [stream EXCEPT !.phase = phase, !.seen = seen]
  /\ UNCHANGED <<rows, checkpoint, task, lock, asked, underway, doomed, server, direct>>

OpenStream(r) ==
  /\ server = "up" /\ Found
  /\ stream.phase = "none"
  /\ r \in Followed
  /\ stream' = [run |-> r, phase |-> "list", seen |-> 0]
  /\ UNCHANGED <<rows, checkpoint, task, lock, asked, underway, doomed, server, direct>>

(* Last-Event-ID.                                                          *)
ReopenStream ==
  /\ server = "up" /\ Found
  /\ stream.phase = "broken" /\ stream.run \in DOMAIN runs
  /\ Follow("list", stream.seen)

BreakStream == stream.phase \in Reading /\ Follow("broken", stream.seen)

Unseen == stream.run \in DOMAIN runs /\ stream.seen < Len(events[stream.run])

ListEvents ==
  /\ stream.phase = "list"
  /\ Follow("check", IF Unseen THEN Len(events[stream.run]) ELSE stream.seen)

CheckRun_NotWaiting ==              \* mutant: waiting_action ends no stream
  /\ stream.phase = "check"
  /\ IF stream.run \in DOMAIN runs /\ runs[stream.run].status \in ActiveRuns \cup {"waiting_action"}
     THEN Follow("list", stream.seen)
     ELSE Follow("recheck", stream.seen)

CheckRun ==
  /\ stream.phase = "check"
  /\ IF stream.run \in DOMAIN runs /\ runs[stream.run].status \in ActiveRuns
     THEN Follow("list", stream.seen)
     ELSE Follow("recheck", stream.seen)

AfterRecheck_Closes == "closed"     \* mutant: the events are not listed again
AfterRecheck == IF Unseen THEN "list" ELSE "closed"

RecheckEvents == stream.phase = "recheck" /\ Follow(AfterRecheck, stream.seen)

-----------------------------------------------------------------------------
(* The process                                                             *)

Cut == IF stream.phase \in Reading THEN [stream EXCEPT !.phase = "broken"] ELSE stream

(* The end of the grace period, in which requests are taken to finish:     *)
(* streams are cut, background tasks are threads and go on.                *)
(* interrupt_unfinished_runs lists the runs, then interrupts each of them. *)
Shutdown ==
  /\ server = "up" /\ asked = {} /\ underway = {}
  /\ server' = "stopping"
  /\ doomed' = IF Active = {} THEN 0 ELSE CHOOSE r \in Active : TRUE
  /\ stream' = Cut
  /\ UNCHANGED <<rows, checkpoint, task, lock, asked, underway, direct>>

InterruptRun ==
  /\ doomed # 0
  /\ FailRun(doomed, "interrupted")
  /\ doomed' = 0
  /\ UNCHANGED <<checkpoint, task, lock, asked, underway, server, outside>>

(* The process ends, at any point, and starts again.                       *)
Restart ==
  /\ IF Active = {} THEN UNCHANGED rows ELSE \E r \in Active : FailRun(r, "interrupted")
  /\ task' = [r \in Ids |-> "none"]
  /\ lock' = 0 /\ doomed' = 0
  /\ asked' = {} /\ underway' = {}
  /\ server' = "up"
  /\ stream' = Cut
  /\ direct' = NoDirect(direct.count)
  /\ UNCHANGED checkpoint

-----------------------------------------------------------------------------
Init ==
  /\ lifecycle = "active" /\ pending = "none"
  /\ runs = <<>> /\ messages = <<>> /\ events = <<>>
  /\ checkpoint = "none"
  /\ task = [r \in Ids |-> "none"]
  /\ lock = 0 /\ doomed = 0
  /\ asked = {} /\ underway = {}
  /\ server = "up"
  /\ stream = [run |-> 0, phase |-> "none", seen |-> 0]
  /\ direct = NoDirect(0)

Request ==
  \/ \E key \in ClientKeys : \/ \E text \in Texts : SubmitMessage(key, text)
                             \/ \E r \in DOMAIN runs : RetryRun(key, r)
  \/ \E key \in DecisionKeys : AskDecision(key) \/ AcceptDecision(key)
  \/ AskArchive \/ Archive \/ Unarchive
  \/ AskDelete \/ BeginDelete \/ ClearCheckpoint \/ FinishDelete \/ DeleteFails

Background(r) ==
  StartRun(r) \/ Mismatch(r) \/ ExecuteNodes(r) \/ StopGraph(r) \/ Finish(r) \/ Leave(r)

DirectStep ==
  DirectGraph \/ DirectAccept \/ DirectRefused \/ DirectStart \/ DirectFinish

Stream == ListEvents \/ CheckRun \/ RecheckEvents

Next ==
  \/ Request
  \/ \E r \in Ids : Background(r) \/ Raise(r)
  \/ \E text \in OldRoute : BeginDirect(text)
  \/ DirectStep \/ DirectRaise
  \/ Stream \/ BreakStream \/ ReopenStream \/ \E r \in DOMAIN runs : OpenStream(r)
  \/ Shutdown \/ InterruptRun \/ Restart

Spec == Init /\ [][Next]_vars

(* Tasks and requests run to their end, and a connected client polls.      *)
FairSpec ==
  /\ Spec
  /\ \A r \in Ids : WF_vars(Background(r))
  /\ WF_vars(Stream)
  /\ WF_vars(DirectStep)

-----------------------------------------------------------------------------
(* Type invariant of the conversation.                                     *)
TypeOK ==
  /\ lifecycle \in {"active", "archived", "deleting", "deleted"}
  /\ pending \in {"none"} \cup Interrupts
  /\ runs \in Seq([key : ClientKeys \cup DecisionKeys \cup ({"legacy"} \X Ids),
                   kind : {"chat_message", "decision", "retry"},
                   text : Texts \cup {Label}, status : ActiveRuns \cup ClosedRuns])
  /\ messages \in Seq([run : DOMAIN runs, role : {"user", "assistant"},
                       content : Texts \cup {Label}])
  /\ events \in [DOMAIN runs -> Seq(RunEvents)]
  /\ checkpoint \in {"none", "end"} \cup Interrupts
  /\ task \in [Ids -> {"none", "queued", "running", "executing", "stopped", "leaving"}]
  /\ lock \in Ids \cup {0, Direct}
  /\ direct.phase \in {"none", "running", "stopped", "accepted", "started"}
  /\ asked \subseteq DecisionKeys
  /\ underway \subseteq {"archive", "delete", "clear", "finish"}
  /\ doomed \in Ids \cup {0}
  /\ server \in {"up", "stopping"}
  /\ stream \in [run : Ids \cup {0}, seen : Nat,
                 phase : Reading \cup {"none", "broken", "closed"}]

(* The public history is a sequence of turns: the message of each run in   *)
(* the order of acceptance, each followed by its one answer, whatever was  *)
(* retried, interrupted, answered twice or accepted meanwhile.             *)
HistoryIsTurns ==
  \A i \in DOMAIN messages :
    /\ messages[i].role = (IF i % 2 = 1 THEN "user" ELSE "assistant")
    /\ messages[i].run = (i + 1) \div 2

(* A run has ended exactly when its terminal event and its answer are      *)
(* there, so a client never waits for an event that will not come.         *)
EndIsTold ==
  \A r \in DOMAIN runs :
    /\ runs[r].status \in ClosedRuns <=> Contains(events[r], "terminal")
    /\ runs[r].status \in ClosedRuns <=> Answered(r)

(* No run is active in a conversation that is archived, being deleted, or  *)
(* deleted: neither side forgets to look at the other.                     *)
ClosedIsQuiet == lifecycle # "active" => Active = {}

(* A deleted conversation keeps nothing, and nothing comes back: no graph  *)
(* that was still running writes a checkpoint or a message after it.       *)
DeletedIsEmpty ==
  lifecycle = "deleted" =>
    /\ runs = <<>> /\ messages = <<>> /\ events = <<>>
    /\ checkpoint = "none" /\ pending = "none"
    /\ \A r \in Ids : task[r] \in {"none", "leaving"}

(* A stream that was closed by the server has delivered the end of its     *)
(* run, unless the conversation was deleted under it.                      *)
StreamIsComplete ==
  stream.phase = "closed" /\ stream.run \in DOMAIN runs =>
    Contains(SubSeq(events[stream.run], 1, stream.seen), "terminal")

(* A connected client is not kept polling for ever.                        *)
StreamsEnd == (stream.phase \in Reading) ~> (stream.phase \notin Reading)

=============================================================================
