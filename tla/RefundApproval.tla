---------------------------- MODULE RefundApproval ----------------------------
(***************************************************************************)
(* The refund approval of a conversation: the graph nodes of               *)
(* refund_workflow.py, the runs that drive them (conversation_runtime.py)  *)
(* and the approval route (web/routes/chat.py), over the tables of         *)
(* RefundLedger.                                                           *)
(*                                                                         *)
(* Three stores are written without a common transaction: the refund       *)
(* tables (RefundLedger), the run and conversation rows (run, input, gate, *)
(* decided, told) and the graph checkpoint (saved).  The graph a run       *)
(* executes is in memory (graph) and reaches the checkpoint behind the     *)
(* node that produced it; a restart finds what was saved.                  *)
(*                                                                         *)
(* A thread has one run at a time (uq_agent_runs_active_thread); run[t] is *)
(* its last one.  What a chat message that asks for no refund does in the  *)
(* rest of the graph is left out: such a run ends at once.  So are L2      *)
(* cases and the older synchronous chat route.                             *)
(***************************************************************************)
EXTENDS RefundLedger

CONSTANT
  Faulty     \* bound: the threads whose runs may fail; no restarts if there is none

ASSUME FaultyAssumption == Faulty \subseteq Tasks

VARIABLES
  graph,     \* thread -> [node, preview, status]: the state a run executes
  saved,     \* thread -> the same, in the checkpoint database
  run,       \* thread -> status of its last run
  input,     \* thread -> the decisions its last run resumes with: {} for a message
  failedRun, \* threads with a failed or interrupted run, hence one to retry
  gate,      \* thread -> conversation.pending_action
  decided,   \* pairs <<action, decision>> with an accepted request: the client ids
  asked,     \* <<thread, action, decision>> requests that passed the route's checks
  told       \* <<action, public status>> of the messages sent

flow    == <<graph, saved, run, input, failedRun, gate, decided, asked, told>>
appVars == <<vars, flow>>

Decisions  == {"approve", "reject"}
ActiveRuns == {"accepted", "running"}
Runs       == ActiveRuns \cup {"none", "completed", "waiting_action", "failed",
                              "interrupted"}
Nodes      == {"none", "ready", "start", "reserve", "await", "reject", "revalidate", "mark_stale",
               "execute", "verify", "end"}
Statuses   == {"none", "refund_ineligible", "refund_conflict",
               "refund_awaiting_approval", "refund_rejected",
               "refund_preview_stale", "refund_completed", "refund_failed",
               "refund_verification_failed"}

(* preview is {} or holds the preview the thread talks about.              *)
Graphs == [node : Nodes, preview : SUBSET Previews, status : Statuses]

Fresh(node) == [node |-> node, preview |-> {}, status |-> "none"]

Idle  == Fresh("none")     \* no background task
Ready == Fresh("ready")    \* a background task that has not loaded the graph

-----------------------------------------------------------------------------
(* What the approval route and the pending card read                       *)

Interrupted(t) == saved[t].node = "await"

(* The checkpoint waits for a decision on this action.                     *)
AwaitsDecision(t, a) ==
  Interrupted(t) /\ \E pv \in saved[t].preview : pv.action = a

Undecided(t, a) == Accessible(a, t) /\ action[a].status = "awaiting_approval"

(* The checks decide_refund makes before it accepts a decision.  An        *)
(* accepted id is answered with its run, whatever became of it.            *)
Decidable(t, a, d) ==
  /\ Undecided(t, a)
  /\ <<a, d>> \notin decided
  /\ AwaitsDecision(t, a)

-----------------------------------------------------------------------------
(* Requests                                                                *)

Begin(t, resume) ==
  /\ run[t] \notin ActiveRuns
  /\ run' = [run EXCEPT ![t] = "accepted"]
  /\ input' = [input EXCEPT ![t] = resume]
  /\ graph' = [graph EXCEPT ![t] = Ready]

(* submit_message: accept_chat_message refuses while a decision is         *)
(* pending in the conversation row.                                        *)
SubmitMessage(t) ==
  /\ gate[t] = "none"
  /\ Begin(t, {})
  /\ UNCHANGED <<vars, saved, failedRun, gate, decided, asked, told>>

(* retry_run: accept_action looks at the run only, and the text of the     *)
(* original message is a new message to the graph, a decision's included.  *)
RetryRun(t) ==
  /\ t \in failedRun
  /\ Begin(t, {})
  /\ UNCHANGED <<vars, saved, failedRun, gate, decided, asked, told>>

(* decide_refund, up to the checks.                                        *)
AskDecision(t, a, d) ==
  /\ Decidable(t, a, d)
  /\ asked' = asked \cup {<<t, a, d>>}
  /\ UNCHANGED <<vars, graph, saved, run, input, failedRun, gate, decided, told>>

(* accept_action, in its own transaction: it looks at the run rows again,  *)
(* and at nothing else the checks looked at.  An id accepted meanwhile is  *)
(* reused, an active run is thread_busy: both leave everything as it is.   *)
AcceptDecision(t, a, d) ==
  /\ <<t, a, d>> \in asked
  /\ asked' = asked \ {<<t, a, d>>}
  /\ IF <<a, d>> \in decided \/ run[t] \in ActiveRuns
     THEN UNCHANGED <<run, input, graph, decided>>
     ELSE /\ Begin(t, {<<a, d>>})
          /\ decided' = decided \cup {<<a, d>>}
  /\ UNCHANGED <<vars, saved, failedRun, gate, told>>

-----------------------------------------------------------------------------
(* A run in the background                                                 *)

(* mark_run_started; the graph is loaded from the checkpoint.  A message   *)
(* starts it over, a decision resumes it where the checkpoint stands.      *)
StartRun(t) ==
  /\ graph[t] = Ready
  /\ run' = [run EXCEPT ![t] = "running"]
  /\ graph' = [graph EXCEPT ![t] =
                 IF input[t] = {} THEN Fresh("start") ELSE saved[t]]
  /\ UNCHANGED <<vars, saved, input, failedRun, gate, decided, asked, told>>

(* fail_run: the last state the graph reached is in the checkpoint when    *)
(* the error leaves it, and the conversation row keeps its pending action. *)
Fails(t) ==
  /\ run' = [run EXCEPT ![t] = "failed"]
  /\ saved' = [saved EXCEPT ![t] = graph[t]]
  /\ graph' = [graph EXCEPT ![t] = Idle]
  /\ failedRun' = failedRun \cup {t}
  /\ UNCHANGED <<input, gate, decided, asked, told>>

(* A run may fail at any node, and before the graph is loaded: thread_busy, *)
(* the model's quota, a database error.                                    *)
FailRun(t) ==
  /\ t \in Faulty
  /\ \/ run[t] = "running" /\ Fails(t)
     \/ /\ graph[t] = Ready
        /\ run' = [run EXCEPT ![t] = "failed"]
        /\ graph' = [graph EXCEPT ![t] = Idle]
        /\ failedRun' = failedRun \cup {t}
        /\ UNCHANGED <<saved, input, gate, decided, asked, told>>
  /\ UNCHANGED vars

(* complete_run, when the graph stopped at its end or at the interrupt.    *)
(* What the message says is the status the last response node left.        *)
Pending(node) == IF node = "await" THEN "refund_approval" ELSE "none"

Stopped_Anywhere(t) == graph[t].node \in {"end", "await"}  \* mutant: never resumed
Stopped(t) == \/ graph[t].node = "end"
              \/ graph[t].node = "await" /\ input[t] = {}

CompleteRun(t) ==
  /\ run[t] = "running"
  /\ Stopped(t)
  /\ run' = [run EXCEPT ![t] = IF graph[t].node = "await" THEN "waiting_action"
                               ELSE "completed"]
  /\ gate' = [gate EXCEPT ![t] = Pending(graph[t].node)]
  /\ told' = told \cup {<<pv.action, graph[t].status>> : pv \in graph[t].preview}
  /\ saved' = [saved EXCEPT ![t] = graph[t]]
  /\ graph' = [graph EXCEPT ![t] = Idle]
  /\ UNCHANGED <<vars, input, failedRun, decided, asked>>

(* The checkpointer writes behind the running graph.                       *)
Checkpoint(t) ==
  /\ run[t] = "running"
  /\ graph[t] \notin {Idle, saved[t]}
  /\ saved' = [saved EXCEPT ![t] = graph[t]]
  /\ UNCHANGED <<vars, graph, run, input, failedRun, gate, decided, asked, told>>

(* The process stops between any two steps; interrupt_unfinished_runs at   *)
(* the next start closes the runs that were active.                        *)
Restart_KeepsRuns(t) == run[t]      \* mutant: the rows stay as they were
AfterRestart(t) == IF run[t] \in ActiveRuns THEN "interrupted" ELSE run[t]

Restart ==
  /\ Faulty # {}
  /\ run' = [t \in Tasks |-> AfterRestart(t)]
  /\ failedRun' = failedRun \cup {t \in Tasks : run[t] \in ActiveRuns}
  /\ graph' = [t \in Tasks |-> Idle]
  /\ asked' = {}
  /\ UNCHANGED <<vars, saved, input, gate, decided, told>>

-----------------------------------------------------------------------------
(* Graph nodes.  At(t, n, pv): the run of t is about to execute node n.    *)

At(t, node, pv) ==
  run[t] = "running" /\ graph[t].node = node /\ pv \in graph[t].preview

GoTo(t, node) == [graph EXCEPT ![t].node = node]

Respond(t, status) == [graph EXCEPT ![t].node = "end", ![t].status = status]

Moved(step) ==
  /\ graph' = step
  /\ UNCHANGED <<saved, run, input, failedRun, gate, decided, asked, told>>

(* From prepare_refund_request to build_refund_preview: the context is     *)
(* read once, and assessed with the policy facts of the day.               *)
BuildNode(t) ==
  /\ run[t] = "running"
  /\ graph[t].node = "start"
  /\ \E o \in Orders, a \in Actions, p \in Policies, now \in Times :
       /\ BuildPreview(a, t, o, p, now)
       /\ Moved([graph EXCEPT ![t] = [node |-> "reserve", status |-> "none",
                                     preview |-> {Preview(a, t, o, p)}]])

(* An ineligible order, missing details, or no refund request at all.      *)
DeclineNode(t) ==
  /\ run[t] = "running"
  /\ graph[t].node = "start"
  /\ Moved(Respond(t, "refund_ineligible"))
  /\ UNCHANGED vars

(* reserve_refund_action; every error of the repository is the conflict    *)
(* answer.                                                                 *)
AfterConflict_Waits(t) == GoTo(t, "await")   \* mutant: the error is not routed
AfterConflict(t) == Respond(t, "refund_conflict")

ReserveNode(t, pv) ==
  /\ At(t, "reserve", pv)
  /\ IF CanReserve(pv) \/ IsReserved(pv)
     THEN /\ IF CanReserve(pv) THEN ReservePreview(pv) ELSE UNCHANGED vars
          /\ Moved([graph EXCEPT ![t].node = "await",
                                 ![t].status = "refund_awaiting_approval"])
     ELSE /\ Moved(AfterConflict(t))
          /\ UNCHANGED vars

(* await_refund_approval, resumed: a decision on another action raises.    *)
Target_Always(d) == "revalidate"       \* mutant: any decision is an approval
Target(d) == IF d = "approve" THEN "revalidate" ELSE "reject"

Concerns(r, pv) == r[1] = pv.action

AwaitNode(t, pv) ==
  /\ At(t, "await", pv)
  /\ \E r \in input[t] : IF Concerns(r, pv) THEN Moved(GoTo(t, Target(r[2])))
                                             ELSE Fails(t)
  /\ UNCHANGED vars

(* reject_refund_action and mark_refund_stale: replayed on an action       *)
(* closed the same way, an error on one that closed otherwise.             *)
CloseFails_Swallowed(t, status) == Moved(Respond(t, status))  \* mutant: answered anyway
CloseFails(t, status) == Fails(t)

CloseNode(t, pv, target, status) ==
  \/ /\ IF target = "rejected" THEN RejectAction(pv.action, t, pv)
                               ELSE MarkStale(pv.action, t, pv)
     /\ Moved(Respond(t, status))
  \/ /\ IsClosed(pv.action, t, pv, target)
     /\ Moved(Respond(t, status))
     /\ UNCHANGED vars
  \/ /\ ~CanClose(pv.action, t, pv)
     /\ ~IsClosed(pv.action, t, pv, target)
     /\ CloseFails(t, status)
     /\ UNCHANGED vars

(* mutant: the row is written whatever its status                          *)
RejectNode_Forces(t, pv) ==
  /\ At(t, "reject", pv)
  /\ action' = SetStatus({pv.action}, "rejected")
  /\ audit' = audit \cup {<<pv.action, "decision:rejected">>}
  /\ Moved(Respond(t, "refund_rejected"))
  /\ UNCHANGED <<order, shipment, payment, refund, built>>
RejectNode(t, pv) ==
  At(t, "reject", pv) /\ CloseNode(t, pv, "rejected", "refund_rejected")

MarkStaleNode(t, pv) ==
  At(t, "mark_stale", pv) /\ CloseNode(t, pv, "stale", "refund_preview_stale")

(* revalidate_refund reads the facts again, with the policies of the day;  *)
(* policies that cannot be read count as changed.                          *)
StillHolds(pv, p, now) ==
  /\ pv.order \in DOMAIN order
  /\ Eligible(ContextOf(pv.order), now, Evidence[p])
  /\ pv.fingerprint = Fingerprint(ContextOf(pv.order), p)

RevalidateNode(t, pv) ==
  /\ At(t, "revalidate", pv)
  /\ \/ /\ \E p \in Policies, now \in Times : StillHolds(pv, p, now)
        /\ Moved(GoTo(t, "execute"))
     \/ Moved(GoTo(t, "mark_stale"))
  /\ UNCHANGED vars

(* execute_refund: facts that changed since are a business rejection, a    *)
(* closed action or a missing row raises.                                  *)
ExecuteNode(t, pv) ==
  LET a == pv.action
  IN /\ At(t, "execute", pv)
     /\ \/ ExecuteRefund(a, t, pv.fingerprint) /\ Moved(GoTo(t, "verify"))
        \/ /\ ExecuteStale(a, t, pv.fingerprint)
           /\ Moved(Respond(t, "refund_failed"))
        \/ /\ ~CanExecute(a, t)
           /\ IF IsExecuted(a, t) THEN Moved(GoTo(t, "verify")) ELSE Fails(t)
           /\ UNCHANGED vars

(* verify_refund reads the rows back; only then is completion said.        *)
Verdict(a) == IF VerificationKey(a) = "verification:verified"
              THEN "refund_completed" ELSE "refund_verification_failed"

VerifyNode(t, pv) ==
  /\ At(t, "verify", pv)
  /\ VerifyRefund(pv.action)
  /\ Moved(Respond(t, Verdict(pv.action)))

-----------------------------------------------------------------------------
FlowInit ==
  /\ graph     = [t \in Tasks |-> Idle]
  /\ saved     = [t \in Tasks |-> Fresh("end")]
  /\ run       = [t \in Tasks |-> "none"]
  /\ input     = [t \in Tasks |-> {}]
  /\ failedRun = {}
  /\ gate      = [t \in Tasks |-> "none"]
  /\ decided   = {}
  /\ asked     = {}
  /\ told      = {}

ApprovalInit == Init /\ FlowInit

Request(t) ==
  \/ SubmitMessage(t)
  \/ RetryRun(t)
  \/ \E a \in Actions, d \in Decisions : AskDecision(t, a, d) \/ AcceptDecision(t, a, d)

Node(t) ==
  \/ BuildNode(t)
  \/ DeclineNode(t)
  \/ \E pv \in graph[t].preview :
       \/ ReserveNode(t, pv)
       \/ AwaitNode(t, pv)
       \/ RejectNode(t, pv)
       \/ RevalidateNode(t, pv)
       \/ MarkStaleNode(t, pv)
       \/ ExecuteNode(t, pv)
       \/ VerifyNode(t, pv)

Background(t) == StartRun(t) \/ Node(t) \/ CompleteRun(t)

(* Facts change through the operations scripts and the sample loaders, at  *)
(* any time.                                                               *)
ChangeFacts == (\E o \in Orders : WriteFacts(o)) /\ UNCHANGED flow

ApprovalNext ==
  \/ ChangeFacts
  \/ Restart
  \/ \E t \in Tasks : \/ Request(t)
                      \/ Background(t)
                      \/ FailRun(t)
                      \/ Checkpoint(t)

ApprovalSpec == ApprovalInit /\ [][ApprovalNext]_appVars

(* A background task that was accepted is executed to its end.             *)
FairApproval == ApprovalSpec /\ \A t \in Tasks : WF_appVars(Background(t))

-----------------------------------------------------------------------------
(* No refund without an approval the customer sent for that very action,   *)
(* and no rejection without a rejection: whatever restarts, replays and    *)
(* late requests came between.                                             *)
DecisionsAreTheCustomers ==
  \A a \in DOMAIN action :
    /\ action[a].status = "completed" => <<a, "approve">> \in decided
    /\ action[a].status = "rejected"  => <<a, "reject">> \in decided

(* What the conversation says about a request is what its row and the      *)
(* refund table say, then and ever after.                                  *)
ToldTruth ==
  \A a \in Actions :
    /\ <<a, "refund_completed">> \in told =>
         a \in DOMAIN refund /\ <<a, "verification:verified">> \in audit
    /\ <<a, "refund_rejected">> \in told =>
         a \in DOMAIN action /\ action[a].status = "rejected"
    /\ <<a, "refund_preview_stale">> \in told =>
         a \in DOMAIN action /\ action[a].status = "stale"
    /\ (<<a, "refund_failed">> \in told \/ <<a, "refund_conflict">> \in told) =>
         a \notin DOMAIN refund

(* A checkpoint that waits for a decision names an action the refund       *)
(* tables hold for this thread and order, with the preview the customer    *)
(* was shown.                                                              *)
InterruptHasAction ==
  \A t \in Tasks : Interrupted(t) =>
    \E pv \in saved[t].preview : Accessible(pv.action, t) /\ action[pv.action].preview = pv

(* What the approval specification asks of a rejection ("a rejection must  *)
(* not create a refund"): a run that carries one never writes a refund.    *)
RejectionNeverPays ==
  [][\A a \in DOMAIN refund' \ DOMAIN refund :
       input[action[a].preview.task] # {<<a, "reject">>}]_appVars

(* Every accepted run ends: completed, waiting, failed, or interrupted by  *)
(* the next start.                                                         *)
RunsEnd == \A t \in Tasks : (run[t] \in ActiveRuns) ~> (run[t] \notin ActiveRuns)

(* The flow changes the refund tables through the repository's operations  *)
(* alone, so whatever RefundLedger keeps is kept here.                     *)
UsesLedger == Spec

(* An accepted decision settles its request, unless a run of the thread    *)
(* failed or was interrupted: a settled request is closed, one way or      *)
(* another.                                                                *)
DecisionSettles ==
  \A t \in Tasks, a \in Actions, d \in Decisions :
    (<<a, d>> \in decided /\ Undecided(t, a)) ~> (~Undecided(t, a) \/ t \in failedRun)

=============================================================================
