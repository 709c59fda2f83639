------------------------- MODULE RefundApprovalProofs -------------------------
(***************************************************************************)
(* Proofs about RefundApproval, for every value of its constants: it uses  *)
(* the refund tables through the ledger's operations alone, so all that is *)
(* proved of the ledger holds in it; it executes no decision the customer  *)
(* did not send; and what it tells the customer is true and stays true.    *)
(***************************************************************************)
EXTENDS RefundApproval, RefundLedgerProofs

(* The nodes that only an approval, and only a rejection, leads to; a      *)
(* graph is about one request at most.                                     *)
ApprovedNodes == {"revalidate", "execute", "verify", "mark_stale"}

Sanctioned(g) ==
  \A pv \in g.preview :
    /\ g.node \in ApprovedNodes => <<pv.action, "approve">> \in decided
    /\ g.node = "reject"        => <<pv.action, "reject">> \in decided
    /\ g.preview = {pv}

Held == [node : Nodes, preview : SUBSET built, status : Statuses]

FlowInv ==
  /\ graph \in [Tasks -> Held]
  /\ saved \in [Tasks -> Held]
  /\ input \in [Tasks -> SUBSET decided]
  /\ decided \subseteq Actions \X Decisions
  /\ \A t \in Tasks : Sanctioned(graph[t]) /\ Sanctioned(saved[t])
  /\ DecisionsAreTheCustomers

(* The ledger operations the nodes and the loaders call are the ledger's.  *)
LEMMA LedgerStep ==
  ASSUME IInv, FlowInv, [ApprovalNext]_appVars
  PROVE  [Next]_vars
<1>1. CASE UNCHANGED appVars
  BY <1>1 DEF appVars
<1>2. CASE ChangeFacts
  BY <1>2 DEF ChangeFacts, Next
<1>3. CASE Restart
  BY <1>3 DEF Restart
<1>4. ASSUME NEW t \in Tasks, Request(t) \/ FailRun(t) \/ Checkpoint(t)
      PROVE  UNCHANGED vars
  BY <1>4 DEF Request, SubmitMessage, RetryRun, AskDecision, AcceptDecision, FailRun, Checkpoint
<1>5. ASSUME NEW t \in Tasks, StartRun(t) \/ CompleteRun(t)
      PROVE  UNCHANGED vars
  BY <1>5 DEF StartRun, CompleteRun
<1>6. ASSUME NEW t \in Tasks, BuildNode(t)
      PROVE  Next
  BY <1>6 DEF BuildNode, Propose, Next
<1>7. ASSUME NEW t \in Tasks, DeclineNode(t)
      PROVE  UNCHANGED vars
  BY <1>7 DEF DeclineNode
<1>8. ASSUME NEW t \in Tasks, NEW pv \in graph[t].preview,
             \/ ReserveNode(t, pv) \/ AwaitNode(t, pv) \/ RejectNode(t, pv)
             \/ RevalidateNode(t, pv) \/ MarkStaleNode(t, pv)
             \/ ExecuteNode(t, pv) \/ VerifyNode(t, pv)
      PROVE  [Next]_vars
  <2>1. pv \in built /\ pv.action \in Actions
    BY <1>8 DEF FlowInv, Held, IInv, TypeOK, Previews
  <2>2. CASE ReserveNode(t, pv)
    BY <2>1, <2>2 DEF ReserveNode, Next
  <2>3. CASE AwaitNode(t, pv) \/ RevalidateNode(t, pv)
    BY <2>3 DEF AwaitNode, RevalidateNode
  <2>4. CASE RejectNode(t, pv)
    BY <2>1, <2>4 DEF RejectNode, CloseNode, Decide, Next
  <2>5. CASE MarkStaleNode(t, pv)
    BY <2>1, <2>5 DEF MarkStaleNode, CloseNode, Decide, Next
  <2>6. CASE ExecuteNode(t, pv)
    BY <2>1, <2>6 DEF ExecuteNode, Decide, Next
  <2>7. CASE VerifyNode(t, pv)
    BY <2>1, <2>7 DEF VerifyNode, Next
  <2> QED BY <1>8, <2>2, <2>3, <2>4, <2>5, <2>6, <2>7
<1> QED
  BY <1>1, <1>2, <1>3, <1>4, <1>5, <1>6, <1>7, <1>8 DEF ApprovalNext, Background, Node

(* No operation of the ledger forgets a preview.                           *)
LEMMA BuiltGrows ==
  ASSUME [Next]_vars
  PROVE  built \subseteq built'
BY DEF Next, vars, WriteFacts, CreateOrder, UpdateOrder, DeleteOrder, UpsertPayment, Propose,
       BuildPreview, Decide, RejectAction, MarkStale, Close, ExecuteRefund, ExecuteStale,
       VerifyRefund, ReservePreview

(* Only a rejection and an execution close a request as rejected or        *)
(* completed: every other operation leaves such statuses as they are.      *)
SettlesNothing ==
  \A a \in DOMAIN action' :
    action'[a].status \in {"rejected", "completed"} =>
      a \in DOMAIN action /\ action[a].status = action'[a].status

(* Writing orders, shipments and payments only makes requests stale.       *)
LEMMA FactsSettleNothing ==
  ASSUME NEW o \in Orders, WriteFacts(o)
  PROVE  SettlesNothing
<1>1. ASSUME NEW key, InvalidatePending(o, key) PROVE SettlesNothing
  BY <1>1 DEF InvalidatePending, SetStatus, SettlesNothing
<1>2. CASE UNCHANGED action
  BY <1>2 DEF SettlesNothing
<1> QED
  BY <1>1, <1>2 DEF WriteFacts, CreateOrder, UpdateOrder, DeleteOrder, UpsertPayment

(* Nor do a reservation, a stale mark, a refused execution and a           *)
(* verification.                                                           *)
LEMMA OthersSettleNothing ==
  ASSUME TypeOK, NEW a, NEW t, NEW pv,
         \/ ReservePreview(pv) \/ MarkStale(a, t, pv)
         \/ ExecuteStale(a, t, pv.fingerprint) \/ VerifyRefund(a)
  PROVE  SettlesNothing
<1>0. \A as : /\ DOMAIN SetStatus(as, "stale") = DOMAIN action
               /\ \A b \in DOMAIN action :
                    SetStatus(as, "stale")[b].status \in {"stale", action[b].status}
  BY DEF SetStatus, TypeOK
<1>1. ASSUME NEW as, action' = SetStatus(as, "stale") PROVE SettlesNothing
  BY <1>0, <1>1 DEF SettlesNothing
<1>2. CASE ReservePreview(pv)
  <2>1. PICK as : action' = Put(SetStatus(as, "stale"), pv.action,
                                [preview |-> pv, status |-> "awaiting_approval"])
    BY <1>2 DEF ReservePreview
  <2>2. DOMAIN action' = DOMAIN SetStatus(as, "stale") \cup {pv.action}
    BY <2>1 DEF Put
  <2>3. \A b \in DOMAIN action' : action'[b].status =
          IF b = pv.action THEN "awaiting_approval" ELSE SetStatus(as, "stale")[b].status
    BY <2>1 DEF Put
  <2> QED BY <1>0, <2>2, <2>3 DEF SettlesNothing
<1>3. CASE MarkStale(a, t, pv)
  BY <1>1, <1>3 DEF MarkStale, Close
<1>4. CASE ExecuteStale(a, t, pv.fingerprint)
  BY <1>1, <1>4 DEF ExecuteStale
<1>5. CASE VerifyRefund(a)
  BY <1>5 DEF VerifyRefund, SettlesNothing
<1> QED BY <1>2, <1>3, <1>4, <1>5

(* The decisions stay the customer's when nothing is settled.              *)
LEMMA DecisionsStay ==
  ASSUME DecisionsAreTheCustomers, SettlesNothing, decided \subseteq decided'
  PROVE  DecisionsAreTheCustomers'
BY DEF DecisionsAreTheCustomers, SettlesNothing

(* A step of the ledger beside an unchanged flow.                          *)
LEMMA FlowStays ==
  ASSUME FlowInv, built \subseteq built', SettlesNothing, UNCHANGED flow
  PROVE  FlowInv'
<1>1. /\ graph' = graph /\ saved' = saved /\ input' = input /\ decided' = decided
  BY DEF flow
<1>2. DecisionsAreTheCustomers'
  BY <1>1, DecisionsStay DEF FlowInv
<1>3. Held \subseteq Held'
  BY DEF Held
<1>4. \A t \in Tasks : Sanctioned(graph[t])' /\ Sanctioned(saved[t])'
  BY <1>1 DEF FlowInv, Sanctioned
<1> QED
  BY <1>1, <1>2, <1>3, <1>4 DEF FlowInv

(* A node moves the graph of one run to a sanctioned state.                *)
LEMMA MoveStep ==
  ASSUME FlowInv, NEW t \in Tasks, NEW g, built \subseteq built',
         g \in Held', Sanctioned(g)', DecisionsAreTheCustomers',
         graph' = [graph EXCEPT ![t] = g], UNCHANGED <<saved, input, decided>>
  PROVE  FlowInv'
<1>1. Held \subseteq Held'
  BY DEF Held
<1>2. \A u \in Tasks : graph'[u] = IF u = t THEN g ELSE graph[u]
  BY DEF FlowInv
<1>3. graph' \in [Tasks -> Held'] /\ saved' \in [Tasks -> Held']
  BY <1>1 DEF FlowInv
<1>4. \A u \in Tasks : Sanctioned(graph[u])' /\ Sanctioned(saved[u])'
  BY <1>2 DEF FlowInv, Sanctioned
<1> QED
  BY <1>3, <1>4 DEF FlowInv

(* A run that fails, or is checkpointed, leaves sanctioned states.         *)
LEMMA FailStep ==
  ASSUME FlowInv, NEW t \in Tasks, Fails(t), UNCHANGED vars
  PROVE  FlowInv'
<1>1. Idle \in Held
  BY DEF Idle, Fresh, Held, Nodes, Statuses
<1>2. /\ \A u \in Tasks : graph'[u] = IF u = t THEN Idle ELSE graph[u]
      /\ \A u \in Tasks : saved'[u] = IF u = t THEN graph[t] ELSE saved[u]
      /\ input' = input /\ decided' = decided /\ built' = built /\ action' = action
  BY DEF Fails, FlowInv, vars
<1>3. graph' \in [Tasks -> Held] /\ saved' \in [Tasks -> Held]
  BY <1>1 DEF Fails, FlowInv
<1>4. Idle.preview = {}
  BY DEF Idle, Fresh
<1>5. \A u \in Tasks : Sanctioned(graph[u])' /\ Sanctioned(saved[u])'
  BY <1>2, <1>4 DEF FlowInv, Sanctioned
<1>6. DecisionsAreTheCustomers'
  BY <1>2 DEF FlowInv, DecisionsAreTheCustomers
<1>7. Held' = Held
  BY <1>2 DEF Held
<1> QED
  BY <1>2, <1>3, <1>5, <1>6, <1>7 DEF FlowInv

(* Requests, and the start and end of a run.                               *)
LEMMA RequestsStep ==
  ASSUME FlowInv, NEW t \in Tasks, Request(t)
  PROVE  FlowInv'
<1>1. Ready \in Held /\ Ready.preview = {}
  BY DEF Ready, Fresh, Held, Nodes, Statuses
<1>2. built' = built /\ action' = action /\ saved' = saved
  BY DEF Request, SubmitMessage, RetryRun, AskDecision, AcceptDecision, vars
<1>3. \/ graph' = graph /\ input' = input /\ decided' = decided
      \/ /\ graph' = [graph EXCEPT ![t] = Ready]
         /\ decided \subseteq decided'
         /\ \E r \in SUBSET decided' : input' = [input EXCEPT ![t] = r]
  BY DEF Request, SubmitMessage, RetryRun, AskDecision, AcceptDecision, Begin
<1>4. decided \subseteq decided' /\ Held' = Held
  BY <1>2, <1>3 DEF Held
<1>10. decided' \subseteq decided \cup (Actions \X Decisions)
  <2>1. ASSUME NEW a \in Actions, NEW d \in Decisions, AcceptDecision(t, a, d)
        PROVE  decided' \subseteq decided \cup (Actions \X Decisions)
    BY <2>1 DEF AcceptDecision
  <2>2. ASSUME NEW a \in Actions, NEW d \in Decisions, AskDecision(t, a, d)
        PROVE  decided' = decided
    BY <2>2 DEF AskDecision
  <2>3. SubmitMessage(t) \/ RetryRun(t) => decided' = decided
    BY DEF SubmitMessage, RetryRun
  <2> QED BY <2>1, <2>2, <2>3 DEF Request
<1>5. graph' \in [Tasks -> Held'] /\ saved' \in [Tasks -> Held']
  BY <1>1, <1>2, <1>3, <1>4 DEF FlowInv
<1>6. input' \in [Tasks -> SUBSET decided']
  BY <1>3, <1>4 DEF FlowInv
<1>7. \A u \in Tasks : graph'[u] \in {graph[u], Ready}
  BY <1>3 DEF FlowInv
<1>8. \A u \in Tasks : Sanctioned(graph[u])' /\ Sanctioned(saved[u])'
  BY <1>1, <1>2, <1>4, <1>7 DEF FlowInv, Sanctioned
<1>9. DecisionsAreTheCustomers'
  BY <1>2, <1>4 DEF FlowInv, DecisionsAreTheCustomers
<1> QED
  BY <1>5, <1>6, <1>8, <1>9, <1>10 DEF FlowInv

(* A run starts over, or where a sanctioned checkpoint stands.             *)
LEMMA StartStep ==
  ASSUME FlowInv, NEW t \in Tasks, StartRun(t)
  PROVE  FlowInv'
<1> PICK g : g = IF input[t] = {} THEN Fresh("start") ELSE saved[t]
  OBVIOUS
<1>1. /\ graph' = [graph EXCEPT ![t] = g]
      /\ UNCHANGED <<saved, input, decided>>
      /\ built' = built /\ action' = action
  BY DEF StartRun, vars
<1>2. Fresh("start") \in Held /\ Fresh("start").preview = {}
  BY DEF Fresh, Held, Nodes, Statuses
<1>3. g \in Held' /\ Sanctioned(g)'
  BY <1>1, <1>2 DEF FlowInv, Sanctioned, Held
<1>4. DecisionsAreTheCustomers'
  BY <1>1 DEF FlowInv, DecisionsAreTheCustomers
<1> QED
  BY <1>1, <1>3, <1>4, MoveStep

(* A sanctioned graph makes a sanctioned checkpoint.                       *)
LEMMA SaveStep ==
  ASSUME FlowInv, NEW t \in Tasks, CompleteRun(t) \/ Checkpoint(t)
  PROVE  FlowInv'
<1>1. Idle \in Held /\ Idle.preview = {}
  BY DEF Idle, Fresh, Held, Nodes, Statuses
<1>2. /\ saved' = [saved EXCEPT ![t] = graph[t]]
      /\ graph' = graph \/ graph' = [graph EXCEPT ![t] = Idle]
      /\ input' = input /\ decided' = decided /\ built' = built /\ action' = action
  BY DEF CompleteRun, Checkpoint, vars
<1>3. graph' \in [Tasks -> Held] /\ saved' \in [Tasks -> Held] /\ Held' = Held
  BY <1>1, <1>2 DEF FlowInv, Held
<1>4. \A u \in Tasks : graph'[u] \in {graph[u], Idle} /\ saved'[u] \in {saved[u], graph[t]}
  BY <1>2 DEF FlowInv
<1>5. \A u \in Tasks : Sanctioned(graph[u])' /\ Sanctioned(saved[u])'
  <2> SUFFICES ASSUME NEW u \in Tasks
               PROVE  Sanctioned(graph[u])' /\ Sanctioned(saved[u])'
    OBVIOUS
  <2>1. Sanctioned(graph[u]) /\ Sanctioned(saved[u]) /\ Sanctioned(graph[t])
    BY DEF FlowInv
  <2> QED BY <1>1, <1>2, <1>4, <2>1 DEF Sanctioned
<1>6. DecisionsAreTheCustomers'
  BY <1>2 DEF FlowInv, DecisionsAreTheCustomers
<1> QED
  BY <1>2, <1>3, <1>5, <1>6 DEF FlowInv

(* A restart forgets the graphs and keeps the checkpoints.                 *)
LEMMA RestartStep ==
  ASSUME FlowInv, Restart
  PROVE  FlowInv'
<1>1. Idle \in Held /\ Idle.preview = {}
  BY DEF Idle, Fresh, Held, Nodes, Statuses
<1>2. /\ saved' = saved /\ input' = input /\ decided' = decided
      /\ built' = built /\ action' = action /\ graph' = [t \in Tasks |-> Idle]
  BY DEF Restart, vars
<1>3. Held' = Held /\ graph' \in [Tasks -> Held]
  BY <1>1, <1>2 DEF Held
<1>4. \A t \in Tasks : Sanctioned(graph[t])' /\ Sanctioned(saved[t])'
  BY <1>1, <1>2 DEF FlowInv, Sanctioned
<1>5. DecisionsAreTheCustomers'
  BY <1>2 DEF FlowInv, DecisionsAreTheCustomers
<1> QED
  BY <1>2, <1>3, <1>4, <1>5 DEF FlowInv

(* The building and the declining of a request, before any decision.       *)
LEMMA FirstNodesStep ==
  ASSUME FlowInv, NEW t \in Tasks, BuildNode(t) \/ DeclineNode(t), built \subseteq built'
  PROVE  FlowInv'
<1>1. UNCHANGED <<saved, input, decided>> /\ action' = action
  BY DEF BuildNode, DeclineNode, Moved, BuildPreview, vars
<1>2. DecisionsAreTheCustomers'
  BY <1>1 DEF FlowInv, DecisionsAreTheCustomers
<1>3. CASE DeclineNode(t)
  <2> PICK g : g = [graph[t] EXCEPT !.node = "end", !.status = "refund_ineligible"]
    OBVIOUS
  <2>1. graph' = [graph EXCEPT ![t] = g]
    BY <1>3 DEF DeclineNode, Moved, Respond, FlowInv
  <2>2. g \in Held' /\ g.node = "end" /\ g.preview = graph[t].preview
    BY <1>3 DEF FlowInv, Held, Nodes, Statuses
  <2>3. Sanctioned(g)'
    BY <2>2 DEF FlowInv, Sanctioned, ApprovedNodes
  <2> QED BY <1>1, <1>2, <2>1, <2>2, <2>3, MoveStep
<1>4. CASE BuildNode(t)
  <2> PICK o \in Orders, a \in Actions, p \in Policies :
        /\ built' = built \cup {Preview(a, t, o, p)}
        /\ graph' = [graph EXCEPT ![t] = [node |-> "reserve", status |-> "none",
                                         preview |-> {Preview(a, t, o, p)}]]
    BY <1>4 DEF BuildNode, Moved, BuildPreview
  <2> PICK g : g = [node |-> "reserve", status |-> "none",
                    preview |-> {Preview(a, t, o, p)}]
    OBVIOUS
  <2>1. graph' = [graph EXCEPT ![t] = g]
    OBVIOUS
  <2>2. g \in Held' /\ g.node = "reserve" /\ g.preview = {Preview(a, t, o, p)}
    BY DEF Held, Nodes, Statuses
  <2>3. Sanctioned(g)'
    BY <2>2 DEF Sanctioned, ApprovedNodes
  <2> QED BY <1>1, <1>2, <2>1, <2>2, <2>3, MoveStep
<1> QED BY <1>3, <1>4

(* A node of a request the run holds, that moves the graph on.             *)
LEMMA NextNodeStep ==
  ASSUME FlowInv, NEW t \in Tasks, NEW node \in Nodes, NEW status \in Statuses,
         built \subseteq built', DecisionsAreTheCustomers',
         \/ graph' = GoTo(t, node)
         \/ graph' = [graph EXCEPT ![t].node = node, ![t].status = status],
         UNCHANGED <<saved, input, decided>>,
         \A pv \in graph[t].preview :
           /\ node \in ApprovedNodes => <<pv.action, "approve">> \in decided
           /\ node = "reject"        => <<pv.action, "reject">> \in decided
  PROVE  FlowInv'
<1> PICK g : g \in {[graph[t] EXCEPT !.node = node],
                   [graph[t] EXCEPT !.node = node, !.status = status]}
             /\ graph' = [graph EXCEPT ![t] = g]
  BY DEF GoTo, FlowInv
<1>1. g \in Held' /\ g.node = node /\ g.preview = graph[t].preview
  BY DEF FlowInv, Held
<1>2. Sanctioned(g)'
  BY <1>1 DEF FlowInv, Sanctioned
<1> QED BY <1>1, <1>2, MoveStep

(* The nodes that close no request as rejected or completed.               *)
LEMMA QuietNodesStep ==
  ASSUME IInv, FlowInv, NEW t \in Tasks, NEW pv \in graph[t].preview,
         ReserveNode(t, pv) \/ RevalidateNode(t, pv) \/ AwaitNode(t, pv)
           \/ MarkStaleNode(t, pv) \/ VerifyNode(t, pv),
         built \subseteq built'
  PROVE  FlowInv'
<1>0. graph[t].preview = {pv}
  BY DEF FlowInv, Sanctioned
<1>1. CASE Fails(t) /\ UNCHANGED vars
  BY <1>1, FailStep
<1>2. ASSUME NEW node \in Nodes, NEW status \in Statuses,
             \/ graph' = GoTo(t, node)
             \/ graph' = [graph EXCEPT ![t].node = node, ![t].status = status],
             UNCHANGED <<saved, run, input, failedRun, gate, decided, asked, told>>,
             node \in ApprovedNodes => <<pv.action, "approve">> \in decided,
             node = "reject"        => <<pv.action, "reject">> \in decided,
             SettlesNothing
      PROVE  FlowInv'
  <2>1. UNCHANGED <<saved, input, decided>>
    BY <1>2
  <2>2. DecisionsAreTheCustomers'
    BY <1>2, DecisionsStay DEF FlowInv
  <2> QED BY <1>0, <1>2, <2>1, <2>2, NextNodeStep
<1>3. UNCHANGED vars => SettlesNothing
  BY DEF vars, SettlesNothing
<1>4. CASE ReserveNode(t, pv)
  <2>1. SettlesNothing
    BY <1>3, <1>4, OthersSettleNothing DEF ReserveNode, IInv
  <2>2. Moved([graph EXCEPT ![t].node = "await", ![t].status = "refund_awaiting_approval"])
        \/ Moved(Respond(t, "refund_conflict"))
    BY <1>4 DEF ReserveNode, AfterConflict
  <2> QED BY <1>2, <2>1, <2>2 DEF Moved, Respond, Nodes, Statuses, ApprovedNodes
<1>5. CASE RevalidateNode(t, pv)
  <2>1. SettlesNothing /\ (Moved(GoTo(t, "execute")) \/ Moved(GoTo(t, "mark_stale")))
    BY <1>3, <1>5 DEF RevalidateNode
  <2>2. <<pv.action, "approve">> \in decided
    BY <1>5 DEF RevalidateNode, At, FlowInv, Sanctioned, ApprovedNodes
  <2> QED BY <1>2, <2>1, <2>2 DEF Moved, Nodes, Statuses
<1>6. CASE AwaitNode(t, pv)
  <2> PICK r \in input[t] : IF Concerns(r, pv) THEN Moved(GoTo(t, Target(r[2]))) ELSE Fails(t)
    BY <1>6 DEF AwaitNode
  <2>1. UNCHANGED vars /\ SettlesNothing /\ r \in decided
    BY <1>3, <1>6 DEF AwaitNode, FlowInv
  <2>2. CASE ~Concerns(r, pv)
    BY <1>1, <2>1, <2>2
  <2>3. CASE Concerns(r, pv)
    <3>1. r = <<pv.action, r[2]>> /\ r[2] \in Decisions
      BY <2>1, <2>3 DEF Concerns, FlowInv
    <3> QED BY <1>2, <2>1, <2>3, <3>1 DEF Moved, Target, Nodes, Statuses, ApprovedNodes, Decisions
  <2> QED BY <2>2, <2>3
<1>7. CASE MarkStaleNode(t, pv)
  <2>1. SettlesNothing
    BY <1>3, <1>7, OthersSettleNothing DEF MarkStaleNode, CloseNode, IInv
  <2>2. Moved(Respond(t, "refund_preview_stale")) \/ (Fails(t) /\ UNCHANGED vars)
    BY <1>7 DEF MarkStaleNode, CloseNode, CloseFails
  <2> QED BY <1>1, <1>2, <2>1, <2>2 DEF Moved, Respond, Nodes, Statuses, ApprovedNodes
<1>8. CASE VerifyNode(t, pv)
  <2>1. SettlesNothing
    BY <1>8, OthersSettleNothing DEF VerifyNode, IInv
  <2>2. Moved(Respond(t, Verdict(pv.action))) /\ Verdict(pv.action) \in Statuses
    BY <1>8 DEF VerifyNode, Verdict, Statuses
  <2> QED BY <1>2, <2>1, <2>2 DEF Moved, Respond, Nodes, ApprovedNodes
<1> QED BY <1>4, <1>5, <1>6, <1>7, <1>8

(* Setting the status of some rows touches no other row.                   *)
LEMMA StatusIsSet ==
  ASSUME TypeOK, NEW as, NEW status
  PROVE  /\ DOMAIN SetStatus(as, status) = DOMAIN action
         /\ \A b \in DOMAIN action : SetStatus(as, status)[b].status =
              IF b \in as THEN status ELSE action[b].status
BY DEF SetStatus, TypeOK

(* The rejection: it closes the request the run was told to reject.        *)
LEMMA RejectNodeStep ==
  ASSUME IInv, FlowInv, NEW t \in Tasks, NEW pv \in graph[t].preview,
         RejectNode(t, pv), built \subseteq built'
  PROVE  FlowInv'
<1>1. <<pv.action, "reject">> \in decided /\ graph[t].preview = {pv}
  BY DEF RejectNode, At, FlowInv, Sanctioned
<1>2. CASE Fails(t) /\ UNCHANGED vars
  BY <1>2, FailStep
<1>3. CASE /\ Moved(Respond(t, "refund_rejected"))
           /\ action' = action \/ action' = SetStatus({pv.action}, "rejected")
  <2>1. UNCHANGED <<saved, input, decided>>
    BY <1>3 DEF Moved
  <2>2. \A a \in DOMAIN action' :
          /\ a \in DOMAIN action
          /\ \/ action'[a].status = action[a].status
             \/ a = pv.action /\ action'[a].status = "rejected"
    <3>1. /\ DOMAIN SetStatus({pv.action}, "rejected") = DOMAIN action
          /\ \A a \in DOMAIN action : SetStatus({pv.action}, "rejected")[a].status =
               IF a \in {pv.action} THEN "rejected" ELSE action[a].status
      BY StatusIsSet DEF IInv
    <3>2. action' = action \/ action' = SetStatus({pv.action}, "rejected")
      BY <1>3
    <3> QED BY <3>1, <3>2
  <2>3. DecisionsAreTheCustomers'
    BY <1>1, <2>1, <2>2 DEF FlowInv, DecisionsAreTheCustomers
  <2> QED
    BY <1>1, <1>3, <2>1, <2>3, NextNodeStep DEF Moved, Respond, Nodes, Statuses, ApprovedNodes
<1> QED
  BY <1>2, <1>3 DEF RejectNode, CloseNode, RejectAction, Close, CloseFails, vars

(* The execution: it completes the request the run was told to approve.    *)
LEMMA ExecuteNodeStep ==
  ASSUME IInv, FlowInv, NEW t \in Tasks, NEW pv \in graph[t].preview,
         ExecuteNode(t, pv), built \subseteq built'
  PROVE  FlowInv'
<1>1. <<pv.action, "approve">> \in decided /\ graph[t].preview = {pv}
  BY DEF ExecuteNode, At, FlowInv, Sanctioned, ApprovedNodes
<1>2. CASE Fails(t) /\ UNCHANGED vars
  BY <1>2, FailStep
<1>3. CASE /\ Moved(Respond(t, "refund_failed")) \/ Moved(GoTo(t, "verify"))
           /\ \/ action' = action
              \/ action' = SetStatus({pv.action}, "completed")
              \/ action' = SetStatus({pv.action}, "stale")
  <2>1. UNCHANGED <<saved, input, decided>>
    BY <1>3 DEF Moved
  <2>2. \A a \in DOMAIN action' :
          /\ a \in DOMAIN action
          /\ \/ action'[a].status = action[a].status
             \/ a = pv.action /\ action'[a].status \in {"completed", "stale"}
    <3>1. /\ DOMAIN SetStatus({pv.action}, "completed") = DOMAIN action
          /\ \A a \in DOMAIN action : SetStatus({pv.action}, "completed")[a].status =
               IF a \in {pv.action} THEN "completed" ELSE action[a].status
      BY StatusIsSet DEF IInv
    <3>2. /\ DOMAIN SetStatus({pv.action}, "stale") = DOMAIN action
          /\ \A a \in DOMAIN action : SetStatus({pv.action}, "stale")[a].status =
               IF a \in {pv.action} THEN "stale" ELSE action[a].status
      BY StatusIsSet DEF IInv
    <3>3. \/ action' = action
          \/ action' = SetStatus({pv.action}, "completed")
          \/ action' = SetStatus({pv.action}, "stale")
      BY <1>3
    <3> QED BY <3>1, <3>2, <3>3
  <2>3. DecisionsAreTheCustomers'
    BY <1>1, <2>1, <2>2 DEF FlowInv, DecisionsAreTheCustomers
  <2>4. CASE Moved(Respond(t, "refund_failed"))
    BY <1>1, <2>1, <2>3, <2>4, NextNodeStep DEF Moved, Respond, Nodes, Statuses, ApprovedNodes
  <2>5. CASE Moved(GoTo(t, "verify"))
    BY <1>1, <2>1, <2>3, <2>5, NextNodeStep DEF Moved, Nodes, Statuses, ApprovedNodes
  <2> QED BY <1>3, <2>4, <2>5
<1> QED
  BY <1>2, <1>3 DEF ExecuteNode, ExecuteRefund, ExecuteStale, vars

(* Every step keeps the invariant of the flow.                             *)
LEMMA FlowInvStep ==
  ASSUME IInv, FlowInv, [ApprovalNext]_appVars
  PROVE  FlowInv'
<1>1. built \subseteq built'
  BY LedgerStep, BuiltGrows
<1>2. CASE UNCHANGED appVars
  BY <1>1, <1>2, FlowStays DEF appVars, vars, SettlesNothing
<1>3. CASE ChangeFacts
  BY <1>1, <1>3, FactsSettleNothing, FlowStays DEF ChangeFacts
<1>4. CASE Restart
  BY <1>4, RestartStep
<1>5. ASSUME NEW t \in Tasks, Request(t)
      PROVE  FlowInv'
  BY <1>5, RequestsStep
<1>6. ASSUME NEW t \in Tasks, StartRun(t) \/ CompleteRun(t) \/ Checkpoint(t)
      PROVE  FlowInv'
  BY <1>6, StartStep, SaveStep
<1>7. ASSUME NEW t \in Tasks, FailRun(t)
      PROVE  FlowInv'
  <2>1. CASE Fails(t)
    BY <1>7, <2>1, FailStep DEF FailRun
  <2>2. CASE graph' = [graph EXCEPT ![t] = Idle] /\ UNCHANGED <<saved, input, decided>>
    <3>1. Idle \in Held' /\ Idle.preview = {}
      BY DEF Idle, Fresh, Held, Nodes, Statuses
    <3>2. Sanctioned(Idle)'
      BY <3>1 DEF Sanctioned, Idle, Fresh
    <3>3. DecisionsAreTheCustomers'
      BY <1>7, <2>2 DEF FailRun, FlowInv, DecisionsAreTheCustomers, vars
    <3> PICK g : g = Idle
      OBVIOUS
    <3> QED BY <1>1, <2>2, <3>1, <3>2, <3>3, MoveStep
  <2> QED BY <1>7, <2>1, <2>2 DEF FailRun
<1>8. ASSUME NEW t \in Tasks, BuildNode(t) \/ DeclineNode(t)
      PROVE  FlowInv'
  BY <1>1, <1>8, FirstNodesStep
<1>9. ASSUME NEW t \in Tasks, NEW pv \in graph[t].preview,
             \/ ReserveNode(t, pv) \/ AwaitNode(t, pv) \/ RejectNode(t, pv)
             \/ RevalidateNode(t, pv) \/ MarkStaleNode(t, pv)
             \/ ExecuteNode(t, pv) \/ VerifyNode(t, pv)
      PROVE  FlowInv'
  BY <1>1, <1>9, QuietNodesStep, RejectNodeStep, ExecuteNodeStep
<1> QED
  BY <1>2, <1>3, <1>4, <1>5, <1>6, <1>7, <1>8, <1>9 DEF ApprovalNext, Background, Node

(* What holds initially.                                                   *)
LEMMA FlowInvInit ==
  ASSUME ApprovalInit
  PROVE  FlowInv
<1>1. /\ \A node \in Nodes : Fresh(node) \in Held
      /\ \A node : Fresh(node).preview = {}
  BY DEF Fresh, Held, Statuses
<1>2. Idle = Fresh("none") /\ {"none", "end"} \subseteq Nodes
  BY DEF Idle, Nodes
<1>3. graph \in [Tasks -> Held] /\ saved \in [Tasks -> Held]
  BY <1>1, <1>2 DEF ApprovalInit, FlowInit
<1>4. \A t \in Tasks : graph[t].preview = {} /\ saved[t].preview = {}
  BY <1>1, <1>2 DEF ApprovalInit, FlowInit
<1>5. \A t \in Tasks : Sanctioned(graph[t]) /\ Sanctioned(saved[t])
  BY <1>4 DEF Sanctioned
<1>6. DOMAIN action = {}
  BY DEF ApprovalInit, Init
<1>7. DecisionsAreTheCustomers
  BY <1>6 DEF DecisionsAreTheCustomers
<1> QED BY <1>3, <1>5, <1>7 DEF FlowInv, ApprovalInit, FlowInit

(* The invariant of the tables and of the flow together: what every graph  *)
(* and checkpoint at a node beyond the interrupt has been told.            *)
THEOREM ApprovalInvariant == ApprovalSpec => [](IInv /\ FlowInv)
<1>1. ApprovalInit => IInv /\ FlowInv
  BY InvariantInit, FlowInvInit DEF ApprovalInit
<1>2. IInv /\ FlowInv /\ [ApprovalNext]_appVars => (IInv /\ FlowInv)'
  <2> SUFFICES ASSUME IInv, FlowInv, [ApprovalNext]_appVars
               PROVE  IInv' /\ FlowInv'
    OBVIOUS
  <2>1. [Next]_vars
    BY LedgerStep
  <2> QED BY <2>1, LedgerAssumption, InvariantStep, FlowInvStep
<1> QED BY <1>1, <1>2, PTL DEF ApprovalSpec

(* The approval flow changes the refund tables through the repository's    *)
(* operations alone (refund_workflow.py calls the gateway and nothing      *)
(* else): it implements the ledger.                                        *)
THEOREM ApprovalUsesLedger == ApprovalSpec => UsesLedger
<1>1. ApprovalInit => Init
  BY DEF ApprovalInit
<1>2. IInv /\ FlowInv /\ [ApprovalNext]_appVars => [Next]_vars
  BY LedgerStep
<1> QED BY <1>1, <1>2, ApprovalInvariant, PTL DEF ApprovalSpec, UsesLedger, Spec

(* No refund without an approval of that action, no rejection without a    *)
(* rejection, whatever restarts, replays and late requests came between.   *)
THEOREM DecisionsAreKept == ApprovalSpec => []DecisionsAreTheCustomers
<1>1. FlowInv => DecisionsAreTheCustomers
  BY DEF FlowInv
<1> QED BY <1>1, ApprovalInvariant, PTL

(* What the ledger promises is kept under the approval flow: one open      *)
(* request an order, no refund without its action and payment.             *)
THEOREM ApprovalIsSafe ==
  ApprovalSpec => [](OneActivePerOrder /\ RefundIsBacked /\ NoOrphanAction /\ NeverMismatches)
BY ApprovalUsesLedger, LedgerIsSafe, PTL DEF UsesLedger

-----------------------------------------------------------------------------
(* What the conversation says                                              *)

(* An answer is true of its request, and stays true: completion is in the  *)
(* refund table and was verified, a closed request keeps its row, and a    *)
(* preview that met a conflict is never reserved.                          *)
Holds(a, status) ==
  /\ status = "refund_completed" =>
       a \in DOMAIN refund /\ <<a, "verification:verified">> \in audit
  /\ status = "refund_rejected" =>
       a \in DOMAIN action /\ action[a].status = "rejected"
  /\ status \in {"refund_preview_stale", "refund_failed"} =>
       a \in DOMAIN action /\ action[a].status = "stale"
  /\ status = "refund_conflict" => a \notin DOMAIN action

(* A graph, in memory or in the checkpoint, talks about a preview built    *)
(* for its own thread, says what holds, and waits for a decision only on a *)
(* request that is stored; before the reservation no conflict was told.    *)
Honest(t, g) ==
  /\ g.node = "await" => g.preview # {}
  /\ \A pv \in g.preview :
       /\ pv.task = t
       /\ Holds(pv.action, g.status)
       /\ g.node = "await" => pv.action \in DOMAIN action /\ action[pv.action].preview = pv
       /\ g.node = "reserve" => /\ g.status = "none"
                                /\ <<pv.action, "refund_conflict">> \notin told

(* A run about to reserve is not resumed from an answered conflict.        *)
Unanswered(g, s) ==
  g.node = "reserve" /\ g.preview \cap s.preview # {} => s.status # "refund_conflict"

SameBuilt == \A p, q \in built : p.action = q.action => p = q

ToldSound ==
  /\ told \subseteq Actions \X Statuses
  /\ \A m \in told : Holds(m[1], m[2]) /\ \E pv \in built : pv.action = m[1]

TalkInv ==
  /\ SameBuilt
  /\ ToldSound
  /\ \A t \in Tasks : /\ Honest(t, graph[t])
                      /\ Honest(t, saved[t])
                      /\ Unanswered(graph[t], saved[t])

(* No operation of the ledger forgets an audit event.                      *)
LEMMA AuditGrows ==
  ASSUME [Next]_vars
  PROVE  audit \subseteq audit'
BY DEF Next, vars, WriteFacts, CreateOrder, UpdateOrder, InvalidatePending, DeleteOrder,
       UpsertPayment, Propose, BuildPreview, Decide, RejectAction, MarkStale, Close,
       ExecuteRefund, ExecuteStale, VerifyRefund, ReservePreview

(* An action id names one preview: build_refund_preview draws a fresh one. *)
LEMMA SameBuiltStep ==
  ASSUME SameBuilt, [Next]_vars
  PROVE  SameBuilt'
<1>1. CASE built' = built
  BY <1>1 DEF SameBuilt
<1>2. ASSUME NEW a, NEW t, NEW o, NEW p, NEW now, BuildPreview(a, t, o, p, now)
      PROVE  SameBuilt'
  <2>1. Preview(a, t, o, p).action = a
    BY DEF Preview
  <2> DEFINE new == Preview(a, t, o, p)
  <2>2. built' = built \cup {new} /\ new.action = a /\ \A q \in built : q.action # a
    BY <1>2, <2>1 DEF BuildPreview
  <2> HIDE DEF new
  <2> QED BY <2>2 DEF SameBuilt
<1> QED
  BY <1>1, <1>2 DEF Next, vars, WriteFacts, CreateOrder, UpdateOrder, DeleteOrder,
     UpsertPayment, Propose, Decide, RejectAction, MarkStale, Close, ExecuteRefund,
     ExecuteStale, VerifyRefund, ReservePreview

(* An answer that held holds on, unless its conflict is reserved after all. *)
LEMMA HoldsOn ==
  ASSUME LedgerAssumption, IInv, [Next]_vars, NEW a, NEW status, Holds(a, status),
         status = "refund_conflict" => a \notin DOMAIN action'
  PROVE  Holds(a, status)'
<1>1. IInv'
  BY InvariantStep
<1>2. audit \subseteq audit'
  BY AuditGrows
<1>3. ASSUME a \in DOMAIN action, action[a].status # "awaiting_approval"
      PROVE  a \in DOMAIN action' /\ action'[a].status = action[a].status
  BY <1>3, RequestStep
<1>4. a \in DOMAIN refund => a \in DOMAIN action /\ action[a].status = "completed"
  BY DEF IInv, TypeOK, RefundIsBacked
<1>5. a \in DOMAIN action' /\ action'[a].status = "completed" => a \in DOMAIN refund'
  BY <1>1 DEF IInv, RefundIsBacked
<1> QED
  BY <1>2, <1>3, <1>4, <1>5 DEF Holds

(* A graph stays honest unless what met a conflict is reserved after all,  *)
(* or a conflict is told of what it is about to reserve.                   *)
LEMMA HonestStays ==
  ASSUME LedgerAssumption, IInv, [Next]_vars, NEW t, NEW g, Honest(t, g),
         \A pv \in g.preview :
           /\ g.status = "refund_conflict" => pv.action \notin DOMAIN action'
           /\ g.node = "reserve" => <<pv.action, "refund_conflict">> \notin told' \ told
  PROVE  Honest(t, g)'
<1> SUFFICES ASSUME NEW pv \in g.preview
             PROVE  /\ Holds(pv.action, g.status)'
                    /\ g.node = "await" => pv.action \in DOMAIN action' /\ action'[pv.action].preview = pv
  BY DEF Honest, Holds
<1>1. Holds(pv.action, g.status)
  BY DEF Honest
<1>2. Holds(pv.action, g.status)'
  BY <1>1, HoldsOn
<1>3. CASE g.node = "await"
  BY <1>2, <1>3, RequestStep DEF Honest
<1> QED BY <1>2, <1>3

(* What was told holds on while no request is added.                       *)
LEMMA ToldStays ==
  ASSUME LedgerAssumption, IInv, [Next]_vars, ToldSound,
         DOMAIN action' \subseteq DOMAIN action
  PROVE  \A m \in told : Holds(m[1], m[2])' /\ \E pv \in built' : pv.action = m[1]
<1> SUFFICES ASSUME NEW m \in told
             PROVE  Holds(m[1], m[2])' /\ \E pv \in built' : pv.action = m[1]
  OBVIOUS
<1>1. Holds(m[1], m[2]) /\ \E pv \in built : pv.action = m[1]
  BY DEF ToldSound
<1>2. m[2] = "refund_conflict" => m[1] \notin DOMAIN action'
  BY <1>1 DEF Holds
<1> QED BY <1>1, <1>2, HoldsOn, BuiltGrows

(* A step that adds no request and tells nothing: graphs and checkpoints   *)
(* become honest ones.                                                     *)
LEMMA TalkMoves ==
  ASSUME LedgerAssumption, IInv, TalkInv, [Next]_vars,
         DOMAIN action' \subseteq DOMAIN action, told' = told,
         \A u \in Tasks : \E g, s :
           /\ graph'[u] = g /\ saved'[u] = s
           /\ Honest(u, g) \/ Honest(u, g)'
           /\ Honest(u, s)
           /\ Unanswered(g, s)
  PROVE  TalkInv'
<1>1. SameBuilt'
  BY SameBuiltStep DEF TalkInv
<1>2. ToldSound'
  BY ToldStays DEF TalkInv, ToldSound
<1>3. ASSUME NEW u, NEW g, Honest(u, g)
      PROVE  Honest(u, g)'
  <2>1. \A pv \in g.preview : g.status = "refund_conflict" => pv.action \notin DOMAIN action'
    BY <1>3 DEF Honest, Holds
  <2> QED BY <1>3, <2>1, HonestStays
<1>4. ASSUME NEW u \in Tasks
      PROVE  Honest(u, graph[u])' /\ Honest(u, saved[u])' /\ Unanswered(graph[u], saved[u])'
  <2> PICK g, s : /\ graph'[u] = g /\ saved'[u] = s
                  /\ Honest(u, g) \/ Honest(u, g)'
                  /\ Honest(u, s)
                  /\ Unanswered(g, s)
    BY <1>4
  <2>1. Honest(u, g)' /\ Honest(u, s)'
    BY <1>3
  <2> QED BY <2>1 DEF Honest, Holds, Unanswered
<1> QED
  BY <1>1, <1>2, <1>4 DEF TalkInv

(* The same for one thread whose graph moves to an honest one.             *)
LEMMA GraphMoves ==
  ASSUME LedgerAssumption, IInv, FlowInv, TalkInv, [Next]_vars,
         DOMAIN action' \subseteq DOMAIN action, told' = told, saved' = saved,
         NEW t \in Tasks, NEW g, graph' = [graph EXCEPT ![t] = g],
         Honest(t, g) \/ Honest(t, g)', Unanswered(g, saved[t])
  PROVE  TalkInv'
<1>1. ASSUME NEW u \in Tasks
      PROVE  \E h, s : /\ graph'[u] = h /\ saved'[u] = s
                       /\ Honest(u, h) \/ Honest(u, h)'
                       /\ Honest(u, s)
                       /\ Unanswered(h, s)
  <2>1. Honest(u, graph[u]) /\ Honest(u, saved[u]) /\ Unanswered(graph[u], saved[u])
    BY DEF TalkInv
  <2>2. graph'[u] = IF u = t THEN g ELSE graph[u]
    BY DEF FlowInv
  <2>3. CASE u = t
    <3>1. graph'[u] = g /\ saved'[u] = saved[u]
      BY <2>2, <2>3
    <3> WITNESS g, saved[u]
    <3> QED BY <2>1, <2>3, <3>1
  <2>4. CASE u # t
    <3>1. graph'[u] = graph[u] /\ saved'[u] = saved[u]
      BY <2>2, <2>4
    <3> WITNESS graph[u], saved[u]
    <3> QED BY <2>1, <3>1
  <2> QED BY <2>3, <2>4
<1> QED BY <1>1, TalkMoves

(* The same when the graph of a thread is saved, and kept or let go.       *)
LEMMA GraphSaved ==
  ASSUME LedgerAssumption, IInv, FlowInv, TalkInv, [Next]_vars,
         DOMAIN action' \subseteq DOMAIN action, told' = told,
         NEW t \in Tasks, saved' = [saved EXCEPT ![t] = graph[t]],
         graph' = graph \/ graph' = [graph EXCEPT ![t] = Idle]
  PROVE  TalkInv'
<1>1. Idle.preview = {} /\ Idle.node = "none"
  BY DEF Idle, Fresh
<1>2. ASSUME NEW u \in Tasks
      PROVE  \E h, s : /\ graph'[u] = h /\ saved'[u] = s
                       /\ Honest(u, h) \/ Honest(u, h)'
                       /\ Honest(u, s)
                       /\ Unanswered(h, s)
  <2>1. /\ Honest(u, graph[u]) /\ Honest(u, saved[u]) /\ Unanswered(graph[u], saved[u])
        /\ Honest(u, Idle)
        /\ \A s : Unanswered(Idle, s)
    BY <1>1 DEF TalkInv, Honest, Unanswered
  <2>2. Unanswered(graph[u], graph[u])
    BY <2>1 DEF Honest, Unanswered
  <2>3. \/ graph'[u] = graph[u] /\ saved'[u] \in {graph[u], saved[u]}
        \/ graph'[u] = Idle /\ saved'[u] = graph[u]
    BY DEF FlowInv
  <2>4. ASSUME NEW h, NEW s, graph'[u] = h, saved'[u] = s, Honest(u, h), Honest(u, s),
               Unanswered(h, s)
        PROVE  \E hh, ss : /\ graph'[u] = hh /\ saved'[u] = ss
                           /\ Honest(u, hh) \/ Honest(u, hh)'
                           /\ Honest(u, ss)
                           /\ Unanswered(hh, ss)
    BY <2>4
  <2>5. CASE graph'[u] = graph[u] /\ saved'[u] = graph[u]
    BY <2>1, <2>2, <2>4, <2>5
  <2>6. CASE graph'[u] = graph[u] /\ saved'[u] = saved[u]
    BY <2>1, <2>4, <2>6
  <2>7. CASE graph'[u] = Idle /\ saved'[u] = graph[u]
    BY <2>1, <2>4, <2>7
  <2> QED BY <2>3, <2>5, <2>6, <2>7
<1> QED BY <1>2, TalkMoves

(* Requests, the start, the end and the failure of a run, and a restart.   *)
LEMMA TalkRequestStep ==
  ASSUME LedgerAssumption, IInv, FlowInv, TalkInv, [Next]_vars, UNCHANGED vars,
         NEW t \in Tasks, Request(t) \/ StartRun(t) \/ FailRun(t) \/ Checkpoint(t)
  PROVE  TalkInv'
<1>1. DOMAIN action' \subseteq DOMAIN action
  BY DEF vars
<1>2. /\ \A node : Fresh(node).preview = {} /\ Fresh(node).node = node
      /\ Idle = Fresh("none") /\ Ready = Fresh("ready")
  BY DEF Fresh, Idle, Ready
<1>3. \A node \in {"none", "ready", "start"} :
        Honest(t, Fresh(node)) /\ Unanswered(Fresh(node), saved[t])
  BY <1>2 DEF Honest, Unanswered
<1>4. /\ Honest(t, graph[t]) /\ Unanswered(graph[t], saved[t])
      /\ Honest(t, saved[t]) /\ Unanswered(saved[t], saved[t])
  BY DEF TalkInv, Honest, Unanswered
<1>5. CASE Request(t)
  <2>1. told' = told /\ saved' = saved
    BY <1>5 DEF Request, SubmitMessage, RetryRun, AskDecision, AcceptDecision
  <2>2. graph' = graph \/ graph' = [graph EXCEPT ![t] = Ready]
    BY <1>5 DEF Request, SubmitMessage, RetryRun, AskDecision, AcceptDecision, Begin
  <2>3. graph' = graph => graph' = [graph EXCEPT ![t] = graph[t]]
    BY DEF FlowInv
  <2> QED BY <1>1, <1>2, <1>3, <1>4, <2>1, <2>2, <2>3, GraphMoves
<1>6. CASE StartRun(t)
  <2>1. told' = told /\ saved' = saved
    BY <1>6 DEF StartRun
  <2>2. \/ graph' = [graph EXCEPT ![t] = Fresh("start")]
        \/ graph' = [graph EXCEPT ![t] = saved[t]]
    BY <1>6 DEF StartRun
  <2> QED BY <1>1, <1>3, <1>4, <2>1, <2>2, GraphMoves
<1>7. CASE Fails(t)
  BY <1>1, <1>7, GraphSaved DEF Fails
<1>8. CASE FailRun(t)
  <2>1. ~Fails(t) => /\ told' = told /\ saved' = saved
                     /\ graph' = [graph EXCEPT ![t] = Idle]
    BY <1>8 DEF FailRun
  <2> QED BY <1>1, <1>2, <1>3, <1>7, <2>1, GraphMoves
<1>9. CASE Checkpoint(t)
  BY <1>1, <1>9, GraphSaved DEF Checkpoint
<1> QED BY <1>5, <1>6, <1>8, <1>9

LEMMA TalkRestartStep ==
  ASSUME LedgerAssumption, IInv, FlowInv, TalkInv, [Next]_vars, Restart
  PROVE  TalkInv'
<1>1. /\ DOMAIN action' \subseteq DOMAIN action /\ told' = told /\ saved' = saved
      /\ \A u \in Tasks : graph'[u] = Idle
  BY DEF Restart, vars
<1>2. ASSUME NEW u \in Tasks
      PROVE  \E h, s : /\ graph'[u] = h /\ saved'[u] = s
                       /\ Honest(u, h) \/ Honest(u, h)'
                       /\ Honest(u, s)
                       /\ Unanswered(h, s)
  <2>1. Honest(u, Idle) /\ Honest(u, saved[u]) /\ Unanswered(Idle, saved[u])
    BY DEF TalkInv, Idle, Fresh, Honest, Unanswered
  <2>2. graph'[u] = Idle /\ saved'[u] = saved[u]
    BY <1>1
  <2> WITNESS Idle, saved[u]
  <2> QED BY <2>1, <2>2
<1> QED BY <1>1, <1>2, TalkMoves

(* The message of a run says what its graph says, and no other thread is   *)
(* about to reserve the preview it names.                                  *)
LEMMA TalkCompleteStep ==
  ASSUME LedgerAssumption, IInv, FlowInv, TalkInv, [Next]_vars,
         NEW t \in Tasks, CompleteRun(t)
  PROVE  TalkInv'
<1>1. /\ UNCHANGED vars
      /\ told' = told \cup {<<pv.action, graph[t].status>> : pv \in graph[t].preview}
      /\ saved' = [saved EXCEPT ![t] = graph[t]]
      /\ graph' = [graph EXCEPT ![t] = Idle]
      /\ graph[t].node # "reserve"
  BY DEF CompleteRun, Stopped
<1>2. DOMAIN action' \subseteq DOMAIN action /\ built' = built
  BY <1>1 DEF vars
<1>3. Idle.preview = {} /\ Idle.node = "none"
  BY DEF Idle, Fresh
<1>4. /\ graph[t].preview \subseteq built /\ graph[t].status \in Statuses
      /\ built \subseteq Previews
  BY DEF FlowInv, Held, IInv, TypeOK
<1> PICK g : g = graph[t]
  OBVIOUS
<1>5. ASSUME NEW pv \in g.preview
      PROVE  /\ pv \in built /\ pv.action \in Actions /\ pv.task = t
             /\ g.status = "refund_conflict" => pv.action \notin DOMAIN action'
             /\ Holds(pv.action, g.status)'
  <2>1. Holds(pv.action, g.status) /\ pv.task = t
    BY <1>5 DEF TalkInv, Honest
  <2>2. g.status = "refund_conflict" => pv.action \notin DOMAIN action'
    BY <1>2, <2>1 DEF Holds
  <2>3. Holds(pv.action, g.status)'
    BY <2>1, <2>2, HoldsOn
  <2> QED BY <1>4, <1>5, <2>1, <2>2, <2>3 DEF Previews
<1>6. ToldSound'
  <2>1. ASSUME NEW m \in told'
        PROVE  /\ m \in Actions \X Statuses
               /\ Holds(m[1], m[2])'
               /\ \E pv \in built' : pv.action = m[1]
    <3>1. CASE m \in told
      BY <1>2, <3>1, ToldStays DEF TalkInv, ToldSound
    <3>2. ASSUME NEW pv \in g.preview, m = <<pv.action, g.status>>
          PROVE  /\ m \in Actions \X Statuses
                 /\ Holds(m[1], m[2])'
                 /\ \E q \in built' : q.action = m[1]
      BY <1>2, <1>4, <1>5, <3>2 DEF Holds
    <3> QED BY <1>1, <3>1, <3>2
  <2> QED BY <2>1 DEF ToldSound
<1>7. ASSUME NEW u \in Tasks, NEW h, Honest(u, h), h.preview \subseteq built,
             h.node = "reserve" => u # t
      PROVE  Honest(u, h)'
  <2>1. ASSUME NEW q \in h.preview
        PROVE  /\ h.status = "refund_conflict" => q.action \notin DOMAIN action'
               /\ h.node = "reserve" => <<q.action, "refund_conflict">> \notin told' \ told
    <3>1. Holds(q.action, h.status) /\ q.task = u /\ q \in built
      BY <1>7, <2>1 DEF Honest
    <3>2. \A pv \in g.preview : pv.action = q.action => u = t
      BY <1>5, <3>1 DEF TalkInv, SameBuilt
    <3> QED BY <1>1, <1>2, <1>7, <3>1, <3>2 DEF Holds
  <2> QED BY <1>7, <2>1, HonestStays
<1>8. ASSUME NEW u \in Tasks
      PROVE  Honest(u, graph[u])' /\ Honest(u, saved[u])' /\ Unanswered(graph[u], saved[u])'
  <2>1. /\ graph'[u] = IF u = t THEN Idle ELSE graph[u]
        /\ saved'[u] = IF u = t THEN g ELSE saved[u]
    BY <1>1 DEF FlowInv
  <2>2. /\ Honest(u, graph[u]) /\ graph[u].preview \subseteq built
        /\ Honest(u, saved[u]) /\ saved[u].preview \subseteq built
        /\ Unanswered(graph[u], saved[u])
    BY DEF TalkInv, FlowInv, Held
  <2>3. CASE u = t
    <3>1. Honest(u, g)'
      BY <1>1, <1>7, <2>2, <2>3
    <3> QED BY <1>3, <2>1, <2>3, <3>1 DEF Honest, Holds, Unanswered
  <2>4. CASE u # t
    <3> PICK h, s : h = graph[u] /\ s = saved[u]
      OBVIOUS
    <3>1. Honest(u, h)' /\ Honest(u, s)' /\ Unanswered(h, s)
      BY <1>7, <2>2, <2>4
    <3>2. graph'[u] = h /\ saved'[u] = s
      BY <2>1, <2>4
    <3> QED BY <3>1, <3>2 DEF Honest, Holds, Unanswered
  <2> QED BY <2>3, <2>4
<1>9. SameBuilt'
  BY <1>2 DEF TalkInv, SameBuilt
<1> QED BY <1>6, <1>8, <1>9 DEF TalkInv

(* The reservation: the request appears, and the graph waits on it.        *)
LEMMA TalkReserveStep ==
  ASSUME LedgerAssumption, IInv, FlowInv, TalkInv, [Next]_vars,
         NEW t \in Tasks, NEW pv \in graph[t].preview,
         ReserveNode(t, pv), ReservePreview(pv)
  PROVE  TalkInv'
<1>1. /\ pv \in built /\ graph[t].preview = {pv} /\ graph[t].node = "reserve"
      /\ pv.task = t /\ <<pv.action, "refund_conflict">> \notin told
  BY DEF ReserveNode, At, FlowInv, Held, Sanctioned, TalkInv, Honest
<1>2. /\ DOMAIN action' = DOMAIN action \cup {pv.action}
      /\ action'[pv.action].preview = pv
  BY <1>1, ReserveRows
<1>3. UNCHANGED <<built, refund, audit>> \/ UNCHANGED <<built, refund>>
  BY DEF ReservePreview
<1>4. /\ told' = told /\ saved' = saved
      /\ graph' = [graph EXCEPT ![t].node = "await", ![t].status = "refund_awaiting_approval"]
  BY <1>1, <1>2 DEF ReserveNode, Moved, ReservePreview
<1>5. ToldSound'
  <2>1. ASSUME NEW m \in told
        PROVE  Holds(m[1], m[2])'
    <3>1. Holds(m[1], m[2]) /\ m = <<m[1], m[2]>>
      BY DEF TalkInv, ToldSound
    <3>2. m[2] = "refund_conflict" => m[1] \notin DOMAIN action'
      BY <1>1, <1>2, <3>1 DEF Holds
    <3> QED BY <3>1, <3>2, HoldsOn
  <2> QED BY <1>3, <1>4, <2>1 DEF TalkInv, ToldSound
<1>6. ASSUME NEW u \in Tasks, NEW h, Honest(u, h), h.preview \subseteq built,
             u = t /\ pv \in h.preview => h.status # "refund_conflict"
      PROVE  Honest(u, h)'
  <2>1. ASSUME NEW q \in h.preview, h.status = "refund_conflict"
        PROVE  q.action \notin DOMAIN action'
    <3>1. q.action \notin DOMAIN action /\ q.task = u /\ q \in built
      BY <1>6, <2>1 DEF Honest, Holds
    <3>2. q.action = pv.action => q = pv
      BY <1>1, <3>1 DEF TalkInv, SameBuilt
    <3> QED BY <1>1, <1>2, <1>6, <2>1, <3>1, <3>2
  <2> QED BY <1>4, <1>6, <2>1, HonestStays
<1>7. ASSUME NEW u \in Tasks
      PROVE  Honest(u, graph[u])' /\ Honest(u, saved[u])' /\ Unanswered(graph[u], saved[u])'
  <2> PICK s : s = saved[u]
    OBVIOUS
  <2>1. /\ Honest(u, graph[u]) /\ graph[u].preview \subseteq built
        /\ Honest(u, s) /\ s.preview \subseteq built /\ saved'[u] = s
        /\ Unanswered(graph[u], s)
    BY <1>4 DEF TalkInv, FlowInv, Held
  <2>2. u = t /\ pv \in s.preview => s.status # "refund_conflict"
    BY <1>1, <2>1 DEF Unanswered
  <2>3. Honest(u, s)'
    BY <1>6, <2>1, <2>2
  <2>4. CASE u = t
    <3>1. /\ graph'[u].node = "await" /\ graph'[u].preview = {pv}
          /\ graph'[u].status = "refund_awaiting_approval"
      BY <1>1, <1>4, <2>4 DEF FlowInv, Held
    <3>2. Honest(u, graph[u])'
      BY <1>1, <1>2, <2>4, <3>1 DEF Honest, Holds
    <3> QED BY <2>1, <2>3, <3>1, <3>2 DEF Honest, Holds, Unanswered
  <2>5. CASE u # t
    <3> PICK h : h = graph[u]
      OBVIOUS
    <3>1. Honest(u, h)' /\ graph'[u] = h
      BY <1>4, <1>6, <2>1, <2>5 DEF FlowInv
    <3> QED BY <2>1, <2>3, <3>1 DEF Honest, Holds, Unanswered
  <2> QED BY <2>4, <2>5
<1>8. SameBuilt'
  BY SameBuiltStep DEF TalkInv
<1> QED BY <1>5, <1>7, <1>8 DEF TalkInv

(* A node that moves on without an answer, and one that answers.           *)
LEMMA TalkGoTo ==
  ASSUME LedgerAssumption, IInv, FlowInv, TalkInv, [Next]_vars,
         DOMAIN action' \subseteq DOMAIN action,
         NEW t \in Tasks, NEW node \in Nodes \ {"reserve", "await"}, Moved(GoTo(t, node))
  PROVE  TalkInv'
<1> PICK g : g = [graph[t] EXCEPT !.node = node]
  OBVIOUS
<1>1. graph' = [graph EXCEPT ![t] = g] /\ told' = told /\ saved' = saved
  BY DEF Moved, GoTo, FlowInv
<1>2. g.node = node /\ g.preview = graph[t].preview /\ g.status = graph[t].status
  BY DEF FlowInv, Held
<1>3. Honest(t, graph[t])
  BY DEF TalkInv
<1>4. Honest(t, g) /\ Unanswered(g, saved[t])
  BY <1>2, <1>3 DEF Honest, Unanswered
<1> QED BY <1>1, <1>4, GraphMoves

LEMMA TalkRespond ==
  ASSUME LedgerAssumption, IInv, FlowInv, TalkInv, [Next]_vars,
         DOMAIN action' \subseteq DOMAIN action,
         NEW t \in Tasks, NEW status, Moved(Respond(t, status)),
         \A pv \in graph[t].preview : Holds(pv.action, status)'
  PROVE  TalkInv'
<1> PICK g : g = [graph[t] EXCEPT !.node = "end", !.status = status]
  OBVIOUS
<1>1. graph' = [graph EXCEPT ![t] = g] /\ told' = told /\ saved' = saved
  BY DEF Moved, Respond, FlowInv
<1>2. g.node = "end" /\ g.preview = graph[t].preview /\ g.status = status
  BY DEF FlowInv, Held
<1>3. \A pv \in graph[t].preview : pv.task = t
  BY DEF TalkInv, Honest
<1>4. Honest(t, g)'
  <2>1. \A pv \in g.preview : Holds(pv.action, g.status)'
    BY <1>2
  <2> QED BY <1>2, <1>3, <2>1 DEF Honest
<1>5. Unanswered(g, saved[t])
  BY <1>2 DEF Unanswered
<1> QED BY <1>1, <1>4, <1>5, GraphMoves

(* The new preview is nobody's yet.                                        *)
LEMMA TalkFirstStep ==
  ASSUME LedgerAssumption, IInv, FlowInv, TalkInv, [Next]_vars,
         NEW t \in Tasks, BuildNode(t) \/ DeclineNode(t)
  PROVE  TalkInv'
<1>1. DOMAIN action' \subseteq DOMAIN action
  BY DEF BuildNode, DeclineNode, BuildPreview, vars
<1>2. CASE DeclineNode(t)
  <2>1. \A a : Holds(a, "refund_ineligible")'
    BY DEF Holds
  <2> QED BY <1>1, <1>2, <2>1, TalkRespond DEF DeclineNode
<1>3. CASE BuildNode(t)
  <2> PICK o \in Orders, a \in Actions, p \in Policies, now \in Times :
         /\ BuildPreview(a, t, o, p, now)
         /\ Moved([graph EXCEPT ![t] = [node |-> "reserve", status |-> "none",
                                        preview |-> {Preview(a, t, o, p)}]])
    BY <1>3 DEF BuildNode
  <2> PICK new : new = Preview(a, t, o, p)
    OBVIOUS
  <2>1. new.action = a /\ new.task = t
    BY DEF Preview
  <2>2. \A q \in built : q.action # a
    BY DEF BuildPreview
  <2> PICK g : g = [node |-> "reserve", status |-> "none", preview |-> {new}]
    OBVIOUS
  <2>3. graph' = [graph EXCEPT ![t] = g] /\ told' = told /\ saved' = saved
    BY DEF Moved
  <2>4. <<a, "refund_conflict">> \notin told
    <3>1. ASSUME <<a, "refund_conflict">> \in told PROVE FALSE
      <4> PICK m : m = <<a, "refund_conflict">>
        OBVIOUS
      <4>1. m \in told /\ m[1] = a
        BY <3>1
      <4> QED BY <2>2, <4>1 DEF TalkInv, ToldSound
    <3> QED BY <3>1
  <2>5. Honest(t, g)
    BY <2>1, <2>4 DEF Honest, Holds
  <2>6. Unanswered(g, saved[t])
    <3>1. saved[t].preview \subseteq built
      BY DEF FlowInv, Held
    <3> QED BY <2>1, <2>2, <3>1 DEF Unanswered
  <2> QED BY <1>1, <2>3, <2>5, <2>6, GraphMoves
<1> QED BY <1>2, <1>3

(* A conflict is answered only about a preview that was never reserved.    *)
LEMMA TalkReserveNodeStep ==
  ASSUME LedgerAssumption, IInv, FlowInv, TalkInv, [Next]_vars,
         NEW t \in Tasks, NEW pv \in graph[t].preview, ReserveNode(t, pv)
  PROVE  TalkInv'
<1>1. /\ pv \in built /\ graph[t].preview = {pv} /\ pv.task = t
  BY DEF FlowInv, Held, Sanctioned, TalkInv, Honest
<1>2. CASE CanReserve(pv)
  BY <1>2, TalkReserveStep DEF ReserveNode
<1>3. CASE ~CanReserve(pv) /\ IsReserved(pv)
  <2> PICK g : g = [graph[t] EXCEPT !.node = "await", !.status = "refund_awaiting_approval"]
    OBVIOUS
  <2>1. UNCHANGED vars /\ graph' = [graph EXCEPT ![t] = g] /\ told' = told /\ saved' = saved
    BY <1>3 DEF ReserveNode, Moved, FlowInv
  <2>2. g.node = "await" /\ g.preview = {pv} /\ g.status = "refund_awaiting_approval"
    BY <1>1 DEF FlowInv, Held
  <2>3. Honest(t, g) /\ Unanswered(g, saved[t])
    BY <1>1, <1>3, <2>2 DEF Honest, Holds, Unanswered, IsReserved
  <2>4. DOMAIN action' \subseteq DOMAIN action
    BY <2>1 DEF vars
  <2> QED BY <2>1, <2>3, <2>4, GraphMoves
<1>4. CASE ~CanReserve(pv) /\ ~IsReserved(pv)
  <2>1. UNCHANGED vars /\ Moved(Respond(t, "refund_conflict"))
    BY <1>4 DEF ReserveNode, AfterConflict
  <2>2. pv.action \notin DOMAIN action
    <3>1. ASSUME pv.action \in DOMAIN action PROVE FALSE
      <4>1. /\ action[pv.action].preview \in built
            /\ action[pv.action].preview.action = pv.action
            /\ action[pv.action].preview.order \in DOMAIN order
            /\ action[pv.action].preview.order \in DOMAIN payment
        BY <3>1 DEF IInv, TypeOK, PreviewsSound, NoOrphanAction
      <4>2. action[pv.action].preview = pv
        BY <1>1, <4>1 DEF TalkInv, SameBuilt
      <4> QED BY <1>4, <3>1, <4>1, <4>2 DEF IsReserved
    <3> QED BY <3>1
  <2>3. \A q \in graph[t].preview : Holds(q.action, "refund_conflict")'
    BY <1>1, <2>1, <2>2 DEF Holds, vars
  <2>4. DOMAIN action' \subseteq DOMAIN action
    BY <2>1 DEF vars
  <2> QED BY <2>1, <2>3, <2>4, TalkRespond
<1> QED BY <1>2, <1>3, <1>4

(* The nodes behind the interrupt answer with what they wrote or read.     *)
LEMMA TalkNodesStep ==
  ASSUME LedgerAssumption, IInv, FlowInv, TalkInv, [Next]_vars,
         DOMAIN action' \subseteq DOMAIN action,
         NEW t \in Tasks, NEW pv \in graph[t].preview,
         \/ AwaitNode(t, pv) \/ RejectNode(t, pv) \/ RevalidateNode(t, pv)
         \/ MarkStaleNode(t, pv) \/ ExecuteNode(t, pv) \/ VerifyNode(t, pv)
  PROVE  TalkInv'
<1>1. graph[t].preview = {pv}
  BY DEF FlowInv, Sanctioned
<1>2. CASE Fails(t)
  BY <1>2, GraphSaved DEF Fails
<1>3. ASSUME NEW node \in {"revalidate", "reject", "execute", "mark_stale", "verify"},
             Moved(GoTo(t, node))
      PROVE  TalkInv'
  BY <1>3, TalkGoTo DEF Nodes
<1>4. ASSUME NEW status, Moved(Respond(t, status)), Holds(pv.action, status)'
      PROVE  TalkInv'
  <2>1. \A q \in graph[t].preview : Holds(q.action, status)'
    BY <1>1, <1>4
  <2> QED BY <1>4, <2>1, TalkRespond
<1>5. ASSUME NEW status, pv.action \in DOMAIN action, action' = SetStatus({pv.action}, status)
      PROVE  pv.action \in DOMAIN action' /\ action'[pv.action].status = status
  BY <1>5, StatusIsSet DEF IInv
<1>6. CASE AwaitNode(t, pv)
  <2>1. \A d : Target(d) \in {"revalidate", "reject"}
    BY DEF Target
  <2>2. Fails(t) \/ \E d : Moved(GoTo(t, Target(d)))
    BY <1>6 DEF AwaitNode
  <2> QED BY <1>2, <1>3, <2>1, <2>2
<1>7. CASE RevalidateNode(t, pv)
  BY <1>3, <1>7 DEF RevalidateNode
<1>8. CASE RejectNode(t, pv)
  <2>1. CASE Fails(t)
    BY <1>2, <2>1
  <2>2. CASE /\ Moved(Respond(t, "refund_rejected"))
             /\ RejectAction(pv.action, t, pv) \/
                (IsClosed(pv.action, t, pv, "rejected") /\ UNCHANGED vars)
    <3>1. pv.action \in DOMAIN action' /\ action'[pv.action].status = "rejected"
      BY <1>5, <2>2 DEF RejectAction, Close, CanClose, IsClosed, Accessible, vars
    <3>2. Holds(pv.action, "refund_rejected")'
      BY <3>1 DEF Holds
    <3> QED BY <1>4, <2>2, <3>2
  <2> QED BY <1>8, <2>1, <2>2 DEF RejectNode, CloseNode, CloseFails
<1>9. CASE MarkStaleNode(t, pv)
  <2>1. CASE Fails(t)
    BY <1>2, <2>1
  <2>2. CASE /\ Moved(Respond(t, "refund_preview_stale"))
             /\ MarkStale(pv.action, t, pv) \/
                (IsClosed(pv.action, t, pv, "stale") /\ UNCHANGED vars)
    <3>1. pv.action \in DOMAIN action' /\ action'[pv.action].status = "stale"
      BY <1>5, <2>2 DEF MarkStale, Close, CanClose, IsClosed, Accessible, vars
    <3>2. Holds(pv.action, "refund_preview_stale")'
      BY <3>1 DEF Holds
    <3> QED BY <1>4, <2>2, <3>2
  <2> QED BY <1>9, <2>1, <2>2 DEF MarkStaleNode, CloseNode, CloseFails
<1>10. CASE ExecuteNode(t, pv)
  <2>1. CASE Fails(t)
    BY <1>2, <2>1
  <2>2. CASE Moved(GoTo(t, "verify"))
    BY <1>3, <2>2
  <2>3. CASE Moved(Respond(t, "refund_failed")) /\ ExecuteStale(pv.action, t, pv.fingerprint)
    <3>1. pv.action \in DOMAIN action' /\ action'[pv.action].status = "stale"
      BY <1>5, <2>3 DEF ExecuteStale, CanExecute, Accessible
    <3>2. Holds(pv.action, "refund_failed")'
      BY <3>1 DEF Holds
    <3> QED BY <1>4, <2>3, <3>2
  <2> QED BY <1>10, <2>1, <2>2, <2>3 DEF ExecuteNode
<1>11. CASE VerifyNode(t, pv)
  <2>1. /\ audit' = audit \cup {<<pv.action, VerificationKey(pv.action)>>}
        /\ refund' = refund
        /\ Moved(Respond(t, Verdict(pv.action)))
    BY <1>11 DEF VerifyNode, VerifyRefund
  <2>2. Verdict(pv.action) = "refund_completed" =>
          /\ pv.action \in DOMAIN refund
          /\ VerificationKey(pv.action) = "verification:verified"
    BY DEF Verdict, VerificationKey
  <2> PICK status : status = Verdict(pv.action)
    OBVIOUS
  <2>3. status \in {"refund_completed", "refund_verification_failed"}
    BY DEF Verdict
  <2>4. Holds(pv.action, status)'
    BY <2>1, <2>2, <2>3 DEF Holds
  <2> QED BY <1>4, <2>1, <2>4
<1> QED BY <1>6, <1>7, <1>8, <1>9, <1>10, <1>11

(* Every step keeps what is said true.                                     *)
LEMMA TalkInvStep ==
  ASSUME LedgerAssumption, IInv, FlowInv, TalkInv, [ApprovalNext]_appVars
  PROVE  TalkInv'
<1>1. [Next]_vars
  BY LedgerStep
<1>2. CASE UNCHANGED appVars
  <2>1. /\ action' = action /\ refund' = refund /\ audit' = audit /\ built' = built
        /\ graph' = graph /\ saved' = saved /\ told' = told
    BY <1>2 DEF appVars, vars, flow
  <2> QED BY <2>1 DEF TalkInv, SameBuilt, ToldSound, Honest, Holds, Unanswered
<1>3. CASE ChangeFacts
  <2>1. graph' = graph /\ saved' = saved /\ told' = told
    BY <1>3 DEF ChangeFacts, flow
  <2>2. DOMAIN action' \subseteq DOMAIN action
    <3>1. \A as, status : DOMAIN SetStatus(as, status) = DOMAIN action
      BY DEF SetStatus
    <3>2. action' = action \/ \E o : action' = SetStatus(Awaiting(o), "stale")
      BY <1>3 DEF ChangeFacts, WriteFacts, CreateOrder, UpdateOrder, DeleteOrder,
         UpsertPayment, InvalidatePending
    <3> QED BY <3>1, <3>2
  <2>3. ASSUME NEW u \in Tasks
        PROVE  \E h, s : /\ graph'[u] = h /\ saved'[u] = s
                         /\ Honest(u, h) \/ Honest(u, h)'
                         /\ Honest(u, s)
                         /\ Unanswered(h, s)
    <3>1. graph'[u] = graph[u] /\ saved'[u] = saved[u]
      BY <2>1
    <3> WITNESS graph[u], saved[u]
    <3> QED BY <3>1 DEF TalkInv
  <2> QED BY <1>1, <2>1, <2>2, <2>3, TalkMoves
<1>4. CASE Restart
  BY <1>1, <1>4, TalkRestartStep
<1>5. ASSUME NEW t \in Tasks, Request(t) \/ StartRun(t) \/ FailRun(t) \/ Checkpoint(t)
      PROVE  TalkInv'
  <2>1. UNCHANGED vars
    BY <1>5 DEF Request, SubmitMessage, RetryRun, AskDecision, AcceptDecision, StartRun,
       FailRun, Checkpoint
  <2> QED BY <1>1, <1>5, <2>1, TalkRequestStep
<1>6. ASSUME NEW t \in Tasks, CompleteRun(t)
      PROVE  TalkInv'
  BY <1>1, <1>6, TalkCompleteStep
<1>7. ASSUME NEW t \in Tasks, BuildNode(t) \/ DeclineNode(t)
      PROVE  TalkInv'
  BY <1>1, <1>7, TalkFirstStep
<1>8. ASSUME NEW t \in Tasks, NEW pv \in graph[t].preview, ReserveNode(t, pv)
      PROVE  TalkInv'
  BY <1>1, <1>8, TalkReserveNodeStep
<1>9. ASSUME NEW t \in Tasks, NEW pv \in graph[t].preview,
             \/ AwaitNode(t, pv) \/ RejectNode(t, pv) \/ RevalidateNode(t, pv)
             \/ MarkStaleNode(t, pv) \/ ExecuteNode(t, pv) \/ VerifyNode(t, pv)
      PROVE  TalkInv'
  <2>1. DOMAIN action' \subseteq DOMAIN action
    <3>1. \A as, status : DOMAIN SetStatus(as, status) = DOMAIN action
      BY DEF SetStatus
    <3>2. \/ action' = action
          \/ \E status : action' = SetStatus({pv.action}, status)
      BY <1>9 DEF AwaitNode, RejectNode, RevalidateNode, MarkStaleNode, CloseNode, ExecuteNode,
         VerifyNode, RejectAction, MarkStale, Close, ExecuteRefund, ExecuteStale, VerifyRefund, vars
    <3> QED BY <3>1, <3>2
  <2> QED BY <1>1, <1>9, <2>1, TalkNodesStep
<1> QED
  BY <1>2, <1>3, <1>4, <1>5, <1>6, <1>7, <1>8, <1>9 DEF ApprovalNext, Background, Node

(* Nothing is said before the first message.                               *)
LEMMA TalkInvInit ==
  ASSUME ApprovalInit
  PROVE  TalkInv
<1>1. \A node : Fresh(node).preview = {} /\ Fresh(node).node = node
  BY DEF Fresh
<1>2. \A t \in Tasks : /\ graph[t].preview = {} /\ saved[t].preview = {}
                       /\ graph[t].node = "none" /\ saved[t].node = "end"
  BY <1>1 DEF ApprovalInit, FlowInit, Idle
<1> QED
  BY <1>2 DEF ApprovalInit, FlowInit, Init, TalkInv, SameBuilt, ToldSound, Honest, Unanswered

(* The invariant of what graphs, checkpoints and messages say.             *)
THEOREM TalkInvariant == ApprovalSpec => []TalkInv
<1>1. ApprovalInit => TalkInv
  BY TalkInvInit
<1>2. IInv /\ FlowInv /\ TalkInv /\ [ApprovalNext]_appVars => TalkInv'
  BY LedgerAssumption, TalkInvStep
<1> QED BY <1>1, <1>2, ApprovalInvariant, PTL DEF ApprovalSpec

(* What the conversation said about a request (the response nodes of       *)
(* refund_workflow.py, and the message complete_run writes) is what its    *)
(* row and the refund table say, then and ever after: also when the run    *)
(* was resumed from an older checkpoint, retried or interrupted.           *)
THEOREM ToldIsTrue == ApprovalSpec => []ToldTruth
<1>1. IInv /\ TalkInv => ToldTruth
  <2> SUFFICES ASSUME IInv, TalkInv, NEW a \in Actions
               PROVE  /\ <<a, "refund_completed">> \in told =>
                           a \in DOMAIN refund /\ <<a, "verification:verified">> \in audit
                      /\ <<a, "refund_rejected">> \in told =>
                           a \in DOMAIN action /\ action[a].status = "rejected"
                      /\ <<a, "refund_preview_stale">> \in told =>
                           a \in DOMAIN action /\ action[a].status = "stale"
                      /\ (<<a, "refund_failed">> \in told \/ <<a, "refund_conflict">> \in told) =>
                           a \notin DOMAIN refund
    BY DEF ToldTruth
  <2>1. ASSUME NEW status, <<a, status>> \in told
        PROVE  Holds(a, status)
    <3> PICK m : m = <<a, status>>
      OBVIOUS
    <3> QED BY <2>1 DEF TalkInv, ToldSound
  <2>2. a \in DOMAIN refund => a \in DOMAIN action /\ action[a].status = "completed"
    BY DEF IInv, TypeOK, RefundIsBacked
  <2> QED BY <2>1, <2>2 DEF Holds
<1> QED BY <1>1, ApprovalInvariant, TalkInvariant, PTL

(* A checkpoint that waits for a decision (await_refund_approval's         *)
(* interrupt, which the pending card and the decision route read) names a  *)
(* stored request of this thread, with the preview the customer was shown. *)
THEOREM InterruptIsStored == ApprovalSpec => []InterruptHasAction
<1>1. TalkInv => InterruptHasAction
  <2> SUFFICES ASSUME TalkInv, NEW t \in Tasks, Interrupted(t)
               PROVE  \E pv \in saved[t].preview : Accessible(pv.action, t)
                                                    /\ action[pv.action].preview = pv
    BY DEF InterruptHasAction
  <2>1. Honest(t, saved[t])
    BY DEF TalkInv
  <2>2. saved[t].preview # {}
    BY <2>1 DEF Honest, Interrupted
  <2> PICK pv \in saved[t].preview : TRUE
    BY <2>2
  <2>3. pv.task = t /\ pv.action \in DOMAIN action /\ action[pv.action].preview = pv
    BY <2>1 DEF Honest, Interrupted
  <2> QED BY <2>3 DEF Accessible
<1> QED BY <1>1, TalkInvariant, PTL

=============================================================================
