-------------------------------- MODULE L2Case --------------------------------
(***************************************************************************)
(* The L2 support loop of one conversation: the nodes of l2_workflow.py,   *)
(* the runs that drive them (conversation_runtime.py, chat.py), the case,  *)
(* call and manifest rows (adapters/sqlite_l2.py), and one long-term       *)
(* preference (l2_memory.py).  L2Context says what the model is shown.     *)
(*                                                                         *)
(* As in RefundApproval the stores have no common transaction: the rows    *)
(* are written at once, the graph a run executes is in memory and reaches  *)
(* the checkpoint (saved) behind the node that produced it.  A node that   *)
(* did not end is executed again from its first line.                      *)
(*                                                                         *)
(* A case is named by the preview it was confirmed from, a call and its    *)
(* manifest by the case and the number of the call.  The public trace and  *)
(* wording are left out; the refund flow, which RefundApproval models, is  *)
(* a node that may wait.  The budget of active milliseconds is not         *)
(* modelled: time only stops the loop earlier.                             *)
(***************************************************************************)
EXTENDS L2Context

CONSTANTS
  MaxPreviews,     \* bound: upgrade previews shown
  MaxVersion,      \* bound: versions of a source
  Tools,           \* the sources the model reads with a tool
  Torn,            \* the texts of the policy that contradict themselves
  Values,          \* the values of the preference
  Texts,           \* what the customer answers
  MaxModelCalls, MaxToolCalls, MaxToolFailures, MaxTokens,
  MaxInput,        \* tokens of the largest context
  Reserve,         \* tokens kept for the answer
  Base,            \* tokens of the control and goal candidates
  Envelope,        \* tokens of a request around its context
  Chat,            \* relevant messages
  DailyLimit       \* model calls a user may make in a day; the model's day does not end

Limits == {MaxModelCalls, MaxToolCalls, MaxToolFailures, MaxTokens, DailyLimit}

ASSUME L2Assumption ==
  /\ Limits \cup {MaxPreviews, MaxVersion} \subseteq Nat \ {0}
  /\ {MaxInput, Reserve, Base, Envelope, Chat} \subseteq Nat
  /\ Tools \subseteq Sources
  /\ Torn \subseteq Nat

VARIABLES
  world,     \* source -> its current version, and the text of the policy
  pref,      \* {} or {[value, id]}: the stored preference and its proposal
  daily,     \* model calls of the user today
  cases,     \* preview -> l2_support_cases row
  metered,   \* <<case, number>> -> the charge of a registered model call
  manifest,  \* <<case, number>> -> the context saved before the call
  shown,     \* number of upgrade previews shown so far
  graph,     \* the state the run executes, or NoGraph
  saved,     \* the same, in the checkpoint database
  run,       \* what the active run was accepted for, or NoRun
  gate,      \* conversations.pending_action
  asked,     \* decisions that passed a route's checks
  decided    \* decisions accepted: the client ids

rows   == <<world, pref, daily, cases, metered, manifest>>
flow   == <<shown, graph, saved, run, gate, asked, decided>>
l2vars == <<rows, flow>>

Previews == 1..MaxPreviews
Open     == {"l2_active", "l2_waiting_user", "l2_waiting_approval"}
Closed   == {"l2_resolved", "l2_unresolved", "l2_stopped", "l2_budget_exhausted"}

NoDecision == [kind |-> "none"]
NoRun      == [kind |-> "none"]
Message(text) == [kind |-> "message", text |-> text]
Decision(d)   == [kind |-> "decision", id |-> d[1], answer |-> d[2]]

\* L2RuntimeState before an upgrade.
NoRuntime == [preview |-> 0, phase |-> "active", calls |-> 0, tokens |-> 0,
              tools |-> 0, fails |-> 0, last |-> "none", rep |-> 0,
              decision |-> NoDecision, heard |-> "issue", obs |-> <<>>, evid |-> {}]

\* A state of the graph: the node it is about to execute, what the nodes left,
\* whether the run had quota when it began, the value an interrupt is resumed
\* with, whether the node waits at its interrupt, and how far a node got that
\* changes a store before it ends.
NoGraph == [node |-> "none"]
At(node, rt, quota) == [node |-> node, rt |-> rt, quota |-> quota, input |-> {},
                        paused |-> FALSE, work |-> [done |-> "nothing"]]

-----------------------------------------------------------------------------
(* Requests                                                                *)

\* The decision a paused state waits for, and the interrupt's public name.
Pending(s) ==
  LET id == <<s.rt.preview, s.rt.calls>>
  IN CASE s.paused /\ s.node = "await_upgrade_confirmation" -> <<"upgrade", id>>
       [] s.paused /\ s.node = "await_memory_confirmation"  -> <<"memory", id>>
       [] s.paused /\ s.node = "await_refund_approval"      -> <<"refund", id>>
       [] s.paused /\ s.node = "await_user_input"           -> <<"user_input", id>>
       [] OTHER                                             -> <<"nothing", id>>

Decidable(s) == Pending(s)[1] \in {"upgrade", "memory", "refund"}

\* submit_message; retry_run sends the text again and does not look at the gate.
Send(text, retried) ==
  /\ run = NoRun
  /\ retried \/ gate \in {"nothing", "user_input"}
  /\ run' = Message(text)
  /\ UNCHANGED <<rows, shown, graph, saved, gate, asked, decided>>

\* decide_l2_upgrade, decide_l2_memory, decide_refund: up to their checks.
\* Bound: one decision at a time is on its way.
AskDecision(answer) ==
  /\ asked = {}
  /\ Decidable(saved)
  /\ <<Pending(saved), answer>> \notin decided
  /\ asked' = {<<Pending(saved), answer>>}
  /\ UNCHANGED <<rows, shown, graph, saved, run, gate, decided>>

\* accept_action, in its own transaction: the checkpoint is not read again.
AcceptDecision(d) ==
  /\ asked' = asked \ {d}
  /\ IF d \in decided \/ run # NoRun
     THEN UNCHANGED <<run, decided>>
     ELSE run' = Decision(d) /\ decided' = decided \cup {d}
  /\ UNCHANGED <<rows, shown, graph, saved, gate>>

-----------------------------------------------------------------------------
(* A run                                                                   *)

\* fail_run: nodes that ended are in the checkpoint, a node that did not is
\* executed again; the conversation row keeps its pending action.
\* A checkpoint that waits for nothing is read only by a decision that is on
\* its way: without one, what it holds is left out.
Ended == At("end", NoRuntime, FALSE)
Interrupted(s, coming) ==
  IF s.paused \/ coming # {}
  THEN [s EXCEPT !.input = {}, !.quota = FALSE, !.work = [done |-> "nothing"]]
  ELSE Ended

Fails ==
  /\ saved' = IF graph = NoGraph THEN saved ELSE Interrupted(graph, asked)
  /\ run' = NoRun
  /\ graph' = NoGraph
  /\ UNCHANGED <<shown, gate, asked, decided>>

FailRun == run # NoRun /\ Fails /\ UNCHANGED rows

\* The process stops; the checkpoint may lag behind the nodes that ended.
Restart ==
  /\ saved' \in {Interrupted(s, {}) : s \in {saved, graph} \ {NoGraph}}
  /\ run' = NoRun
  /\ graph' = NoGraph
  /\ asked' = {}
  /\ UNCHANGED <<rows, shown, gate, decided>>

\* _execute_graph resumes only a checkpoint that waits for the customer's
\* answer.  Any other message pays for its interpretation and starts over:
\* bind_and_interpret drops the L2 runtime, and nothing looks after its case.
StartMessage ==
  /\ run.kind = "message" /\ graph = NoGraph
  /\ IF Pending(saved)[1] = "user_input"
     THEN /\ graph' = [saved EXCEPT !.quota = daily < DailyLimit, !.input = {run}]
          /\ UNCHANGED <<rows, shown, saved, run, gate, asked, decided>>
     ELSE IF daily = DailyLimit THEN Fails /\ UNCHANGED rows
     ELSE /\ daily' = daily + 1
          /\ graph' = At("bind_and_interpret", NoRuntime, daily' < DailyLimit)
          /\ UNCHANGED <<world, pref, cases, metered, manifest,
                         shown, saved, run, gate, asked, decided>>

\* _execute_action_graph: a decision resumes the graph where it stands.
StartDecision ==
  /\ run.kind = "decision" /\ graph = NoGraph
  /\ graph' = [saved EXCEPT !.quota = daily < DailyLimit, !.input = {run}]
  /\ UNCHANGED <<rows, shown, saved, run, gate, asked, decided>>

\* complete_run, when the graph ended or stopped at an interrupt.
CompleteRun ==
  /\ graph # NoGraph
  /\ graph.node = "end" \/ (graph.paused /\ graph.input = {})
  /\ saved' = Interrupted(graph, asked)
  /\ gate' = Pending(graph)[1]
  /\ run' = NoRun
  /\ graph' = NoGraph
  /\ UNCHANGED <<rows, shown, asked, decided>>

-----------------------------------------------------------------------------
(* The rows of a case                                                      *)

\* INSERT OR IGNORE and the look-ups before an INSERT: a row that is there stays.
Stored(table, key, row) ==
  [k \in DOMAIN table \cup {key} |-> IF k \in DOMAIN table THEN table[k] ELSE row]

\* transition_case: a closed case is left alone, unless it is closed again
\* the same way; the use of the budget never goes back.
CanTransition_Any(c, status) == c \in DOMAIN cases   \* mutant: no expected status
CanTransition(c, status) ==
  c \in DOMAIN cases /\ cases[c].status \in Open \cup {status}

Transition(rt, status, answer) ==
  LET row == cases[rt.preview]
  IN cases' = [cases EXCEPT ![rt.preview] =
       [status |-> status, answer |-> answer,
        calls  |-> Max({row.calls, rt.calls}),
        tokens |-> Max({row.tokens, rt.tokens}),
        tools  |-> Max({row.tools, rt.tools})]]

\* begin_model_call: a registered call is returned as it is, without a charge.
Registered(id) == id \in DOMAIN metered

CanCharge(c, charge) ==
  /\ cases[c].status = "l2_active"
  /\ cases[c].calls < MaxModelCalls
  /\ cases[c].tokens + charge <= MaxTokens
  /\ daily < DailyLimit

Charge_Again(id, charge) ==   \* mutant: a call that is registered is charged again
  /\ daily' = daily + 1
  /\ cases' = [cases EXCEPT ![id[1]].calls = @ + 1, ![id[1]].tokens = @ + charge]
  /\ metered' = [Stored(metered, id, charge) EXCEPT ![id] = charge]
Charge(id, charge) ==
  IF Registered(id) THEN UNCHANGED <<daily, cases, metered>>
  ELSE /\ daily' = daily + 1
       /\ cases' = [cases EXCEPT ![id[1]].calls = @ + 1, ![id[1]].tokens = @ + charge]
       /\ metered' = Stored(metered, id, charge)

-----------------------------------------------------------------------------
(* Nodes                                                                   *)

Is(node) == graph # NoGraph /\ graph.node = node

Goes(node, rt) ==
  /\ graph' = At(node, rt, graph.quota)
  /\ UNCHANGED <<shown, saved, run, gate, asked, decided>>

Within(state) ==
  /\ graph' = state
  /\ UNCHANGED <<shown, saved, run, gate, asked, decided>>

HasOpenCase == \E c \in DOMAIN cases : cases[c].status \in Open

\* The message asks for something else, which ends here, or for L2 support.
Bind ==
  /\ Is("bind_and_interpret")
  /\ \/ Goes("end", NoRuntime)
     \/ shown < MaxPreviews /\ Goes("prepare_upgrade", NoRuntime)
  /\ UNCHANGED rows

\* prepare_upgrade
PrepareUpgrade ==
  /\ Is("prepare_upgrade")
  /\ IF graph.quota /\ ~HasOpenCase
     THEN /\ shown' = shown + 1
          /\ graph' = At("await_upgrade_confirmation",
                         [NoRuntime EXCEPT !.preview = shown'], graph.quota)
          /\ UNCHANGED <<saved, run, gate, asked, decided>>
     ELSE Goes("end", NoRuntime)
  /\ UNCHANGED rows

\* An interrupt: reached without a value, the run stops here.
Reaches(node) == Is(node) /\ ~graph.paused /\ graph.input = {}
Pauses == Within([graph EXCEPT !.paused = TRUE])

\* The value it is resumed with must be a decision on what it asked.
Concerns_Any(input, id) == input.kind = "decision"    \* mutant: ids are not compared
Concerns(input, id) == input.kind = "decision" /\ input.id = id

\* await_upgrade_confirmation
AwaitUpgrade ==
  /\ \/ Reaches("await_upgrade_confirmation") /\ Pauses
     \/ /\ Is("await_upgrade_confirmation")
        /\ \E input \in graph.input :
             IF ~Concerns(input, <<"upgrade", <<graph.rt.preview, 0>>>>) THEN Fails
             ELSE Goes(IF input.answer = "confirm" /\ graph.quota THEN "create_case"
                       ELSE "cancel_upgrade", graph.rt)
  /\ UNCHANGED rows

CancelUpgrade == Is("cancel_upgrade") /\ Goes("end", NoRuntime) /\ UNCHANGED rows

\* create_case; load_context, which follows, reads preferences for the trace.
CreateCase ==
  LET c == graph.rt.preview
  IN /\ Is("create_case")
     /\ IF HasOpenCase /\ c \notin DOMAIN cases
        THEN Fails /\ UNCHANGED cases
        ELSE /\ cases' = Stored(cases, c, [status |-> "l2_active", answer |-> {},
                                           calls |-> 0, tokens |-> 0, tools |-> 0])
             /\ Goes("decide", graph.rt)
     /\ UNCHANGED <<world, pref, daily, metered, manifest>>

\* _stopped_runtime, and where a state without a decision goes.
Stopped(rt, phase) == [rt EXCEPT !.phase = phase, !.decision = NoDecision]

InputBudget(rt) == Max({0, Min({MaxInput, MaxTokens - rt.tokens - Reserve})})

\* check_model_budget
WithinBudget(rt, charge) ==
  rt.calls < MaxModelCalls /\ rt.tokens + charge <= MaxTokens

\* save_manifest_once: the context of a call that is made again must be the
\* context it was made with.
SavesOther_Never(id, m) == FALSE        \* mutant: contexts are not compared
SavesOther(id, m) == id \in DOMAIN manifest /\ manifest[id] # m

\* budget_after_model_call
AfterModelCall(rt, charge) ==
  [rt EXCEPT !.calls = @ + 1, !.tokens = @ + charge]

\* decide: the sources are read again one after another, while others may
\* change them; since is what they were when the node began.
BeginDecide ==
  /\ Is("decide") /\ graph.work.done = "nothing"
  /\ Within([graph EXCEPT !.input = {},
       !.work = [done |-> "reading", obs |-> graph.rt.obs, next |-> 1, since |-> world]])
  /\ UNCHANGED rows

Reading == Is("decide") /\ graph.work.done = "reading"

Reread ==
  /\ Reading /\ graph.work.next \in DOMAIN graph.work.obs
  /\ \E lost \in BOOLEAN :
       LET k == graph.work.next
           o == Refresh(graph.work.obs[k], world, lost, 2 * (graph.rt.calls + 1))
       IN Within([graph EXCEPT !.work.obs[k] = o, !.work.next = k + 1])
  /\ UNCHANGED rows

\* Then the preferences are read and the context is built.
BuildContext ==
  /\ Reading /\ graph.work.next \notin DOMAIN graph.work.obs
  /\ LET rt   == [graph.rt EXCEPT !.obs = graph.work.obs]
         pack == Build(rt.obs, Chat + Cardinality(pref), Torn, InputBudget(rt), Base)
     IN Within([graph EXCEPT !.work =
          [done |-> "built", rt |-> rt, cost |-> pack.cost, since |-> graph.work.since,
           context |-> [why |-> pack.why, shown |-> pack.shown, heard |-> rt.heard,
                        prefs |-> pref]]])
  /\ UNCHANGED rows

\* save_manifest_once, and what follows without another look at a store: a call
\* whose context may not be shown, or that the budget of the case refuses, stops
\* the case.
CallId == <<graph.rt.preview, graph.rt.calls + 1>>

SaveContext ==
  /\ Is("decide") /\ graph.work.done = "built"
  /\ UNCHANGED <<world, pref, daily, cases, metered>>
  /\ LET m      == graph.work.context
         next   == [graph.work.rt EXCEPT !.evid = EvidenceOf(m)]
         charge == graph.work.cost + Envelope + Reserve
     IN IF SavesOther(CallId, m)
        THEN /\ Goes("finalize_stopped", Stopped(graph.work.rt, "stopped"))
             /\ UNCHANGED manifest
        ELSE /\ manifest' = Stored(manifest, CallId, m)
             /\ IF m.why # "ready" THEN Goes("finalize_stopped", Stopped(next, "stopped"))
                ELSE IF WithinBudget(next, charge)
                THEN Within([graph EXCEPT !.work = [done |-> "saved", rt |-> next, charge |-> charge]])
                ELSE Goes("finalize_stopped", Stopped(next, "budget_exhausted"))

\* begin_model_call
BeginCall ==
  /\ Is("decide") /\ graph.work.done = "saved"
  /\ LET work == graph.work
     IN IF Registered(CallId) \/ CanCharge(graph.rt.preview, work.charge)
        THEN Charge(CallId, work.charge) /\ Within([graph EXCEPT !.work.done = "charged"])
        ELSE /\ Goes("finalize_stopped", Stopped(work.rt, "budget_exhausted"))
             /\ UNCHANGED <<daily, cases, metered>>
  /\ UNCHANGED <<world, pref, manifest>>

\* What the model may answer: any evidence it ever saw, one it invents, or none.
Seen(rt) == UNION {rt.obs[i].ev : i \in DOMAIN rt.obs}
ModelDecisions(rt) ==
  {[kind |-> "tool", tool |-> t] : t \in Tools}
    \cup {[kind |-> "memory", value |-> v] : v \in Values}
    \cup {[kind |-> "answer", ev |-> e] : e \in SUBSET (Seen(rt) \cup {<<"invented", 0>>})}
    \cup {[kind |-> k] : k \in {"ask", "refund", "stop"}}

\* validate_tool_call
ToolAllowed(rt, tool) ==
  rt.tools < MaxToolCalls /\ ~(rt.last = tool /\ rt.rep >= 1)

\* The answer of validate_decision may cite what the last context showed.
Grounded(rt, ev) == ev # {} /\ ev \subseteq rt.evid

\* validate_decision and route_after_validation
Validated(rt, d) ==
  LET held == [rt EXCEPT !.decision = d]
      to(node, state) == [node |-> node, rt |-> state]
  IN CASE d.kind = "tool" /\ ToolAllowed(rt, d.tool) -> to("execute_tool", held)
       [] d.kind = "tool" /\ ~ToolAllowed(rt, d.tool) -> to("finalize_stopped", Stopped(rt,
            IF rt.tools < MaxToolCalls THEN "stopped" ELSE "budget_exhausted"))
       [] d.kind = "ask"    -> to("await_user_input", held)
       [] d.kind = "memory" -> to("await_memory_confirmation", held)
       [] d.kind = "refund" -> to("bridge_refund", held)
       [] d.kind = "answer" /\ Grounded(rt, d.ev) ->
            to("finalize_resolved", [held EXCEPT !.phase = "resolved"])
       [] d.kind = "stop" \/ (d.kind = "answer" /\ ~Grounded(rt, d.ev)) ->
            to("finalize_stopped", [held EXCEPT !.phase = "unresolved"])

\* route_after_decide, when the model gave no decision
WithoutDecision(rt, before) == [node |-> "finalize_stopped", rt |-> Stopped(rt, "stopped")]

\* decide, from the answer of the model on.
DecideCall ==
  /\ Is("decide") /\ graph.work.done = "charged"
  /\ LET rt == AfterModelCall(graph.work.rt, graph.work.charge)
     IN \/ LET to == WithoutDecision(rt, graph.rt)
           IN Goes(to.node, to.rt) /\ UNCHANGED cases
        \/ \E d \in ModelDecisions(rt) :
             LET to == Validated(rt, d)
             IN IF CanTransition(rt.preview, "l2_active")
                THEN Transition(rt, "l2_active", {}) /\ Goes(to.node, to.rt)
                ELSE Fails /\ UNCHANGED cases
  /\ UNCHANGED <<world, pref, daily, metered, manifest>>

\* A node that writes one transition of its case, or raises.
Settles(rt, status, answer, step) ==
  /\ IF CanTransition(rt.preview, status)
     THEN Transition(rt, status, answer) /\ step
     ELSE Fails /\ UNCHANGED cases
  /\ UNCHANGED <<world, daily, metered, manifest>>

\* budget_after_tool_call
AfterToolCall(rt, tool, found) ==
  [rt EXCEPT !.tools = @ + 1, !.fails = IF found THEN 0 ELSE @ + 1, !.last = tool,
             !.rep = IF rt.last = tool THEN @ + 1 ELSE 0, !.decision = NoDecision]

Observed(rt, o) == [rt EXCEPT !.obs = Append(@, o), !.decision = NoDecision]

\* What a tool may return now: what its source says, no policy fact, or a failure.
Observations(tool, now) ==
  {Fact(tool, world, now), Note(tool, 0, now, {})}
    \cup (IF tool = "policy" THEN {NoPolicyFound(world, now)} ELSE {})

\* execute_tool
ExecuteTool ==
  /\ Is("execute_tool")
  /\ LET rt == graph.rt
         tool == rt.decision.tool
     IN \E o \in Observations(tool, 2 * rt.calls + 1) :
       LET next == Observed(AfterToolCall(rt, tool, o.fact), o)
           step == IF next.fails >= MaxToolFailures
                   THEN Goes("finalize_stopped", Stopped(next, "stopped"))
                   ELSE Goes("decide", next)
       IN Settles(next, "l2_active", {}, step)
  /\ UNCHANGED pref

\* await_user_input
AwaitUserInput ==
  /\ \/ Reaches("await_user_input") /\ Settles(graph.rt, "l2_waiting_user", {}, Pauses)
     \/ /\ Is("await_user_input")
        /\ \E input \in graph.input :
             IF input.kind # "message" THEN Fails /\ UNCHANGED <<world, daily, cases, metered, manifest>>
             ELSE Settles(graph.rt, "l2_active", {},
                    Goes("decide", [graph.rt EXCEPT !.heard = input.text,
                                                    !.decision = NoDecision]))
  /\ UNCHANGED pref

\* await_memory_confirmation: a confirmed preference is in the store before
\* the case goes on, and the two stores have no common transaction.
Proposal(rt) == <<"memory", <<rt.preview, rt.calls>>>>

AwaitMemory ==
  \/ /\ Reaches("await_memory_confirmation")
     /\ Settles(graph.rt, "l2_waiting_approval", {}, Pauses)
     /\ UNCHANGED pref
  \/ /\ Is("await_memory_confirmation") /\ graph.work.done = "nothing"
     /\ \E input \in graph.input :
          IF ~Concerns(input, Proposal(graph.rt))
          THEN Fails /\ UNCHANGED rows
          ELSE IF input.answer = "confirm"
          THEN /\ Settles(graph.rt, "l2_waiting_approval", {},
                     Within([graph EXCEPT !.work = [done |-> "stored"]]))
               /\ pref' = IF CanTransition(graph.rt.preview, "l2_waiting_approval")
                          THEN {[value |-> graph.rt.decision.value, id |-> Proposal(graph.rt)]}
                          ELSE pref
          ELSE /\ Settles(graph.rt, "l2_active", {},
                     Goes("decide", Observed(graph.rt, Note("memory", graph.rt.calls, 2 * graph.rt.calls + 1, {}))))
               /\ UNCHANGED pref
  \/ /\ Is("await_memory_confirmation") /\ graph.work.done = "stored"
     /\ Settles(graph.rt, "l2_active", {},
          Goes("decide", Observed(graph.rt, Note("memory", graph.rt.calls, 2 * graph.rt.calls + 1,
                                                 {<<"memory", graph.rt.calls>>}))))
     /\ UNCHANGED pref

\* bridge_refund, and the refund flow up to its end or its interrupt.
BridgeRefund ==
  /\ Is("bridge_refund")
  /\ \E node \in {"record_refund_result", "await_refund_approval"} :
       Settles(graph.rt, "l2_waiting_approval", {}, Goes(node, graph.rt))
  /\ UNCHANGED pref

AwaitRefund ==
  /\ \/ Reaches("await_refund_approval") /\ Pauses
     \/ /\ Is("await_refund_approval")
        /\ \E input \in graph.input :
             IF Concerns(input, <<"refund", <<graph.rt.preview, graph.rt.calls>>>>)
             THEN Goes("record_refund_result", graph.rt)
             ELSE Fails
  /\ UNCHANGED rows

\* record_refund_result
RecordRefund ==
  /\ Is("record_refund_result")
  /\ Settles(graph.rt, "l2_active", {},
       Goes("decide", Observed(graph.rt, Note("refund", 0, 2 * graph.rt.calls + 1, {}))))
  /\ UNCHANGED pref

\* finalize_resolved
FinalizeResolved ==
  /\ Is("finalize_resolved")
  /\ Settles(graph.rt, "l2_resolved", graph.rt.decision.ev, Goes("end", NoRuntime))
  /\ UNCHANGED pref

\* finalize_stopped
StopStatus(rt) == CASE rt.phase = "budget_exhausted" -> "l2_budget_exhausted"
                    [] rt.phase = "unresolved"       -> "l2_unresolved"
                    [] OTHER                         -> "l2_stopped"

FinalizeStopped ==
  /\ Is("finalize_stopped")
  /\ Settles(graph.rt, StopStatus(graph.rt), {}, Goes("end", NoRuntime))
  /\ UNCHANGED pref

-----------------------------------------------------------------------------
(* What others do                                                          *)

\* A fact changes, or the policy index is rebuilt from a new corpus, whose facts
\* have a new text or the same.
ChangeSource(src) ==
  /\ world[src] < MaxVersion
  /\ \E rewrites \in BOOLEAN :
       /\ rewrites => src = "policy"
       /\ world' = [world EXCEPT ![src] = @ + 1, !.text = IF rewrites THEN @ + 1 ELSE @]
  /\ UNCHANGED <<pref, daily, cases, metered, manifest, flow>>

\* Other conversations of the user spend what is left of the day.
SpendQuota ==
  /\ daily < DailyLimit
  /\ daily' = DailyLimit
  /\ UNCHANGED <<world, pref, cases, metered, manifest, flow>>

\* delete_preference
DeletePreference ==
  /\ pref # {}
  /\ pref' = {}
  /\ UNCHANGED <<world, daily, cases, metered, manifest, flow>>

-----------------------------------------------------------------------------
L2Init ==
  /\ world = [thing \in Things |-> 1]
  /\ pref = {} /\ daily = 0 /\ shown = 0
  /\ cases = <<>> /\ metered = <<>> /\ manifest = <<>>
  /\ graph = NoGraph /\ saved = Ended
  /\ run = NoRun /\ gate = "nothing" /\ asked = {} /\ decided = {}

Node ==
  \/ Bind \/ PrepareUpgrade \/ AwaitUpgrade \/ CancelUpgrade \/ CreateCase
  \/ BeginDecide \/ Reread \/ BuildContext \/ SaveContext \/ BeginCall \/ DecideCall
  \/ ExecuteTool
  \/ AwaitUserInput \/ AwaitMemory \/ BridgeRefund \/ AwaitRefund \/ RecordRefund
  \/ FinalizeResolved \/ FinalizeStopped

Background == StartMessage \/ StartDecision \/ Node \/ CompleteRun

L2Next ==
  \/ Background
  \/ \E text \in Texts, retried \in BOOLEAN : Send(text, retried)
  \/ \E answer \in {"confirm", "reject"} : AskDecision(answer)
  \/ \E d \in asked : AcceptDecision(d)
  \/ FailRun
  \/ Restart
  \/ \E src \in Tools : ChangeSource(src)
  \/ SpendQuota
  \/ DeletePreference

L2Spec == L2Init /\ [][L2Next]_l2vars

-----------------------------------------------------------------------------
\* Every registered model call is one charge, and what the case row says it used
\* is the sum of its charges: within the limits of the case and the day, however
\* often runs failed and nodes were executed again.  A node that died behind the
\* registration calls the provider again when it is executed again, and that
\* request is not charged: it is the registrations that are counted.
CallsAreMetered ==
  /\ Cardinality(DOMAIN metered) <= daily
  /\ daily <= DailyLimit
  /\ \A c \in DOMAIN cases :
       LET mine == {id \in DOMAIN metered : id[1] = c}
       IN /\ cases[c].calls = Cardinality(mine)
          /\ cases[c].tokens = MapThenSumSet(LAMBDA id : metered[id], mine)
          /\ cases[c].calls <= MaxModelCalls
          /\ cases[c].tokens <= MaxTokens
          /\ cases[c].tools <= MaxToolCalls

\* There is no case, hence no model call, and no stored preference without a
\* confirmation of that very preview or proposal.
ConsentFirst ==
  /\ \A c \in DOMAIN cases : <<<<"upgrade", <<c, 0>>>>, "confirm">> \in decided
  /\ \A p \in pref : <<p.id, "confirm">> \in decided

\* A resolved case cites evidence, and all of it was in the context saved for
\* one of its calls.
AnswerIsGrounded ==
  \A c \in DOMAIN cases : cases[c].status = "l2_resolved" =>
    /\ cases[c].answer # {}
    /\ \E id \in DOMAIN metered : id[1] = c /\ cases[c].answer \subseteq EvidenceOf(manifest[id])

\* The source of o was as o tells at a moment between since and now: a business
\* fact has the version it had, the facts of a policy the text.
WasSo(o, since, now) ==
  IF o.src = "policy" THEN \A e \in o.ev : e[2] \in since.text..now.text
  ELSE o.ver \in since[o.src]..now[o.src]

\* A context that is saved shows a fact only as its source had it at some moment
\* since this execution of the node began, whatever was observed by earlier
\* calls, changed before or while the sources were read, or could not be read.
\* A policy observation without a fact is not read again and is not covered.
ContextIsCurrent ==
  [][\A id \in DOMAIN manifest' \ DOMAIN manifest :
       \A o \in manifest'[id].shown : o.fact => WasSo(o, graph.work.since, world)]_l2vars

\* A closed case is never changed again.
ClosedCaseIsFrozen ==
  [][\A c \in DOMAIN cases : cases[c].status \in Closed => cases'[c] = cases[c]]_l2vars

=============================================================================
