------------------------------ MODULE Migrations ------------------------------
(***************************************************************************)
(* The nine revisions of the business database (migrations/versions), what *)
(* each does to the rows it finds, and which of its statements survive the *)
(* death of the process that runs it.                                      *)
(*                                                                         *)
(* pysqlite opens a transaction at the first statement that writes rows:   *)
(* what a revision does to the schema before is committed statement by     *)
(* statement, the rest is committed together with its version.             *)
(***************************************************************************)
EXTENDS Integers, Sequences, FiniteSets

\* The statements of a revision; an index goes with the statement before it.
New(table)      == [does |-> "create", table |-> table]
Altered(table)  == [does |-> "alter", table |-> table]     \* ADD COLUMN alone
Rebuilt(table)  == [does |-> "rebuild", table |-> table]   \* a copy with the rows of the table
Rewrites(table) == [does |-> "rows", table |-> table]

V03Business ==
  <<New("alembic_version"), New("users"), New("invitations"), New("workspaces"), New("web_sessions"),
    New("conversations"), New("orders"), New("shipments"), New("llm_daily_usage")>>
V04Refund ==
  <<New("mock_payments"), New("refund_actions"), New("mock_refunds"), New("refund_audit_events")>>
V05L2 == <<New("l2_support_cases"), New("l2_case_events"), New("llm_call_events")>>
V06Conversation ==
  <<Rebuilt("conversations"), New("agent_runs"), New("conversation_messages"), New("agent_run_events")>>
V07Context ==
  <<Rebuilt("l2_support_cases"), Altered("l2_case_events"), Altered("l2_case_events"),
    Altered("l2_case_events"), Rewrites("l2_case_events"), Rebuilt("l2_case_events"),
    New("l2_context_manifests"), Rebuilt("llm_call_events")>>
V11ServiceCenter == <<New("order_items"), Altered("conversations")>>
V12Admin == <<Rebuilt("users"), New("admin_action_audit")>>
V13Commercial ==
  <<Altered("orders"), Altered("orders"), Rebuilt("order_items"), New("shipment_packages"),
    New("shipment_package_items"), New("demo_seed_requests")>>
V20Workspace ==
  <<Rebuilt("workspaces"), New("workspace_reset_audit"), Rewrites("conversations"),
    Rewrites("conversations")>>

Revisions == <<V03Business, V04Refund, V05L2, V06Conversation, V07Context, V11ServiceCenter,
               V12Admin, V13Commercial, V20Workspace>>
HeadRevision == Len(Revisions)
AtV08 == 5       \* the revision release 0.8 was at

\* The statements of a revision that are committed on their own.  A copy of a
\* table is created before its rows are written.
Leading(revision) ==
  LET writers == {i \in DOMAIN revision : revision[i].does \in {"rebuild", "rows"}}
      first   == CHOOSE i \in writers : \A j \in writers : i <= j
  IN IF writers = {} THEN Len(revision)
     ELSE IF revision[first].does = "rebuild" THEN first ELSE first - 1

\* Where a database stands: its version, and how many statements of the next
\* revision it has beyond it.
Schema(version, left) == [version |-> version, left |-> left]
Current(schema) == schema.version = HeadRevision

\* Conversations have the columns of this release once revision 6 has altered them.
HasOrders(schema) ==
  schema.version > 5 \/ (schema.version = 5 /\ schema.left = Leading(V11ServiceCenter))

\* The next thing a migrating process has committed: one statement, or the rest
\* of the revision.
Advanced(schema) ==
  IF schema.left < Leading(Revisions[schema.version + 1])
  THEN [schema EXCEPT !.left = @ + 1]
  ELSE Schema(schema.version + 1, 0)

-----------------------------------------------------------------------------
(* The rows.  conversations: thread -> [guest, order, active, at], events:  *)
(* case -> set of [id, step, at, seq].  NoOrder: related_order_id is null.  *)

NoOrder == "none"
NoSeq   == 0

\* What the tables allow: thread_id and event_id are primary keys, and what the
\* migrations sort by is never null.  An event has no number before revision 5.
IsConversations(c) ==
  LET orders == {c[t].order : t \in DOMAIN c}
  IN /\ IsFiniteSet(DOMAIN c) /\ DOMAIN c \subseteq Int
     /\ c \in [DOMAIN c -> [guest : BOOLEAN, order : orders, active : BOOLEAN, at : Int]]
IsEvents(events) ==
  /\ IsFiniteSet(events) /\ events \subseteq [id : Int, step : Int, at : Int, seq : {NoSeq}]
  /\ \A e, f \in events : e.id = f.id => e = f
IsRows(rows) ==
  /\ rows = [conversations |-> rows.conversations, events |-> rows.events]
  /\ IsConversations(rows.conversations)
  /\ \A k \in DOMAIN rows.events : IsEvents(rows.events[k])

\* _backfill_event_sequences: ORDER BY step_number, created_at, event_id.
ComesBefore(e, f) ==
  \/ e.step < f.step
  \/ e.step = f.step /\ e.at < f.at
  \/ e.step = f.step /\ e.at = f.at /\ e.id < f.id
Numbered(events) ==
  {[e EXCEPT !.seq = 1 + Cardinality({f \in events : ComesBefore(f, e)})] : e \in events}

\* ROW_NUMBER() OVER (PARTITION BY .. ORDER BY updated_at DESC, thread_id DESC)
IsNewer_Descending(c, t, u) ==     \* mutant: the oldest has position 1
  c[t].at < c[u].at \/ (c[t].at = c[u].at /\ t < u)
IsNewer(c, t, u) == c[t].at > c[u].at \/ (c[t].at = c[u].at /\ t > u)
Bound(c) == {t \in DOMAIN c : ~c[t].guest /\ c[t].active /\ c[t].order # NoOrder}
Position(c, t) ==
  1 + Cardinality({u \in Bound(c) : c[u].order = c[t].order /\ IsNewer(c, u, t)})
KeptActive(c, t) ==
  c[t].guest \/ (c[t].order # NoOrder /\ Position(c, t) = 1)
OneTask(c) == [t \in DOMAIN c |-> [c[t] EXCEPT !.active = @ /\ KeptActive(c, t)]]

\* What a revision leaves of the rows; the others add columns with a default.
RowsAfter(version, rows) ==
  CASE version = 5 -> [rows EXCEPT !.events = [k \in DOMAIN @ |-> Numbered(@[k])]]
    [] version = 9 -> [rows EXCEPT !.conversations = OneTask(@)]
    [] OTHER       -> rows

-----------------------------------------------------------------------------
(* What an upgrade promises about the rows.                                *)

\* What an upgrade finds, its conversations last written when those it leaves were.
WithTimesOf(old, new) ==
  [t \in DOMAIN old |-> IF t \in DOMAIN new THEN [old[t] EXCEPT !.at = new[t].at] ELSE old[t]]

\* Conversations are kept; only registered ones may become archived: those
\* without an order, and those beside a newer one of the same order.
ConversationsKept(old, new) ==
  /\ DOMAIN new = DOMAIN old
  /\ \A t \in DOMAIN old : [new[t] EXCEPT !.active = old[t].active] = old[t]
  /\ \A t \in DOMAIN old : old[t].guest => new[t].active = old[t].active
  /\ \A t \in Bound(new) : \A u \in Bound(old) \ {t} :
       old[u].order = old[t].order
         => ~new[u].active /\ t \in Bound(old) /\ old[u].at <= old[t].at
  /\ \A u \in Bound(old) : \E t \in Bound(new) : old[t].order = old[u].order
  /\ \A t \in DOMAIN new : new[t].active /\ ~new[t].guest => new[t].order # NoOrder

\* The events of a case keep their order and are numbered without a gap.
EventsNumbered(old, new) ==
  /\ {[e EXCEPT !.seq = NoSeq] : e \in new} = {[e EXCEPT !.seq = NoSeq] : e \in old}
  /\ {e.seq : e \in new} = 1..Cardinality(old)
  /\ \A e, f \in new : e.step < f.step => e.seq < f.seq
=============================================================================
