------------------------------- MODULE Workspace -------------------------------
(***************************************************************************)
(* The private workspace of an account: its demo data, the conversations   *)
(* on its orders, and the reset (workspace_reset.py), which goes through   *)
(* the business, the checkpoint and the memory database one after another  *)
(* while graphs of the workspace go on: nothing but the reset itself looks *)
(* at dataset_status.                                                      *)
(*                                                                         *)
(* Conversations are what a reset and get_or_create_order_conversation     *)
(* tell apart; their runs and their deletion are ConversationRuns.         *)
(* Business facts behind the public order numbers are those of             *)
(* RefundLedger; the reset transaction deletes them all.                   *)
(***************************************************************************)
EXTENDS Access

CONSTANTS Followed,    \* bound: the names that log in and use their workspace
          Scenarios,   \* scenario keys of the demo data
          Numbers,     \* public order numbers
          Threads,     \* thread ids, each drawn once
          Kinds,       \* kinds of preferences
          Requests,    \* client request ids of resets
          MaxResets, MaxFailures   \* bounds

ASSUME WorkspaceAssumption ==
  /\ Followed \subseteq Names
  /\ Threads \cap (Names \X Kinds) = {}
  /\ IsFiniteSet(Threads) /\ IsFiniteSet(Requests)
  /\ {MaxResets, MaxFailures} \subseteq Nat

VARIABLES
  ws,        \* name -> [status, generation, active]: the row of its workspace
  audit,     \* name -> set of [id, generation]: successful resets
  orders,    \* name -> function from scenarios to public numbers
  tasks,     \* conversation rows: set of [thread, owner, order, life]
  owner,     \* thread -> the name it was drawn for, or NoOne
  saved,     \* threads with a checkpoint
  memory,    \* confirmed preferences: set of <<name, kind>>
  busy,      \* threads whose graph is running
  opening,   \* tab -> the order it found without a conversation, or NoOrder
  editing,   \* preferences a correction has read
  reset,     \* name -> the reset that holds the lock of its workspace, or Idle
  failures,
  late       \* what was written by others since a reset began: threads and preferences

restvars == <<ws, audit, orders, tasks, owner, saved, memory, busy, opening, editing,
              reset, failures, late>>
wsvars == <<accessvars, restvars>>

NoOrder == [order |-> NoOne]
Idle    == [step |-> "none"]

TasksOf(n)     == {t \in tasks : t.owner = n}
ActiveOn(n, s) == {t \in TasksOf(n) : t.order = s /\ t.life = "active"}
RowOf(t)       == {k \in tasks : k.thread = t}
Resetting(n)   == ws[n].status = "resetting"

\* uq_conversations_active_order_task
MayBeActive_Always(n, s) == TRUE     \* mutant: the index is dropped
MayBeActive(n, s) == ActiveOn(n, s) = {}

\* The numbers drawn for the scenarios of a workspace that is seeded anew.
Baseline_Draws(kept) ==     \* mutant: every reset draws new numbers
  [Scenarios -> Numbers]
Baseline(kept) ==
  {f \in [Scenarios -> Numbers] : \A s \in DOMAIN kept : f[s] = kept[s]}

-----------------------------------------------------------------------------
(* Accounts                                                                *)

\* register: the account, its workspace and its data in one transaction.
Join(n, c) ==
  /\ Register(n, c)
  /\ \E f \in Baseline(<<>>) : orders' = [orders EXCEPT ![n] = f]
  /\ ws' = [ws EXCEPT ![n] = [@ EXCEPT !.status = "ready"]]
  /\ UNCHANGED <<audit, tasks, owner, saved, memory, busy, opening, editing, reset, failures, late>>

Accounts ==
  \/ \E n \in Names, c \in Codes : Join(n, c)
  \/ /\ \/ \E c \in Codes, limit \in 1..MaxUses : CreateInvitation(c, limit)
        \/ \E c \in Codes : CloseInvitation(c)
        \/ \E tab \in Tabs : EndSession(tab) \/ \E n \in Followed : Login(tab, n)
     /\ UNCHANGED restvars

-----------------------------------------------------------------------------
(* Conversations on orders                                                 *)

\* get_or_create_order_conversation finds no active conversation of the order ...
Look(tab, s) ==
  LET n == session[tab]
  IN /\ n # NoOne /\ s \in DOMAIN orders[n]
     /\ opening[tab] = NoOrder /\ ActiveOn(n, s) = {}
     /\ opening' = [opening EXCEPT ![tab] = [order |-> s, of |-> n]]
     /\ UNCHANGED <<accessvars, ws, audit, orders, tasks, owner, saved, memory, busy,
                    editing, reset, failures, late>>

\* ... and adds one, or answers with the one that was faster.
Open(tab, t) ==
  LET o == opening[tab]
  IN /\ o # NoOrder /\ owner[t] = NoOne
     /\ owner' = [owner EXCEPT ![t] = o.of]
     /\ tasks' = IF MayBeActive(o.of, o.order)
                 THEN tasks \cup {[thread |-> t, owner |-> o.of, order |-> o.order,
                                   life |-> "active"]}
                 ELSE tasks
     /\ opening' = [opening EXCEPT ![tab] = NoOrder]
     /\ UNCHANGED <<accessvars, ws, audit, orders, saved, memory, busy, editing,
                    reset, failures, late>>

\* update_lifecycle; to unarchive beside another active one breaks the index.
Archive(tab, k) ==
  /\ k.owner = session[tab] /\ k.thread \notin busy
  /\ k.life = "archived" => MayBeActive(k.owner, k.order)
  /\ tasks' = (tasks \ {k}) \cup
       {[k EXCEPT !.life = IF @ = "active" THEN "archived" ELSE "active"]}
  /\ UNCHANGED <<accessvars, ws, audit, orders, owner, saved, memory, busy, opening,
                 editing, reset, failures, late>>

StartGraph(tab, k) ==
  /\ k.owner = session[tab] /\ k.life = "active" /\ k.thread \notin busy
  /\ busy' = busy \cup {k.thread}
  /\ UNCHANGED <<accessvars, ws, audit, orders, tasks, owner, saved, memory, opening,
                 editing, reset, failures, late>>

\* A running graph saves its checkpoint or a confirmed preference, whether or not
\* its conversation is still there.
RunGraph(t) ==
  /\ t \in busy
  /\ \/ saved' = saved \cup {t} /\ late' = late \cup {t} /\ UNCHANGED <<memory, busy>>
     \/ \E k \in Kinds : /\ memory' = memory \cup {<<owner[t], k>>}
                         /\ late' = late \cup {<<owner[t], k>>}
                         /\ UNCHANGED <<saved, busy>>
     \/ busy' = busy \ {t} /\ UNCHANGED <<saved, memory, late>>
  /\ UNCHANGED <<accessvars, ws, audit, orders, tasks, owner, opening, editing,
                 reset, failures>>

\* correct_preference reads a preference and then puts it; delete_preference.
Edit(tab, p) ==
  /\ p[1] = session[tab]
  /\ \/ p \in memory \ editing /\ editing' = editing \cup {p} /\ UNCHANGED <<memory, late>>
     \/ p \in memory /\ memory' = memory \ {p} /\ UNCHANGED <<editing, late>>
  /\ UNCHANGED <<accessvars, ws, audit, orders, tasks, owner, saved, busy, opening,
                 reset, failures>>

Correct(p) ==
  /\ p \in editing
  /\ editing' = editing \ {p}
  /\ memory' = memory \cup {p}
  /\ late' = late \cup {p}
  /\ UNCHANGED <<accessvars, ws, audit, orders, tasks, owner, saved, busy, opening,
                 reset, failures>>

-----------------------------------------------------------------------------
(* Reset                                                                   *)

\* prepare_reset: whether this request goes on with an open reset or begins one.
Continues(n, id) == Resetting(n) /\ ws[n].active = id

Generation_Again(n, id) == ws[n].generation + 1     \* mutant: a repetition counts
Generation(n, id) == IF Continues(n, id) THEN ws[n].generation ELSE ws[n].generation + 1

\* The conversations whose checkpoints are deleted.
PlannedThreads_Active(n) == {k.thread : k \in {k \in TasksOf(n) : k.life = "active"}}  \* mutant
PlannedThreads(n) == {k.thread : k \in TasksOf(n)}

\* The owner, or an administrator, asks; a request that succeeded before is only
\* answered, and one that meets another's reset refused.
BeginReset(n, id) ==
  /\ n \in Registered /\ reset[n] = Idle
  /\ \A a \in audit[n] : a.id # id
  /\ Resetting(n) => Continues(n, id)
  /\ Generation(n, id) <= MaxResets
  /\ ws' = [ws EXCEPT ![n] = [status |-> "resetting", generation |-> Generation(n, id),
                              active |-> id]]
  /\ reset' = [reset EXCEPT ![n] = [step |-> "checkpoints", id |-> id,
                 generation |-> Generation(n, id), left |-> PlannedThreads(n),
                 kept |-> orders[n]]]
  /\ late' = IF Continues(n, id) THEN late
             ELSE {p \in late : IF p \in Threads THEN owner[p] # n \/ RowOf(p) = {}
                                               ELSE p[1] # n}
  /\ UNCHANGED <<accessvars, audit, orders, tasks, owner, saved, memory, busy, opening,
                 editing, failures>>

\* One checkpoint after another, then one preference of the list after another.
Clear(n) ==
  /\ \/ /\ reset[n].step = "checkpoints"
        /\ \E t \in reset[n].left :
             /\ saved' = saved \ {t}
             /\ reset' = [reset EXCEPT ![n].left = @ \ {t}]
             /\ UNCHANGED memory
     \/ /\ reset[n].step = "checkpoints" /\ reset[n].left = {}
        /\ reset' = [reset EXCEPT ![n].step = "memory",
                                  ![n].left = {p \in memory : p[1] = n}]
        /\ UNCHANGED <<saved, memory>>
     \/ /\ reset[n].step = "memory"
        /\ \E p \in reset[n].left :
             /\ memory' = memory \ {p}
             /\ reset' = [reset EXCEPT ![n].left = @ \ {p}]
             /\ UNCHANGED saved
  /\ UNCHANGED <<accessvars, ws, audit, orders, tasks, owner, busy, opening, editing,
                 failures, late>>

\* complete_reset
CompleteReset(n) ==
  LET plan == reset[n]
  IN /\ plan.step = "memory" /\ plan.left = {}
     /\ Resetting(n) /\ ws[n].active = plan.id /\ ws[n].generation = plan.generation
     /\ tasks' = tasks \ TasksOf(n)
     /\ \E f \in Baseline(plan.kept) : orders' = [orders EXCEPT ![n] = f]
     /\ ws' = [ws EXCEPT ![n] = [status |-> "ready", generation |-> @.generation,
                                 active |-> NoOne]]
     /\ audit' = [audit EXCEPT ![n] = @ \cup {[id |-> plan.id, generation |-> plan.generation]}]
     /\ reset' = [reset EXCEPT ![n] = Idle]
     /\ UNCHANGED <<accessvars, owner, saved, memory, busy, opening, editing, failures, late>>

\* A store is not available, or the process dies: the lock is free, and in the
\* second case nothing runs any more.
FailReset(n) ==
  /\ reset[n] # Idle /\ failures < MaxFailures
  /\ failures' = failures + 1
  /\ reset' = [reset EXCEPT ![n] = Idle]
  /\ UNCHANGED <<accessvars, ws, audit, orders, tasks, owner, saved, memory, busy,
                 opening, editing, late>>

Crash ==
  /\ failures < MaxFailures
  /\ failures' = failures + 1
  /\ reset' = [n \in Names |-> Idle]
  /\ busy' = {} /\ editing' = {}
  /\ opening' = [tab \in Tabs |-> NoOrder]
  /\ UNCHANGED <<accessvars, ws, audit, orders, tasks, owner, saved, memory, late>>

-----------------------------------------------------------------------------
WorkspaceInit ==
  /\ AccessInit
  /\ ws = [n \in Names |-> [status |-> "unset", generation |-> 0, active |-> NoOne]]
  /\ audit = [n \in Names |-> {}]
  /\ orders = [n \in Names |-> <<>>]
  /\ tasks = {} /\ owner = [t \in Threads |-> NoOne]
  /\ saved = {} /\ memory = {} /\ busy = {} /\ editing = {} /\ late = {}
  /\ opening = [tab \in Tabs |-> NoOrder]
  /\ reset = [n \in Names |-> Idle]
  /\ failures = 0

Conversing ==
  \/ \E tab \in Tabs :
       \/ \E s \in Scenarios : Look(tab, s)
       \/ \E t \in Threads : Open(tab, t)
       \/ \E k \in tasks : Archive(tab, k) \/ StartGraph(tab, k)
       \/ \E p \in Names \X Kinds : Edit(tab, p)
  \/ \E t \in Threads : RunGraph(t)
  \/ \E p \in editing : Correct(p)

Reset(n) == Clear(n) \/ CompleteReset(n) \/ FailReset(n) \/ \E id \in Requests : BeginReset(n, id)

WorkspaceNext == Accounts \/ Conversing \/ Crash \/ \E n \in Followed : Reset(n)

WorkspaceSpec == WorkspaceInit /\ [][WorkspaceNext]_wsvars

-----------------------------------------------------------------------------
\* However requests for the conversation of an order compete with each other, with
\* archiving and with resets, the order has one active conversation.
OneTaskPerOrder ==
  \A k, l \in tasks :
    k.life = "active" /\ l.life = "active" /\ k.owner = l.owner /\ k.order = l.order => k = l

\* A reset that is repeated until it succeeds is one reset: the generation counts the
\* resets that succeeded and the one that is open, each request succeeds once.
GenerationCountsResets ==
  \A n \in Names :
    /\ ws[n].generation = Cardinality(audit[n]) + (IF Resetting(n) THEN 1 ELSE 0)
    /\ \A a, b \in audit[n] : a.id = b.id \/ a.generation = b.generation => a = b

\* docs/specs/v2.0-interview-ready-agent-product.md:155: public numbers survive.
NumbersSurvive ==
  [][\A n \in Names : \A s \in DOMAIN orders[n] :
       s \in DOMAIN orders'[n] /\ orders'[n][s] = orders[n][s]]_wsvars

\* What is left of the time before a reset is what a graph or a correction wrote that
\* was running while it went on: no checkpoint without its conversation, no preference.
ResetLeavesNothing ==
  \A n \in Names : ws[n].status = "ready" /\ audit[n] # {} =>
    /\ \A t \in saved : owner[t] = n => RowOf(t) # {} \/ t \in late
    /\ \A p \in memory : p[1] = n => p \in late
=============================================================================
