# CommerceResolve in TLA+

CommerceResolve is a single-host after-sales agent: a FastAPI process that runs
a LangGraph workflow for each customer conversation, keeps its business data,
its checkpoints and its memories in three SQLite databases, and lets a customer
approve Mock refunds that the agent prepares. The parts of it that are hard to
get right are the ones where a customer's decision, a graph that stops and is
resumed, and rows in different databases meet, and the commands that change
several databases one after another. These modules model those parts, TLC
checks them on small instances, and TLAPS proves the results that matter most
for every value of the constants.

Run `tlc -config X.cfg M` and `tlapm M.tla` in this directory; PROJECT.json lists the
runs, the mutants that show each property can fail, the source lines of every
definition, the findings, the hazards and the theorems.

## Inventory

Paths are under `src/src/commerce_resolve/` (`routes/` is `web/routes/`).

| Component | State | Operations | Interacts with | Hard behaviour | What makes it correct | Module |
|---|---|---|---|---|---|---|
| Refund rules (`refund_rules.py`) | none | assess, fingerprint, preview | ledger, workflow | order of branches, 7-day boundary | the plan's decision matrix, stability in time | `RefundRules` |
| Refund ledger (`adapters/sqlite_refunds.py`, order writes of `sqlite_business.py`) | payments, actions, refunds, audit | upsert payment, reserve, reject, mark stale, execute, verify; order update, delete | workflow, loaders | old previews, replays, changing facts | one active request, nothing paid twice or on changed facts, audit complete | `RefundLedger`, `RefundPromise` |
| Refund workflow (`refund_workflow.py`) and approval (`routes/chat.py`, `conversation_runtime.py`) | graph state, checkpoint, runs, gate | nodes, interrupt, decide, resume, fail, restart | ledger, conversation rows, checkpoints | three stores without a common transaction, late and repeated decisions, failure at any node | only the customer's decision is carried out, what is told is true, decisions settle | `RefundApproval` |
| Conversation runs (`adapters/sqlite_conversations.py`, `routes/conversations.py`, `web/app.py`) | conversation, runs, messages, events, thread lock | submit, retry, decide, complete, fail, archive, delete, stream, shutdown, restart | graph, checkpoints | threads outlive requests and shutdown; deletion saga over two databases; polling stream | turns in order, ends told once, closed is quiet, deleted is empty, streams complete | `ConversationRuns` |
| Synchronous chat route (`POST /chat/messages`, `routes/chat.py`) | the same rows | graph first, rows behind it | conversation runs, thread lock | the graph moves before the message is accepted | history stays a sequence of turns | `ConversationRuns` |
| L2 support loop (`l2_workflow.py`, `adapters/sqlite_l2.py`, `l2_context.py`, `l2_policy.py`, `l2_memory.py`, `adapters/l2_freshness.py`) | cases, events, metered calls, manifests, preferences | confirm, decide, tool, ask, remember, bridge a refund, finish | quota, refund workflow, memory store | replayed nodes, budgets, changing sources, cases left behind | a replay charges once, budgets hold, answers rest on what was shown, nothing without consent | `L2Case`, `L2Context` |
| Intent and clarification (`workflow.py`) | clarification attempts | interpret, clarify, fall back, inquire | every graph path | a counter across turns and failed runs | at most two rounds | `Dialogue` |
| Policy retrieval and answers (`adapters/sqlite_policy.py`, `policy_rules.py`, `policy_workflow.py`) | policy index, corpus | build, search, resolve, answer | guidance, L2, refund rules | a rebuild between two nodes | a complete answer, without contradiction, in scope | `PolicyRules`, `Dialogue` |
| Combined consultation (`service_guidance.py`) | turn state | order, shipment, policy, eligibility, offers | the above | one step of several failing | completed means everything asked for is answered | `Dialogue` |
| Accounts, sessions, invitations, quota (`sqlite_business.py`, `auth.py`, `web/dependencies.py`) | users, invitations, sessions, daily usage | create and close invitations, register, log in, end sessions | every route | the last use of an invitation | uses are accounts, within the limit | `Access` (quota in `L2Case`) |
| Workspace reset (`workspace_reset.py`, `adapters/sqlite_workspaces.py`) | dataset status, generation, active request | prepare, clear checkpoints and memory, complete | conversations, checkpoints, memory, orders | saga over three databases under running graphs | counted once, nothing of the old generation survives, order numbers do | `Workspace` |
| Order-bound conversations (`sqlite_business.py`, `order_context.py`) | conversations of an order | get or create, archive, unarchive, mismatch | runs, reset | two tabs at once | one active conversation of an order | `Workspace`, `ConversationRuns` |
| Order administration (`sqlite_business.py`) | orders, items, packages, shipments | create, update, delete, pay | ledger, demo data | one change that takes several tables with it | packages fit the items, facts agree | `Orders`, `RefundLedger` |
| Demo data (`demo_catalog.py`, `portfolio_demo.py`) | seeded orders, seed requests | seed, replay a request, reset | orders, reset | repeated and competing requests | the portfolio is as told, a request has one answer | `Orders`, `Workspace` |
| Service centre (`adapters/sqlite_service_center.py`) | none | lists with cursors, order page, service page | ledger, L2 cases | several SELECTs without a snapshot, equal stamps | pages do not contradict themselves, cursors pass every row | `ServiceCentre` |
| Admin console (`routes/admin.py`, `adapters/sqlite_admin.py`) | roles, audit | invitation, reset, audit, lists | access, reset, evaluation runs | change and audit apart | the audit is true | `Admin` |
| Operations (`operations/`, `migrations/`) | instance lock, manifest, backups, three stores | init, serve, backup, restore, upgrade, reconcile, migrate | all databases | death between two steps, write-ahead logs, partial migrations | a manifest means a whole instance, a backup is one moment, what a restore takes away is kept, rows survive | `Instance`, `Migrations` |
| Evaluation runs, baseline, release gate (`eval_runtime.py`, `eval_release.py`) | artifacts, baseline | run, compare, accept, gate, show | admin console | checks that end in many ways, a replaced baseline | passed means every required part passed | `ReleaseGate` |
| Providers, fakes, evaluation suites, front end | none in the service | – | – | – | – | – |

## Modules

| Module | Models | Extends |
|---|---|---|
| `RefundRules` | `assess_refund` branch by branch, the facts fingerprint, `MatrixAllows` (the plan's matrix) | – |
| `RefundLedger` | the refund tables, one action per repository method | `RefundRules` |
| `RefundPromise` | the abstract specification of the ledger: open, close, pay | – |
| `RefundApproval` | graph nodes, runs, checkpoint, approval route, restart | `RefundLedger` |
| `ServiceCentre` | pages read table by table while the ledger is written | `RefundLedger` |
| `ConversationRuns` | one conversation: rows, background tasks, saga, stream, process, old route | – |
| `L2Context` | refreshing observations, selecting a context (pure operators) | – |
| `L2Case` | nodes and rows of the support loop, runs, decisions, restart | `L2Context` |
| `PolicyRules` | index, lookup and rules over policy facts (pure operators) | – |
| `Dialogue` | clarification, order and policy inquiries, consultation, index rebuilds | `PolicyRules` |
| `Access` | invitations, accounts, sessions | – |
| `Workspace` | demo data, conversations on orders, reset, preferences | `Access` |
| `Admin` | roles, administrative changes and their audit | `Access` |
| `Orders` | base facts of a workspace and their seeding | `RefundRules` |
| `Migrations` | the nine revisions as sequences of statements (pure operators) | – |
| `Instance` | lock, stores, manifest, backups, the commands of `ops` | `Migrations` |
| `ReleaseGate` | evaluation runs, comparison, baseline, gate, admin page | – |
| `MC*` | instances for TLC, symmetry sets | the module they check |
| `RefundLedgerProofs`, `RefundApprovalProofs`, `OrdersProofs`, `ServiceCentreProofs`, `L2CaseProofs` | theorems and lemmas | the module they are about, TLAPS |
| `AccountProofs`; `ConversationProofs`; `OperationsProofs` | the same | `Admin`, `Workspace`; `ConversationRuns`, `Dialogue`; `ReleaseGate`, `Instance` |

### Refunds

**RefundRules.** A context is the record `assess_refund` reads. Amounts are minor units,
times are days (the window compares whole days); SHA-256 is taken as injective,
so a fingerprint is the record it hashes.

**RefundLedger.** `order`, `shipment`, `payment`, `action`, `refund` and `audit` are the tables, as
functions from present keys; `built` is every preview that was ever built, because a
checkpoint may hold any of them and come back with it later. `ReservePreview`,
`RejectAction`, `MarkStale`, `ExecuteRefund`, `ExecuteStale`, `VerifyRefund` and `UpsertPayment` are the
repository's methods with all their early returns; `UpdateOrder` and `DeleteOrder` include the
closing of pending actions and its audit. Each method is one atomic step: that
is what `session.begin()` is there for, although the engine leaves transactions to
pysqlite (see *Not modelled*). A shipment write stamps a new day, coarser than the
microseconds of the code, so the model has more equal fingerprints than the code.

**RefundApproval.** `graph[t]` is the state a background task executes, in memory;
`saved[t]` is the checkpoint, which follows it with a step of its own (`Checkpoint`: LangGraph's
default durability writes behind the node). `run`, `input`, `failedRun`, `gate`, `decided` are rows of
the conversation database, `asked` are requests between the route's checks and its
transaction, `told` the answers sent. Each node of `register_refund_nodes` is an action,
with the node's repository call and its routing; `FailRun` may strike at every node,
before or behind its commit. A message with an intent other than a refund ends at once.

**ServiceCentre.** The ledger's writes are joined with `stamp`, the `updated_at` of the rows the
pages order by, and with the support cases as rows. A list is followed from page to page by its
cursor; an order page and a service page are the SELECTs of `_order_detail`,
`_order_summary` and `_refund_detail` one at a time, since a reading session holds no snapshot
between statements. A row written during a walk of the pages moves above the
cursor and is not met again, which is why `PagesAreComplete` speaks of untouched rows.

### Conversations

**ConversationRuns.** The conversation row, `runs`, `messages` and `events` change together in
the repository's transactions; `checkpoint` (an interrupt or none), `task` (the background
thread of a run), `lock` (the thread lock), `asked` and `underway` (requests between their checks and
their transaction), `doomed` (the run the shutdown listed), `server` and `stream` are
the rest. The graph is seen from outside. `Shutdown` is the end of the grace period,
in which requests are taken to finish; background tasks are threads that go on.
Client request ids that are reused change no row, so a reuse is no action. The synchronous
route runs the graph under the thread lock, then accepts and completes a run in
three transactions behind it (under the lock when it resumes a support case).

**L2Context** selects what the model is shown. An observation keeps the version of its source and is read again
before a call: a business fact that changed is replaced, one whose source cannot be read is left without a version
and may not be shown; a policy observation is carried over *at its old corpus version* as long as the present index
has the text of its facts (`resolve_fact` compares text hashes), and one without facts (`insufficient_evidence`) is
carried over unread. Candidates are taken by priority within the token budget, or the context is refused. All
policy facts have one text: a corpus that rewrites some sections only, or goes back to an old text, is left out,
and so is `normalized_value`, which is not read again behind an unchanged text. **L2Case** has each node of
`l2_workflow.py` as an action, with the rows it writes: the case, the metered call (reserved, charged, settled),
the manifest of the context and the confirmed preference. `decide` is several steps, as sources may change between
them: `BeginDecide`, one `Reread` for each observation, `BuildContext` with the preferences, `SaveContext`,
`BeginCall` and `DecideCall`. `work` holds what it has so far and, for the property only, the world as it was when
this execution began (`since`); a replay begins anew. `execute_tool` reads its source and writes in one step, and
the messages a context shows are a constant number. A call is named by its case and number, which is what makes a
replayed node find its own call. The graph and the checkpoint are apart, as in `RefundApproval`, whose refund flow
is here one node that may wait.

**Dialogue.** One thread, turn after turn: the interpreter's result is chosen freely from `Messages`, then each
node of the order inquiry, the policy answer and the combined consultation is an action with the error it leaves.
`EditCorpus` and `BuildIndex` may come between any two nodes, and a run may fail or the process die at any of them.
Which eligible sections a search returns is chosen freely, because tokens and ranking are left out. `seen` collects
the editions of the index during a turn: `AnswerIsComplete` is claimed while an unchanged text had the same topic,
aspects and facts in all of them (`Steady`), because `resolve_fact` compares the hash of a text only and would take
over the changed metadata of an unchanged one.

### Accounts, workspaces, orders

**Access** has invitations with their conditional UPDATE, accounts and the sessions of
browsers. **Workspace** adds the row of the workspace, the demo orders with their public
numbers, the conversations on orders (look and insert of `get_or_create_order_conversation`
apart, with the unique index behind them), graphs that run on and write their
checkpoints, corrections of preferences (read, then put) and the reset: prepare,
one step per checkpoint and preference, complete; every step may fail or be the last
before a restart. `late` is what others wrote since a reset began, the only thing of the
time before that `ResetLeavesNothing` lets survive.

**Admin** has an administrator's request as admission, change and audit record, three
steps of which the last may fail. **Orders** has items, packages and shipment and how the
operations of `sqlite_business.py` change them together, the seeding of catalogue scenarios with the
requests that asked for it (look and write apart), and the three portfolio orders. Both have proofs instead of a run
of their own (see *Proofs*).

### Operations and release

**Migrations** is the list of statements of the nine revisions and what they do to the rows they find. pysqlite
opens a transaction at the first statement that writes rows, so schema statements before it are committed on their
own: a schema is a revision and the number of statements of the next one that a killed migration left behind.
**Instance** has the processes on one host, the lock that dies with its holder, and every command of `ops` as a
sequence of steps. `Reconcile` is `ops reconcile`: it asks for a manifest and for neither the lock nor a service
that is down, so it may write to the business store between any two steps of anybody; each run it interrupts is a
transaction that counts in `swept` and renews its conversation. A store is its file and the write-ahead log beside
it. The log knows the content it was written on (`on`) and the one it leads to (`as`). Beside a file it does not
belong to, what is read (`Beside`) is a mixture at the schema of either, or a file that cannot be read at all: the
version row is on one page, and nothing says whose page that is. Whoever opens such a database sees that, readiness
and preflight included. `held` in a process is for a property only: what the stores held when the first snapshot
was taken. **ReleaseGate** has evaluation runs, their comparison with the baseline, the acceptance of a baseline
(look, then write) and the gate over its checks, each of which may end in every way `SubprocessReleaseExecutor`
knows.

## Runs

| Run (cfg) | Question | Bounds |
|---|---|---|
| `ledger` (`MCRefundLedger`) | Are the tables consistent, and is the promise kept, whatever the order of calls? | one order, two actions (one to supersede the other), two amounts, two time stamps, preparing shipments, pending and settled payments |
| `approval` (`MCRefundApproval`) | Decisions, answers and interrupts under failures, replays, restarts | one thread, two actions, every run may fail (`Faulty`) |
| `ends` (`MCRefundApprovalEnds`) | Do runs end and decisions settle? Is the flow a use of the ledger? | one thread, one action, failures and restarts, fairness, no symmetry |
| `service` (`MCServiceCentre`) | Do pages read in several moments contradict themselves? Do cursors pass every row? | one order, two actions, one case, two policies, pages of one row (`Limit`), four stamps |
| `conversation` (`MCConversationRuns`) | History, ends, archive, deletion, the old route | three runs, one client id, one decision, a text of another order, one exchange of the old route |
| `streams` (`MCRunStreams`) | Does a client get the end of its run? Does a deleted conversation stay empty? | two runs, two client ids, the second run followed; no old route; fairness, no symmetry |
| `l2` (`MCL2Case`) | Charges, consent, groundedness, frozen cases | two previews, two versions of a source, two tools, two calls per case, three per day, a context of at most six tokens, one policy text that contradicts itself (1.8 million states) |
| `dialogue` (`MCDialogue`) | Completeness of answers and consultations, end of clarification | one dimension with two values, two aspects, four editions (`MCDialogue` says what each is for), fourteen messages, two rounds |
| `workspace` (`MCWorkspace`) | Reset, order-bound conversations, invitations | two names of which one is followed, two browsers, one scenario and two numbers, two threads, one kind of preference, two requests, two resets, one failure |
| `instance` (`MCInstance`) | Manifest, readiness, backups, restores, upgrades | two processes and `ops reconcile`, one write of the service, one reconciled run, three backups, databases of release 0.8 and of developers at revisions 4 and 8 |
| `rejection`, `restored` | what a document says and the code does not do, see *Findings* | smallest instances |

What each run shows:

- `ledger`: one active request of an order, every refund backed by an approved preview of the same
  facts, sound previews, an audit that tells every outcome, and every step a step of `RefundPromise`.
- `approval`: nothing is paid or rejected without the customer's decision for that request; what a
  customer is told is what the ledger holds; an interrupt has its action.
- `ends`: `RunsEnd`, `DecisionSettles`, and the refinement `UsesLedger`.
- `service`: `DetailIsCoherent` depends on the order of the SELECTs (payment before refunds before
  blocking requests), `ServiceTellsResult` on reading the action before its refund,
  `PagesAreComplete` on the identifier in the cursor.
- `conversation`, `streams`: messages alternate as turns, every run that ended has its event, a
  closed conversation has no active run, a stream that the server closes has delivered the end, none is
  open for ever, nothing is left of a deleted conversation.
- `l2`: a model call is charged once and within the limits of the case and of the day, replays included; no case
  and no preference without a confirmation; an answer cites evidence of the context it was shown; a fact in a saved
  context was so at some moment since this execution of `decide` began (a business fact at its version, a policy
  fact in its text), whatever changed or was lost while the sources were read; a closed case does not change. More
  than that does not hold: a source may change behind its reading, and a policy observation without facts is never
  read again.
- `dialogue`: a policy answer covers every fact its question needs, without conflicting or out-of-scope facts;
  a consultation that says completed has each of its parts; two questions at most before the fallback.
- `workspace`: uses of an invitation are accounts; one active conversation of an order; the generation counts
  successful resets, each audited once; nothing of the time before a reset is left; numbers survive.
- `instance`: a manifest appears behind everything it stands for; one that names this release stands for a ready
  instance, unless a database is read through the log of another one (`IsMixed`, which is the defect of
  `restored`); a backup is what the stores held together when the first snapshot was taken, reconciliations in
  between notwithstanding, because the business store, the only one they write, is copied first (the mutant copies
  it last); what the service wrote and a restore replaces is in a backup; migrated rows are kept.

**Are the bounds enough?** Two actions are what superseding, a late decision and a foreign decision need, since no
operation looks at more than two; two amounts and two stamps are what a changed fact needs. Three runs are what a
retry of a retry needs, and a run can only meet its predecessor, because a conversation has one active run. Two
calls with a limit of two per case and three per day let each limit be met, by a replay as well. Four editions let
every branch of the policy rules happen: a window that depends on the category, a rewritten one that contradicts
the section beside it while the fee is withdrawn, metadata that changed alone, and an old text that is given
another aspect. Two threads and two requests let two browsers compete for an order and two resets for a workspace.
Two processes let one hold the lock while another arrives or finds what a dead one left; one write tells before
from after, and one reconciled run can fall between any two steps (with two writes, 2.4 million states and no
violation, the run takes three minutes); three backups are a backup, the rollback copy a restore makes, and a later
one. Each property has a mutant in PROJECT.json, a plausible bug in a definition that models code, with which TLC
finds the property violated within these bounds.

`Actions`, `MaxRuns`, `MaxOldRoute`, `MaxPreviews`, `MaxVersion`, `MaxClock`, `MaxResets`, `MaxFailures`, `MaxUses`,
`MaxWrites`, `MaxSweeps` and `MaxBackups` are the only bounds on counters that the code does not have (`MaxUses` is 1
here and 100 in the code). In `workspace` only one name logs in (`Followed`): workspaces share nothing but the
invitation, which the second name competes for.

Symmetry permutes actions, processes, or threads, tabs, requests and numbers, which are only compared for equality,
and is used in `ledger`, `approval`, `instance`, `restored` and `workspace`, none of which checks a liveness
property.

Deadlock is not checked in four runs, where the modelled actors may really have nothing left to do: in `instance`
and `restored` a dead `init` leaves files no command accepts, in `service` the clock of stamps is bounded, and in
`workspace` the only invitation may be closed before anyone registered.

## Fairness

`FairApproval` is weak fairness of `Background(t)` for every thread; `FairSpec` of `ConversationRuns` is weak
fairness of `Background(r)` for every run, of a client's poll (`Stream`) and of the steps of the old route
(`DirectStep`). The code justifies it: a background task is executed by a thread pool to its end, whether or not
the client stays, a synchronous handler runs to its end, and `generate` polls until it returns. Nothing else is
fair: requests need not come, failures, restarts, disconnections and shutdowns need not happen, and none is assumed
to stop happening. `RunsEnd` needs the restart's reconciliation; `DecisionSettles` therefore allows a failed or
interrupted run as an outcome. The other modules state safety only: a reset, a consultation or a command of `ops`
may fail for ever.

## Proofs

Every invariant and every action property of the passing runs is a theorem, for every value of the constants that
satisfies the named assumptions (`DeletedIsEmpty` for conversations that do not use the old route, as in its run).
One paragraph for each component says which invariant is inductive, and why it has to be as strong as it is. For
`TalkInv`, `ToldInv`, `CentreInv`, `DialogueInv`, `HostInv`, `RowsInv` and the one of the support loop, TLC also
found no violation with the constants of their runs.

**Refund rules** (`RefundLedgerProofs`). For every consistent context `assess_refund` is the matrix
plus evidence (`EligibleIsMatrix`), and hence does not depend on the clock
(`EligibilityIgnoresClock`). `Consistent` is what the CHECK constraints and `Refunds` rows
guarantee; the ledger proofs discharge it for every context read from the tables. No run repeats these: they are
about all inputs already.

**Refund ledger** (`RefundLedgerProofs`). `Spec => []IInv` for any sets of orders, threads, actions, policies and
inputs that satisfy `LedgerAssumption`. `IInv` is the conjunction of the type invariant, `OneActivePerOrder`,
`RefundIsBacked`, `PreviewsSound`, `NoOrphanAction`, `AuditTellsOutcome` and `NeverMismatches`. The parts need each other: a
refund is backed because the executed preview is sound (`PreviewsSound` holds of *every* preview
ever built, not only of stored ones, which is what makes an old checkpoint
safe) and because the fingerprint found equal says that the payment is settled and whole;
no action is an orphan because requests exist only beside a payment and `delete_order` looks at
the payment; a second refund is excluded because a completed action keeps its order's
place among the active ones. The proof has one lemma for each kind of write and one case for each
action. From it follow the named invariants, the action properties `PaidOnCurrentFacts` and `ClosedIsFinal`, and
the refinement `KeepsPromise`: every step is an open, a close, a pay or a stutter of `RefundPromise`.

**Approval** (`RefundApprovalProofs`). Every step of the flow is a step of the ledger or leaves it alone
(`ApprovalUsesLedger`), so every result about the ledger holds with graphs, runs, failures and restarts
(`ApprovalIsSafe`), and no request is paid or rejected without the customer's decision for that action
(`DecisionsAreKept`). The strengthening is `FlowInv`: a graph or a checkpoint past the interrupt holds one preview
only, and the decision that leads to its node was accepted; a restart replaces one by the other. `ToldIsTrue` and
`InterruptIsStored` rest on a second invariant, `TalkInv`. `Holds` says what an answer claims in a form that stays
true: a completed refund is in its table and was verified, a closed request keeps its row, a preview that met a
conflict is never reserved. The last one is the hard part, because a checkpoint behind its graph may be resumed
long after the answer was sent: `Honest` says that only the thread the preview was built for may reserve it, and
that it has not been answered with a conflict when it is about to; `Unanswered`, that a run about to reserve has no
checkpoint of the same preview that was.

**Orders and demo data** (`OrdersProofs`). From a valid catalogue (`Assumed`), for any numbers, articles and
requests: packages hold what was ordered and no more (`OrdersInvariant`, over `Fits`), the summary of an order's
packages advances with them (`SummaryAdvances`), a seeded order cannot be deleted and keeps its scenario until a
reset (`SeededOrdersStay`), a request has one answer (`AnswersAreKept`) until a reset, and the portfolio orders get
the refund decisions the product tells of them (`PortfolioIsAsTold`).

**Service centre** (`ServiceCentreProofs`, over the proofs of the ledger). `CentreInv` has three parts. Stamps
(`StampInv`): no stamp is ahead of the clock, and a completed request is the latest row of its order, since
completing closes the others first; without it the order page could pick another card. Pages (`OrderPageInv`,
`ServicePageInv`): what was read of a refund earlier is still so in the tables as they are now, because a refund is
never taken back (`RefundStays`); this relates a half-built page to rows that others go on writing. Lists
(`ListInv`): what was shown stands before the cursor, a row not written since the walk began was shown or follows
it (`CursorInv`), stays in its view (`ViewInv`), and is as the requests read before the cases say (`RowsInv`). A
page is a prefix of what follows the cursor in a finite total order (`Foremost`, `PageIsPrefix`).
`ServiceAssumption` asks that ids of orders, requests and cases differ, are finitely many, and are ordered with the
cases first: they are strings, and service ids begin with `l2:` or `refund:`.

**Conversations** (`ConversationProofs`). The rows have an invariant of their own, `Turns`: at most the last run is
active, the messages of run r are those at 2r - 1 and 2r, and the second is there exactly when r is not active.
Every step accepts, closes or starts one run, changes the lifecycle while none is active, or empties the rows
(`RowStep`), and each of these keeps it; `HistoryHolds` and `ClosedHolds` follow, with the old route, crashes and
restarts. `ToldInv` adds events and the client: a run has a terminal event exactly when it is not active (appending
only the keys that are missing, which `KeyedIs` describes), what a stream has seen stays the beginning of what
there is, and it is at its last look (`recheck`) only behind the end of its run; a run disappears with its
conversation only. `EndsAreTold` and `StreamsAreComplete` follow. `DeleteIsFinal` adds the tasks, and assumes that
the old route is not used: while the process is up, a task that may still write has an active run
(`TasksAreActive`), so a delete that has begun met none, and a conversation being deleted accepts none (`GoneInv`).
The shutdown breaks the first, but waits for open requests and starts no new delete.

**Support loop** (`L2CaseProofs`). `L2Inv` is `IInv` and `PrepOK`, and `IInv` is `RowsOK`, `MetersOK` and `FlowOK`.
Charges are sums over functions, which first-order provers know nothing of; `Total` is unfolded one call at a time,
and what is said of the calls 1 .. k of a case is proved by induction on k with sets of naturals and their
well-foundedness, since the library's induction theorems cannot be used (see below). `MetersOK` says that calls are
numbered without a gap, that each charge is what its context and the calls before it allow, and that the tokens of
a case are the sum of its calls: that is why a replayed call, which finds its own number, is charged nothing.
`FlowOK` relates graph, checkpoint and rows: a graph may lag behind its case after a restart but is never ahead of
it (`UseOK`), a node that has called the model and not returned goes on with a charge and a context that are stored
(`WorkOK`), and every node holds what the edges to it require (`NodeOK`), consent and citations included.
`SettledOK` and `Paired` exist for one case: a checkpoint at the resolving node that is executed once more behind a
resolved case says the same as before. `PrepOK` is about the execution of `decide` that is under way and lives in
the graph only (a checkpoint holds none): an observation that was read again, and each one that the built context
shows as a fact, was so between the moment the execution began and now (`WasSo`). It holds on because versions only
rise, so that the interval only grows. From all this follow the metering, consent and grounding invariants and, as
action properties, `ContextIsCurrent` and that closed cases never change.

**Dialogue** (`ConversationProofs`). `DialogueInv` has a part for routes, the indexes of a turn, policy answers,
consultations and the counter. The policy part is about what references mean: `Meant` is the set of facts that
references stand for in an edition, and `ResolvedIsMeant` says that references found in one edition and resolved in
another stand for the same facts as long as the texts mean the same in both (`Agree`). It needs that identifiers
are unique within an edition (`UniqueIds` in `DialogueAssumption`, what `_validate_unique_identifiers` refuses
otherwise). A rebuild only adds to `seen`, so what is `Steady` later was steady before. `WholeTurn` says what a
consultation holds behind each of its nodes, and `CountInv` that a question was counted in the checkpoint before it
was sent, from which no more than `MaxClarifications` follow another.

**Access and audit** (`AccountProofs`). The uses of an invitation are the accounts registered with it
(`InvitationsAreAccounts`), and the audit tells only what happened (`AuditIsTrue`): an entry that says succeeded has
its change, whoever lost a role or an audit record in between.

**Workspaces** (`AccountProofs`). Over the type invariant (`WorkspaceType`, with `Owned`: a thread is its owner's
in every row and checkpoint, and `NewIsFresh`: an account that was never made has nothing to reset), the unique
index alone gives `OneTask`; public numbers are drawn once (`NumbersAreKept`). `ResetsAreCounted` needs `AuditInv`:
the entries number the resets from one without a gap, and the plan that is open is none of them. `NothingIsLeft`
needs `LeftInv`: while a reset holds the workspace, everything older than it, apart from late writes of tasks that
were running, is in its plan, or is deleted already. The assumption is that threads are not scenario numbers.

**Instance** (`OperationsProofs`). `HostInv` is the three stores, the backups, the processes, `ManifestIsLast` and
`ReleaseIsReady`. `Progress` says for every command what it has done before its next step: which stores `init` and
`restore` have put in place, with a business store that is current or mixed (`PutInPlace`, `NotBehind`), that an
upgrade past its migrations found the head (`Upgraded`), that what a restore has not replaced yet is in a backup
but for runs interrupted since (`RolledBack`, `Since`), and that the snapshots taken so far are what was held when
the first was taken, from which only the business store has moved, and only by reconciliations (`Copied`). `Sound`
says that what is read of a current business store through the log beside it is current or mixed, so no log takes
such a database back to an older release without being mixed. `Reconcile` needs no lock, so it is shown to keep
what `Progress` says of *every* process, whatever it is at. Mutual exclusion has one more exception: `db upgrade`
takes no lock, and is found beside its like only, with no manifest. `BackupsAreOneMoment` and
`NothingIsOverwritten` are read off the steps `Publish` and `RestoreStep`. The rows of an older release have an
invariant of their own (`RowsInv`): whatever a file, a log or a backup of the business store holds is a function of
the rows it began with, the conversations a reconciliation has renewed between two revisions (`Renewals`, which
moves the order in which revision nine finds them) and the version it is at (`RowsFrom`), for rows of any number
that the tables allow (`RowsAssumption`: unique ids, no nulls in what the migrations sort by, nothing written after
today). That revision five numbers the events of a case without a gap and in order (`NumberedKeeps`), and that
revision nine leaves each order its newest task and archives nothing else (`OneTaskKeeps`), are lemmas about finite
total orders: a number is one more than the count of what comes before, so it rises strictly and takes every value.

**Release gate** (`OperationsProofs`). Passing the comparison is transitive (`ComparisonIsTransitive`), so what is
compared with an accepted run holds against its baseline; an accepted baseline passed, and a gate that says passed
has every required check, two equal repeats and the comparison (`ReleaseIsWhole`); the administrators'
page and the comparison of the command line agree on what passed (`PageAgrees`).

`Orders`, `Admin` and `ReleaseGate` have no run of their own: their invariants are proved for every size, while TLC
exhausts only instances too small to say more (it was used to simulate and to search them in part before the proofs
were written). Only model-checked are the liveness properties `RunsEnd`, `DecisionSettles` and `StreamsEnd`, since
liveness under fairness and `ENABLED` are beyond the prover. The induction theorems of the library take an operator
as a parameter, which the provers cannot instantiate; where an induction was needed (sums, a least position), it is
done with sets and `NatLessThanWellFounded`. No module declares a recursive operator.

## Findings

Two runs check what a document of the repository says and find it violated by what the code
does (quotes and lines in PROJECT.json):

- `rejection`: the route of a decision checks the checkpoint and accepts later. Behind an approval that failed
  at `execute_refund`, a late rejection resumes the graph there and the refund is paid.
- `restored`: a restore replaces the database files and leaves the write-ahead logs beside them. Behind a service,
  a migration or a reconciliation that was killed, SQLite applies the old log to the restored file, and the counts,
  which are read without the log, do not show it. What is read then may be at the revision of the log: the manifest
  names this release and the instance is not ready, which is why `ReleaseIsReady` excepts mixed databases.

## Observations

Met while modelling, kept in the models as the code has them, and not given a run of their own.
Paths of documents are under `docs/`.

*Approval and runs.* An approval interrupted before the graph consumed it has used its id and cannot be repeated
(`routes/chat.py:737-743`; specs/v0.4-refund-approval.md:161). The retry of a failed retry runs on the label of
the retry, not on the message (`routes/conversations.py:257,276`; plans/v0.6-conversation-lifecycle-plan.md:560). A
deletion that failed half way answers 404 when it is repeated (plan v0.6:762 calls it a retryable saga).
Completing and failing write the status of a run that already ended, at shutdown. `fail_run` keeps the
gate of a pending action; `set_lifecycle` does not look at it again; a repeated message is answered
`pending_action_required` when its first copy led to an interrupt.

*Synchronous route.* It looks at no lifecycle, and deletion takes no thread lock: the graph of a closed or deleted
conversation still runs and writes its checkpoint behind the deletion (specs/v0.6-conversation-lifecycle.md:280).
`DeletedIsEmpty` is therefore checked without this route (`MaxOldRoute` = 0 in `streams`). If accepting the
exchange is refused behind the graph, the graph has moved and the exchange is in no history.

*Support cases.* A message that starts over, or a crash, leaves an open case that refuses later upgrades with
`l2_case_already_active` (specs/v0.5-l2-support-harness.md:81-82). A replayed `decide` calls the provider again,
uncharged. A policy observation that is carried over keeps its old corpus version, and one without facts is never
read again, where plans/v0.7-context-observability-plan.md:449 asks for a check of versions before each call; a
source that changes behind its reading is shown as it was. A preference confirmed in a run that failed before its
checkpoint can be rejected afterwards and stays stored. Behind a lagging checkpoint a closed case raises a state
conflict on every message.

*Dialogue.* A failed shipment or order tool followed by insufficient policy evidence says `insufficient_evidence`
instead of `tool_failed`, and an unavailable order followed by a failed policy search says `tool_failed`
(specs/v1.3-commercial-service-experience.md:218). A fallback whose run fails behind its checkpoint is never seen and the
count starts again; a clarification that was counted and not shown shortens the dialogue
(specs/v2.0.1-intent-clarification.md).

*Workspace.* The front end draws a new request id per click, so a half-failed reset is never resumed, only refused
(plans/v2.0-interview-ready-agent-product-plan.md:63-67). Nothing looks at `dataset_status`: writes during a reset
survive it. Un-archiving beside another active conversation breaks the unique index, uncaught. `get_session`
rotates the CSRF token, so a second tab invalidates the first.

*Orders and demo data.* `quality_issue` (shipped two days before seeding) is `refund_window_expired` from the sixth
day after seeding, although specs/v2.0 (144) keeps it as the return case until a reset. A reset deletes
catalogue-seeded orders, and a seed that looked before a reset or delete answers with a number that is gone. Two
competing seeds of one scenario: the second gets `catalog_seed_conflict` instead of `created=False`. `update_order`
compares items in the given order with rows sorted by SKU, so the same items in another order clear the packages
and close previews.

*Service centre.* A page may show a refund beside a payment that was read before it, or a request completed without
its refund listed. `reserve_preview` stamps the superseded and the new action equally, and `_order_summary` orders
by the stamp alone, so a card may name the old one.

*Operations.* Death between the moves of `init` leaves data without a manifest, which `init` refuses for ever
(`lifecycle.py:68`). A crash between the three replacements of a restore leaves stores of two instants under the
old manifest, and the preflight passes. `ops reconcile` and `db upgrade` take no lock, though adr/0010 (35) says
there is one writer. A backup made while `ops reconcile` writes succeeds and holds the moment of its first
snapshot, where specs/v1.0-single-host-delivery.md:266 and 331 ask for a failure or a wait; what is reconciled
between the rollback snapshot and the replacement is lost with the restored file. Reconciled between two revisions
of a migration, a conversation is renewed and may become the one that revision nine keeps active. A restore over a
database that a foreign log has made unreadable is refused, because its rollback snapshot fails. A pre-upgrade
backup of release 0.8 is refused by `_validate_restored_stores` (specs/v1.0-single-host-delivery.md:338). A
migration that died behind a statement that was committed on its own fails for ever when repeated. An upgrade that
dies before it writes the manifest leaves one of release 0.8 that the preflight of `serve` accepts. A restore onto
a host without a manifest replaces databases without a rollback copy (`backup.py:380-412`). Databases of 0.8 have
no `related_order_id`, so revision nine archives every active conversation.

*Admin and release.* A change and its audit are separate transactions, and a failed audit is only logged
(`routes/admin.py:58-91`); the role is checked once, at admission. `accept_baseline --replace` never compares with
the baseline it replaces and accepts a run of a subset of the suites; two acceptances without `--replace` can both
pass the existence check.

## Plan

Done: every module of the table above, the twelve runs, and the proofs above: of what the runs check, all but
liveness. Next, in order of weight:

1. `RefundTransactions`: the ledger's methods statement by statement, to see what the
   missing `BEGIN IMMEDIATE` lets through, and where it implements `RefundLedger`.
2. A run of its own for `Orders`, once its state can be exhausted at a size that says something.

## Not modelled, and why

- Statement-level interleaving of repository methods (plan 1): each is atomic here, except where a module says
  otherwise (`Workspace`, `ServiceCentre`, `Admin`, `ReleaseGate` look and write apart).
- The offline evaluation suites, about fifteen thousand lines of scenarios, fixtures and scoring: sequential code
  over fakes that shares no state with the service. Their results are the inputs of `ReleaseGate`.
- Parsing of commands (`cli.py` beyond the commands named above), request and response schemas, read-only
  projections (cards, milestones, the overview, admin lists, monitoring, the public trace): no state changes.
- Providers and fakes: network adapters and test doubles. A call may return anything the caller accepts, or fail.
- Guest sessions, password hashing, CSRF and the rate limiter; the daily quota is modelled where the support loop
  uses it (`L2Case`), the look and the use apart, and not for chat messages.
- A reconciliation whose connection stays open across the replacement of its file, and what one does to the runs of
  a service that is up (`ConversationRuns` has the reconciliation at startup only).
- Downgrades of the schema, disk space, digests and the audit file of `ops`; elapsed time in the support loop, which only
  stops it earlier; the order and reason a refund request keeps from the turn before.
- Wording, HTTP codes, logging, the front end.
