------------------------------- MODULE Instance -------------------------------
(***************************************************************************)
(* One installation on a single host: the service and the commands of      *)
(* `ops` (operations/*.py), which exclude each other with a file lock, the *)
(* three authoritative SQLite stores, the manifest of the instance and the *)
(* published backups.                                                      *)
(*                                                                         *)
(* The stores have no common transaction and a command changes them one    *)
(* after another, so every command is a sequence of steps that a failure   *)
(* or the death of its process may cut off.  The lock dies with its        *)
(* process.  Temporary copies, sizes, digests and the audit file are left  *)
(* out; ids of the instance never change and are left out, too.            *)
(*                                                                         *)
(* A store is in WAL mode (sqlite_business.py:127): what was written since *)
(* the last clean close is in a file of its own beside the database.       *)
(***************************************************************************)
EXTENDS Migrations

CONSTANTS Procs,       \* processes on the host
          OldRows,     \* the rows of a database of an older release
          OldRuns,     \* conversations of it with a run that was never finished
          Today,       \* when this release is at work: later than all of that
          MaxWrites,   \* bound: writes of the service
          MaxSweeps,   \* bound: runs of one database that ops reconcile interrupts
          MaxBackups   \* bound: published backups

ASSUME InstanceAssumption ==
  IsFiniteSet(Procs) /\ {MaxWrites, MaxSweeps, MaxBackups} \subseteq Nat

ASSUME RowsAssumption ==
  /\ IsRows(OldRows) /\ Today \in Int
  /\ \A t \in DOMAIN OldRows.conversations : OldRows.conversations[t].at <= Today

VARIABLES
  disk,      \* store -> [file, wal]: the database and the writes beside it
  index,     \* whether the policy index is built from the present sources
  manifest,  \* {} or {[release, from]}: instance.json
  backups,   \* sequence of published backups: store -> content
  writes,    \* number of writes of the service
  proc       \* process -> what it does while it holds the lock, or Idle

instvars == <<disk, index, manifest, backups, writes, proc>>

\* AUTHORITATIVE_FILES, in the order every command goes through them.
StoreOrder_BusinessLast == <<"checkpoints", "memory", "business">>     \* mutant
StoreOrder == <<"business", "checkpoints", "memory">>
Stores == {StoreOrder[i] : i \in 1..3}

\* What a database holds: the last write of the service, the number of runs that
\* ops reconcile has interrupted in it, its schema and its rows.  Only the business
\* store is ever migrated; rows are followed in one of an older release.
Content(at, swept, schema, rows) ==
  [at |-> at, swept |-> swept, schema |-> schema, rows |-> rows]
NoRows  == [conversations |-> <<>>, events |-> <<>>]
Empty(at) == Content(at, 0, Schema(HeadRevision, 0), NoRows)
Missing == Content(-1, 0, Schema(0, 0), NoRows)

\* What is read of a database with the WAL of another one: pages of both, the
\* version of the schema on one of them; or it cannot be read at all.
Mixture(schema) == Content(-2, 0, schema, NoRows)
Malformed       == Mixture(Schema(0, 0))
IsMixed(c)      == c.at = Malformed.at

\* A WAL belongs to the file it was written on, which it takes to another content.
\* now is what a connection reads: the WAL is applied to whatever file it finds.
Clean(content) == [file |-> content, wal |-> {}]
Logged(d, content) ==
  [d EXCEPT !.wal = {[on |-> d.file, as |-> content, now |-> content]}]
Beside(w, file) ==
  IF file \in {w.on, w.as} THEN {w.as}
  ELSE {Mixture(w.as.schema), Mixture(file.schema), Malformed}

Read(d) == IF d.wal = {} THEN d.file ELSE (CHOOSE w \in d.wal : TRUE).now

\* The last connection that may write folds the WAL into the file.
Settle(d) == Clean(Read(d))

\* d is c, but for the runs that ops reconcile has interrupted since.
Since(c, d) ==
  /\ c.at = d.at /\ c.schema = d.schema /\ c.swept <= d.swept
  /\ c.swept = d.swept => c = d

\* held, kept for the property only: the stores when the first was copied.
Idle == [op |-> "none"]
Task(op, step, backup) ==
  [op |-> op, step |-> step, copy |-> <<>>, held |-> <<>>, backup |-> backup, at |-> Schema(0, 0)]

\* InstanceLock.acquire
CanLock == \A q \in Procs : proc[q] = Idle

\* The step behind the one that puts store s in its place.
Behind(s, last) == CASE s = "business"    -> "checkpoints"
                     [] s = "checkpoints" -> "memory"
                     [] s = "memory"      -> last

Does(p, op, step) == proc[p] # Idle /\ proc[p].op = op /\ proc[p].step = step
Goes(p, step) == proc' = [proc EXCEPT ![p].step = step]
Releases(p)   == proc' = [proc EXCEPT ![p] = Idle]

Installed == \A s \in Stores : Read(disk[s]) # Missing
Readable  == \A s \in Stores : Read(disk[s]) \notin {Missing, Malformed}
Serving   == \E q \in Procs : proc[q].op = "serve"
Business  == Read(disk["business"])

\* run_preflight: what a command wants to find.  The configuration and the files
\* of the release are right here, and the data format has never changed.
Preflight(mode) ==
  /\ CanLock
  /\ mode \notin {"init", "restore"} => manifest # {}
  /\ mode \in {"serve", "backup"} => Readable /\ Current(Business.schema)
  /\ mode = "serve" => index

\* readiness_state: what the service tells whoever asks.
Ready ==
  /\ \E m \in manifest : m.release = "v1"
  /\ Readable /\ Current(Business.schema) /\ index

-----------------------------------------------------------------------------
(* The service                                                             *)

\* _run_web_server: the lock, then the preflight in mode serve.
StartService(p) ==
  /\ Preflight("serve")
  /\ proc' = [proc EXCEPT ![p] = Task("serve", "run", 0)]
  /\ UNCHANGED <<disk, index, manifest, backups, writes>>

\* A transaction on one store.  The connections to checkpoints and memory are
\* closed after each use, which folds their WAL unless one is still open.
Write(p, s, closes) ==
  /\ Does(p, "serve", "run") /\ writes < MaxWrites
  /\ closes => s # "business"
  /\ Read(disk[s]) # Malformed
  /\ writes' = writes + 1
  /\ LET old == Read(disk[s])
         new == IF IsMixed(old) THEN old ELSE [old EXCEPT !.at = writes']
     IN disk' = [disk EXCEPT ![s] =
          IF closes THEN Clean(new) ELSE Logged(@, new)]
  /\ UNCHANGED <<index, manifest, backups, proc>>

\* The lifespan ends and every connection is closed.
StopService(p) ==
  /\ Does(p, "serve", "run")
  /\ disk' = [s \in Stores |-> Settle(disk[s])]
  /\ Releases(p)
  /\ UNCHANGED <<index, manifest, backups, writes>>

-----------------------------------------------------------------------------
(* ops init                                                                *)

BeginInit(p) ==
  /\ Preflight("init")
  /\ manifest = {} /\ ~ \E s \in Stores : Read(disk[s]) # Missing
  /\ proc' = [proc EXCEPT ![p] = Task("init", "business", 0)]
  /\ UNCHANGED <<disk, index, manifest, backups, writes>>

\* One file after another is moved to its place, then the manifest is written.
Install_ManifestFirst(s) ==    \* mutant: before the last file
  /\ disk' = [disk EXCEPT ![s] = Clean(Empty(0))]
  /\ manifest' = IF s = "checkpoints" THEN {[release |-> "v1", from |-> 0]} ELSE manifest
Install(s) ==
  /\ disk' = [disk EXCEPT ![s] = Clean(Empty(0))]
  /\ UNCHANGED manifest

InitStep(p) ==
  /\ UNCHANGED <<backups, writes>>
  /\ \/ \E s \in Stores : /\ Does(p, "init", s) /\ Install(s)
                          /\ Goes(p, Behind(s, "index")) /\ UNCHANGED index
     \/ /\ Does(p, "init", "index") /\ index' = TRUE
        /\ Goes(p, "record") /\ UNCHANGED <<disk, manifest>>
     \/ /\ Does(p, "init", "record") /\ manifest' = {[release |-> "v1", from |-> 0]}
        /\ Releases(p) /\ UNCHANGED <<disk, index>>

\* The handler of initialize_instance removes what it had moved.
FailInit(p) ==
  /\ proc[p].op = "init"
  /\ disk' = [s \in Stores |-> Clean(Missing)]
  /\ index' = FALSE
  /\ Releases(p)
  /\ UNCHANGED <<manifest, backups, writes>>

-----------------------------------------------------------------------------
(* Backups                                                                 *)

\* create_backup; its preflight wants a current instance.
BeginBackup(p) ==
  /\ Preflight("backup")
  /\ Len(backups) < MaxBackups
  /\ proc' = [proc EXCEPT ![p] = Task("backup", "snapshot", 0)]
  /\ UNCHANGED <<disk, index, manifest, backups, writes>>

\* _create_backup_unlocked: the stores in their order, each through the
\* SQLite backup interface, which reads the WAL.
Snapshot(p) ==
  LET k == Len(proc[p].copy) + 1
  IN /\ proc[p] # Idle /\ proc[p].step = "snapshot" /\ k <= 3
     /\ Read(disk[StoreOrder[k]]) \notin {Missing, Malformed}
     /\ proc' = [proc EXCEPT
          ![p].copy = Append(@, Read(disk[StoreOrder[k]])),
          ![p].held = IF k = 1 THEN [s \in Stores |-> Read(disk[s])] ELSE @]
     /\ UNCHANGED <<disk, index, manifest, backups, writes>>

\* The verified directory gets its name; what the command does next.
Publish(p) ==
  /\ proc[p] # Idle /\ proc[p].step = "snapshot" /\ Len(proc[p].copy) = 3
  /\ backups' = Append(backups,
       [s \in Stores |-> proc[p].copy[CHOOSE k \in 1..3 : StoreOrder[k] = s]])
  /\ proc' = [proc EXCEPT ![p] =
       CASE @.op = "backup"  -> Idle
         [] @.op = "restore" -> Task("restore", "business", @.backup)
         [] @.op = "upgrade" -> Task("upgrade", "migrate", 0)]
  /\ UNCHANGED <<disk, index, manifest, writes>>

-----------------------------------------------------------------------------
(* ops restore                                                             *)

\* An instance is replaced only behind a rollback backup.
KeepsRollback_Upgraded ==     \* mutant: an instance of an older release is not kept
  \E m \in manifest : m.release = "v1"
KeepsRollback == manifest # {}

\* restore_backup: a backup of another schema is refused.
CanRestore(b) == Current(backups[b]["business"].schema)

BeginRestore(p, b) ==
  /\ Preflight("restore")
  /\ CanRestore(b)
  /\ proc' = [proc EXCEPT ![p] = Task("restore", IF KeepsRollback THEN "snapshot" ELSE "business", b)]
  /\ KeepsRollback => Len(backups) < MaxBackups
  /\ UNCHANGED <<disk, index, manifest, backups, writes>>

\* What a store may be when another file is moved to its place.
Replaced(d, file) ==
  IF d.wal = {} THEN {Clean(file)}
  ELSE UNION {{[file |-> file, wal |-> {[w EXCEPT !.now = c]}] : c \in Beside(w, file)} : w \in d.wal}

\* The files are replaced one after another, and only they; then their rows
\* are counted, without the WAL (those of a mixture may be as many), the index is
\* rebuilt and the manifest written.
RestoreStep(p) ==
  /\ UNCHANGED <<backups, writes>>
  /\ \/ \E s \in Stores :
          /\ Does(p, "restore", s)
          /\ \E d \in Replaced(disk[s], backups[proc[p].backup][s]) :
               disk' = [disk EXCEPT ![s] = d]
          /\ Goes(p, Behind(s, "count")) /\ UNCHANGED <<index, manifest>>
     \/ /\ Does(p, "restore", "count")
        /\ \A s \in Stores :
             LET file == disk[s].file
             IN file = backups[proc[p].backup][s] \/ (IsMixed(file) /\ file # Malformed)
        /\ Goes(p, "index") /\ UNCHANGED <<disk, index, manifest>>
     \/ /\ Does(p, "restore", "index") /\ index' = TRUE
        /\ Goes(p, "record") /\ UNCHANGED <<disk, manifest>>
     \/ /\ Does(p, "restore", "record")
        /\ manifest' = {[release |-> "v1", from |-> proc[p].backup]}
        /\ Releases(p) /\ UNCHANGED <<disk, index>>

-----------------------------------------------------------------------------
(* ops upgrade, db upgrade, ops reconcile                                  *)

\* What a migration has created is in WAL mode only when somebody has used it.
Unused(c) == c.at \in {0, Missing.at} /\ c.rows = NoRows

\* command.upgrade reads the version once and runs every revision behind it.
\* What is committed stays if the process dies; a statement that was committed
\* before by somebody else fails, and with it the command (Fail).
MigrateStep(p) ==
  LET found == Business
      next  == Advanced(found.schema)
      rows  == IF next.left = 0 THEN RowsAfter(next.version, found.rows) ELSE found.rows
      new   == Content(IF found = Missing THEN 0 ELSE found.at, found.swept, next, rows)
  IN /\ proc[p] # Idle /\ proc[p].step = "migrate" /\ found # Malformed
     /\ ~Current(found.schema) /\ found.schema = proc[p].at
     /\ disk' = [disk EXCEPT !["business"] =
          IF Current(next) \/ Unused(found) THEN Clean(new) ELSE Logged(@, new)]
     /\ proc' = [proc EXCEPT ![p].at = next]
     /\ UNCHANGED <<index, manifest, backups, writes>>

\* A database that is current already is left alone.
EndMigrate(p) ==
  /\ proc[p] # Idle /\ proc[p].step = "migrate" /\ Current(Business.schema)
  /\ IF proc[p].op = "upgrade" THEN Goes(p, "index") ELSE Releases(p)
  /\ UNCHANGED <<disk, index, manifest, backups, writes>>

BeginUpgrade(p) ==
  /\ Preflight("upgrade")
  /\ \E m \in manifest : m.release = "v0.8"
  /\ Len(backups) < MaxBackups
  /\ proc' = [proc EXCEPT ![p] = [Task("upgrade", "snapshot", 0) EXCEPT
                                 !.at = Schema(Business.schema.version, 0)]]
  /\ UNCHANGED <<disk, index, manifest, backups, writes>>

\* _run_database_upgrade: a developer's command, for a database of no instance.
\* It takes no lock: another one may run beside it, but nobody runs one beside
\* a command of ops.
DbUpgrade(p) ==
  /\ manifest = {} /\ \A q \in Procs : proc[q].op \in {"none", "db"}
  /\ proc' = [proc EXCEPT ![p] = [Task("db", "migrate", 0) EXCEPT
                                 !.at = Schema(Business.schema.version, 0)]]
  /\ UNCHANGED <<disk, index, manifest, backups, writes>>

\* upgrade_from_v08: migrate, check, rebuild the index, write the manifest.
Record == manifest' = {[m EXCEPT !.release = "v1"] : m \in manifest}

UpgradeStep_RecordsFirst(p) ==     \* mutant: success is recorded before the index
  /\ UNCHANGED <<disk, backups, writes>>
  /\ \/ Does(p, "upgrade", "index") /\ Readable /\ Record /\ Goes(p, "record") /\ UNCHANGED index
     \/ Does(p, "upgrade", "record") /\ index' = TRUE /\ Releases(p) /\ UNCHANGED manifest
UpgradeStep(p) ==
  /\ UNCHANGED <<disk, backups, writes>>
  /\ \/ /\ Does(p, "upgrade", "index") /\ Readable /\ index' = TRUE
        /\ Goes(p, "record") /\ UNCHANGED manifest
     \/ Does(p, "upgrade", "record") /\ Record /\ Releases(p) /\ UNCHANGED index

\* interrupt_unfinished_runs writes columns of revision 6, and raises before.
\* Each run is a transaction of its own (fail_run), which renews its conversation,
\* too: one whose rows are followed or another one.
Renewed(c, t) ==
  [c EXCEPT !.conversations =
     [u \in DOMAIN @ |-> IF u = t THEN [@[u] EXCEPT !.at = Today] ELSE @[u]]]
Interrupted(c) ==
  IF c.swept < MaxSweeps /\ HasOrders(c.schema)
  THEN {[c EXCEPT !.swept = @ + 1, !.rows = r] :
          r \in {c.rows} \cup IF Current(c.schema) THEN {} ELSE {Renewed(c.rows, t) : t \in OldRuns}}
  ELSE {}

\* ops reconcile wants a manifest, and neither the lock nor a service that is down:
\* one of its transactions, or its end.  The WAL is folded into the file when no
\* other connection is open and the command was not killed.
Reconcile ==
  /\ manifest # {}
  /\ \E found \in {Business} \cup Interrupted(Business), folds \in BOOLEAN :
       /\ folds \/ found # Business
       /\ disk' = [disk EXCEPT !["business"] = IF folds THEN Clean(found) ELSE Logged(@, found)]
  /\ UNCHANGED <<index, manifest, backups, writes, proc>>

\* A command raises, or the process dies, between two steps: the lock is free.
Fail(p) ==
  /\ proc[p] # Idle
  /\ Releases(p)
  /\ UNCHANGED <<disk, index, manifest, backups, writes>>

-----------------------------------------------------------------------------
\* The rows of an older release: events are numbered from revision 5 on, and a
\* conversation has an order from revision 6 on.
RowsAt(version) ==
  [conversations |-> IF version >= 6 THEN OldRows.conversations
                     ELSE [t \in DOMAIN OldRows.conversations |->
                             [OldRows.conversations[t] EXCEPT !.order = NoOrder]],
   events |-> IF version >= 5 THEN RowsAfter(5, OldRows).events ELSE OldRows.events]

\* A host without an instance, with a developer's database of an older release,
\* or with an instance of the release before; a backup of another host may have
\* been copied to it.
Foreign == [s \in Stores |-> Empty(MaxWrites + 1)]
Old(version) == Content(0, 0, Schema(version, 0), RowsAt(version))

InstInit ==
  /\ writes = 0 /\ index = FALSE
  /\ backups \in {<<>>, <<Foreign>>}
  /\ proc = [p \in Procs |-> Idle]
  /\ \/ manifest = {} /\ disk = [s \in Stores |-> Clean(Missing)]
     \/ \E version \in {4, 8} :
          /\ manifest = {}
          /\ disk = [s \in Stores |-> Clean(IF s = "business" THEN Old(version) ELSE Missing)]
     \/ /\ manifest = {[release |-> "v0.8", from |-> 0]}
        /\ disk = [s \in Stores |-> Clean(IF s = "business" THEN Old(AtV08) ELSE Empty(0))]

Service(p) ==
  StartService(p) \/ StopService(p) \/ \E s \in Stores, closes \in BOOLEAN : Write(p, s, closes)

Begin(p) ==
  proc[p] = Idle /\ \/ BeginInit(p) \/ BeginBackup(p) \/ BeginUpgrade(p) \/ DbUpgrade(p)
                    \/ \E b \in DOMAIN backups : BeginRestore(p, b)

Step(p) ==
  \/ InitStep(p) \/ Snapshot(p) \/ Publish(p) \/ RestoreStep(p)
  \/ MigrateStep(p) \/ EndMigrate(p) \/ UpgradeStep(p)

InstNext ==
  \/ Reconcile
  \/ \E p \in Procs : Service(p) \/ Begin(p) \/ Step(p) \/ FailInit(p) \/ Fail(p)

InstSpec == InstInit /\ [][InstNext]_instvars

-----------------------------------------------------------------------------
\* A manifest stands for an instance: all its stores are there, wherever a
\* command failed or its process died (manifest.py: written last).
ManifestIsLast == manifest # {} => Installed

\* The manifest names a release only when the instance is ready for it, its
\* migrations done and its index built, wherever a command stopped: unless the
\* restored file of a store was read through the WAL of the one before it.
ReleaseIsReady ==
  (\E m \in manifest : m.release = "v1")
    => /\ Installed /\ index
       /\ Ready \/ \E s \in Stores : IsMixed(Read(disk[s]))

\* A database of an older release that has arrived at the head holds the
\* conversations and the case events it had, at most one task per order active
\* (the newest) and the events of every case in their order without a gap:
\* however often the migration was cut off, whoever went on with it, and whichever
\* conversations ops reconcile renewed in between.
UpgradeKeepsRows ==
  \A content \in {Business} \cup {backups[b]["business"] : b \in DOMAIN backups} :
    Current(content.schema) /\ content.rows # NoRows
      => /\ \E version \in {4, 8} :
              /\ ConversationsKept(WithTimesOf(RowsAt(version).conversations, content.rows.conversations),
                                   content.rows.conversations)
              /\ \A t \in DOMAIN RowsAt(version).conversations :
                   content.rows.conversations[t].at \in {RowsAt(version).conversations[t].at}
                                                        \cup IF t \in OldRuns THEN {Today} ELSE {}
         /\ DOMAIN content.rows.events = DOMAIN OldRows.events
         /\ \A k \in DOMAIN OldRows.events : EventsNumbered(OldRows.events[k], content.rows.events[k])

\* The three snapshots of a backup, taken one after another, are what the stores
\* held together when the first was taken, although ops reconcile may write to
\* the business store meanwhile: it is the first.
BackupIsOneMoment ==
  [][\A b \in DOMAIN backups' \ DOMAIN backups :
       \E p \in Procs : /\ proc[p] # Idle /\ proc[p].step = "snapshot"
                        /\ backups'[b] = proc[p].held]_instvars

\* What the service wrote and a restore takes away from an instance is in a
\* published backup.  What ops reconcile writes beside the restore need not be:
\* the backup may be of a moment before it, and is the same in everything else.
OverwritesAreKept ==
  [][\A s \in Stores :
       manifest # {} /\ Read(disk'[s]).at # Read(disk[s]).at /\ ~Serving
         => \E b \in DOMAIN backups : Since(backups[b][s], Read(disk[s]))]_instvars

\* docs/specs/v1.0-single-host-delivery.md:334: what a finished restore leaves
\* is what its backup holds, but for runs that ops reconcile interrupts meanwhile.
RestoredIsBackup ==
  [][\A m \in manifest' \ manifest : m.from # 0 =>
       \A s \in Stores : Since(backups[m.from][s], Read(disk'[s]))]_instvars
=============================================================================
