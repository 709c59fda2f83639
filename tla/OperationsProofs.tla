---------------------------- MODULE OperationsProofs ----------------------------
(***************************************************************************)
(* What the people who run the system may rely on.  A passed release gate  *)
(* and a passed comparison are worth what they say; and on a host, for any *)
(* number of processes, backups and writes, a manifest stands for a whole  *)
(* instance, a backup for one moment, a restore loses nothing that is in   *)
(* no backup, and a migration loses none of the rows it finds.             *)
(***************************************************************************)
EXTENDS ReleaseGate, Instance, FiniteSetTheorems, SequenceTheorems,
        WellFoundedInduction, TLAPS

LEMMA ReportsAreTyped ==
  ASSUME NEW r \in Reports
  PROVE  /\ r.outcome \in Outcomes
         /\ r.outcome.violations \in BOOLEAN
         /\ \A s \in DOMAIN r.outcome.results : r.outcome.results[s] \in BOOLEAN
         /\ r.status = "passed" <=>
              /\ DOMAIN r.outcome.suites # {} /\ AllOf(r.outcome.suites)
              /\ AllOf(r.outcome.results) /\ ~r.outcome.violations
<1>1. PICK o \in Outcomes : r = ReportOf(o)
  BY DEF Reports
<1>2. r.outcome = o
  BY <1>1 DEF ReportOf
<1>3. PICK D \in SUBSET Scenarios : o.results \in [D -> BOOLEAN]
  BY DEF Outcomes, Partial
<1>4. o.violations \in BOOLEAN
  BY DEF Outcomes
<1> QED BY <1>1, <1>2, <1>3, <1>4 DEF ReportOf

(* A comparison that passed: nothing that passed before is lost or fails,  *)
(* and nothing new fails.                                                  *)
LEMMA ComparisonPasses ==
  ASSUME NEW c \in Reports, NEW b \in Reports
  PROVE  compare_with_baseline(c, b) = "passed" <=>
           /\ Compatible(c, b) /\ c.status = "passed" /\ ~c.outcome.violations
           /\ \A s \in DOMAIN c.outcome.results : ~Regresses(c, b, s)
BY ReportsAreTyped DEF compare_with_baseline

(* A run that passes against a baseline, and is accepted, is a baseline    *)
(* that loses nothing: what passes against it passes against the first.    *)
THEOREM ComparisonIsTransitive ==
  ASSUME NEW a \in Reports, NEW b \in Reports, NEW c \in Reports,
         compare_with_baseline(b, a) = "passed", compare_with_baseline(c, b) = "passed"
  PROVE  compare_with_baseline(c, a) = "passed"
<1>1. Compatible(b, a) /\ b.status = "passed" /\ Compatible(c, b) /\ c.status = "passed"
      /\ ~c.outcome.violations
  BY ComparisonPasses
<1>2. AllOf(c.outcome.results)
  BY <1>1, ReportsAreTyped
<1>3. Compatible(c, a)
  BY <1>1 DEF Compatible
<1>4. \A s \in DOMAIN c.outcome.results : ~Regresses(c, a, s)
  BY <1>2 DEF Regresses, AllOf
<1> QED BY <1>1, <1>3, <1>4, ComparisonPasses

(* What may become a baseline passes against itself.                       *)
THEOREM AcceptedPasses ==
  ASSUME NEW r \in Reports, Acceptable(r)
  PROVE  compare_with_baseline(r, r) = "passed"
<1>1. r.status = "passed" /\ ~r.outcome.violations
  BY DEF Acceptable
<1>2. Compatible(r, r)
  BY DEF Compatible
<1>3. \A s \in DOMAIN r.outcome.results : ~Regresses(r, r, s)
  BY <1>1, ReportsAreTyped DEF Regresses, AllOf
<1> QED BY <1>1, <1>2, <1>3, ComparisonPasses

(* The administrators' page and the comparison of the command line agree   *)
(* on what passed.                                                         *)
THEOREM PageAgrees ==
  ASSUME NEW r \in Reports, NEW b \in Reports
  PROVE  PageSays(r, {b}) = "passed" <=> compare_with_baseline(r, b) = "passed"
BY ReportsAreTyped DEF PageSays, compare_with_baseline, Compatible

-----------------------------------------------------------------------------
\* One report or none for each repeat, and a passed repeat left a passed report.
Gates ==
  [checks : Partial(Checks, Verdicts), found : [Repeats -> {{}} \cup {{r} : r \in Reports}],
   ended : Partial(Repeats, Verdicts)]

GateInv ==
  \A g \in gate :
    /\ g \in Gates
    /\ \A k \in DOMAIN g.ended : g.ended[k] = "passed" => \E r \in g.found[k] : r.status = "passed"

Accepted == \A r \in accepting \cup baseline : r \in Reports /\ Acceptable(r)

ReleaseInv == artifacts \subseteq Reports /\ Accepted /\ GateInv /\ GateIsWhole

LEMMA SetIsPartial ==
  ASSUME NEW S, NEW T, NEW f \in Partial(S, T), NEW x \in S, NEW y \in T
  PROVE  /\ Set(f, x, y) \in Partial(S, T)
         /\ DOMAIN Set(f, x, y) = DOMAIN f \cup {x}
         /\ Set(f, x, y)[x] = y
         /\ \A z \in DOMAIN f : z # x => Set(f, x, y)[z] = f[z]
<1>1. PICK D \in SUBSET S : f \in [D -> T]
  BY DEF Partial
<1>2. Set(f, x, y) \in [D \cup {x} -> T]
  BY <1>1 DEF Set
<1>3. D \cup {x} \in SUBSET S
  BY <1>1
<1>4. Set(f, x, y) \in Partial(S, T)
  BY <1>2, <1>3 DEF Partial
<1> QED BY <1>1, <1>4 DEF Set

(* A gate that reports a pass has everything it needs.                     *)
LEMMA PassedGate ==
  ASSUME NEW g \in gate, GateInv, Accepted, NEW bases \in {{}, baseline},
         DOMAIN g.checks = Checks, DOMAIN g.ended = Repeats,
         Overall(AllVerdicts(g, bases)) = "passed"
  PROVE  /\ \A c \in Checks : g.checks[c] = "passed"
         /\ \E r \in g.found[1], q \in g.found[2], b \in bases :
              /\ r.status = "passed" /\ q.status = "passed" /\ Fingerprint(r) = Fingerprint(q)
              /\ AllOf(r.outcome.results) /\ AllOf(q.outcome.results)
              /\ \A s \in DOMAIN b.outcome.results :
                   s \in DOMAIN r.outcome.results /\ s \in DOMAIN q.outcome.results
<1>1. AllVerdicts(g, bases) \subseteq {"passed"}
  BY DEF Overall
<1>2. /\ \A c \in Checks : g.checks[c] = "passed"
      /\ g.ended[1] = "passed" /\ g.ended[2] = "passed"
      /\ Repeatability(g.found) = "passed" /\ BaselineComparison(g.found, bases) = "passed"
  BY <1>1 DEF AllVerdicts, Repeats
<1>3. PICK r \in g.found[1] : r.status = "passed"
  BY <1>2 DEF GateInv, Repeats
<1>4. PICK q \in g.found[2] : q.status = "passed"
  BY <1>2 DEF GateInv, Repeats
<1>5. Fingerprint(r) = Fingerprint(q)
  BY <1>2 DEF Repeatability
<1>6. PICK b \in bases : compare_with_baseline(r, b) = "passed"
  BY <1>2 DEF BaselineComparison
<1>7. r \in Reports /\ q \in Reports /\ b \in Reports
  <2>1. g.found \in [Repeats -> {{}} \cup {{p} : p \in Reports}]
    BY DEF GateInv, Gates
  <2> QED BY <2>1 DEF Repeats, Accepted
<1>8. Compatible(r, b)
  BY <1>6, <1>7, ComparisonPasses
<1>9. DOMAIN r.outcome.results = DOMAIN q.outcome.results
  BY <1>5 DEF Fingerprint
<1> QED BY <1>2, <1>3, <1>4, <1>5, <1>7, <1>8, <1>9, ReportsAreTyped DEF Compatible

LEMMA GateSteps ==
  ASSUME ReleaseInv, Next
  PROVE  ReleaseInv'
<1> USE DEF ReleaseInv
<1>1. ASSUME NEW o \in Outcomes, EvalRun(o) PROVE ReleaseInv'
  <2>1. ReportOf(o) \in Reports
    BY DEF Reports
  <2> QED BY <1>1, <2>1 DEF EvalRun, Accepted, GateInv, GateIsWhole
<1>2. ASSUME NEW r \in artifacts, NEW replace \in BOOLEAN, AcceptLook(r, replace) PROVE ReleaseInv'
  BY <1>2 DEF AcceptLook, Accepted, GateInv, GateIsWhole
<1>3. ASSUME NEW r \in accepting, AcceptWrite(r) PROVE ReleaseInv'
  BY <1>3 DEF AcceptWrite, Accepted, GateInv, GateIsWhole
<1>4. ASSUME GateBegin PROVE ReleaseInv'
  <2>1. [c \in {} |-> "passed"] \in Partial(Checks, Verdicts)
    <3>1. [c \in {} |-> "passed"] \in [{} -> Verdicts] /\ {} \in SUBSET Checks
      OBVIOUS
    <3> QED BY <3>1 DEF Partial
  <2>2. [k \in {} |-> "passed"] \in Partial(Repeats, Verdicts)
    <3>1. [k \in {} |-> "passed"] \in [{} -> Verdicts] /\ {} \in SUBSET Repeats
      OBVIOUS
    <3> QED BY <3>1 DEF Partial
  <2>3. [k \in Repeats |-> {}] \in [Repeats -> {{}} \cup {{r} : r \in Reports}]
    OBVIOUS
  <2>4. Open \in Gates /\ DOMAIN Open.ended = {}
    BY <2>1, <2>2, <2>3 DEF Open, Gates
  <2>5. GateInv'
    BY <1>4, <2>4 DEF GateBegin, GateInv
  <2> QED BY <1>4, <2>5 DEF GateBegin, Accepted, GateIsWhole
<1>5. ASSUME NEW g \in gate, NEW c \in Checks, NEW end \in Ends, GateCheck(g, c, end)
      PROVE  ReleaseInv'
  <2>1. g \in Gates
    BY DEF GateInv
  <2>2. VerdictOf(c, end) \in Verdicts
    BY DEF VerdictOf, Verdict, Verdicts
  <2>3. Set(g.checks, c, VerdictOf(c, end)) \in Partial(Checks, Verdicts)
    BY <2>1, <2>2, SetIsPartial DEF Gates
  <2> DEFINE h == [g EXCEPT !.checks = Set(@, c, VerdictOf(c, end))]
  <2>4. h \in Gates /\ h.ended = g.ended /\ h.found = g.found
    BY <2>1, <2>3 DEF Gates
  <2>5. gate' = {h}
    BY <1>5 DEF GateCheck
  <2> HIDE DEF h
  <2>6. GateInv'
    BY <2>4, <2>5 DEF GateInv
  <2> QED BY <1>5, <2>6 DEF GateCheck, Accepted, GateIsWhole
<1>6. ASSUME NEW g \in gate, NEW k \in Repeats, NEW end \in Ends,
             NEW found \in {{}} \cup {{r} : r \in Reports}, GateRepeat(g, k, found, end)
      PROVE  ReleaseInv'
  <2>1. g \in Gates
    BY DEF GateInv
  <2>2. EvalVerdict(end) \in Verdicts
    BY DEF EvalVerdict, Verdict, Verdicts
  <2> DEFINE ended == Set(g.ended, k, EvalVerdict(end))
  <2>3. /\ ended \in Partial(Repeats, Verdicts) /\ DOMAIN ended = DOMAIN g.ended \cup {k}
        /\ ended[k] = EvalVerdict(end) /\ \A j \in DOMAIN g.ended : j # k => ended[j] = g.ended[j]
    BY <2>1, <2>2, SetIsPartial DEF Gates
  <2> HIDE DEF ended
  <2> DEFINE h == [g EXCEPT !.found[k] = found, !.ended = ended]
  <2>4. /\ h \in Gates /\ h.ended = ended /\ h.found[k] = found
        /\ \A j \in Repeats : j # k => h.found[j] = g.found[j]
    BY <2>1, <2>3 DEF Gates
  <2>5. gate' = {h} /\ artifacts' = artifacts \cup found
    BY <1>6 DEF GateRepeat, ended
  <2>6. EvalVerdict(end) = "passed" => \E r \in found : r.status = "passed"
    <3>1. end \in RepeatEnds(found)
      BY <1>6 DEF GateRepeat
    <3> QED BY <3>1 DEF EvalVerdict, Verdict, RepeatEnds
  <2>7. DOMAIN g.ended \subseteq Repeats
    BY <2>1 DEF Gates, Partial
  <2> HIDE DEF h
  <2>8. GateInv'
    BY <2>3, <2>4, <2>5, <2>6, <2>7 DEF GateInv
  <2>9. artifacts' \subseteq Reports
    BY <2>5
  <2> QED BY <1>6, <2>8, <2>9 DEF GateRepeat, Accepted, GateIsWhole
<1>7. ASSUME NEW g \in gate, NEW bases \in {{}, baseline}, GateReport(g, bases) PROVE ReleaseInv'
  <2> DEFINE v == [status |-> Overall(AllVerdicts(g, bases)), checks |-> g.checks,
                   found |-> g.found, bases |-> bases]
  <2>1. /\ v.status = Overall(AllVerdicts(g, bases)) /\ v.checks = g.checks
        /\ v.found = g.found /\ v.bases = bases
    OBVIOUS
  <2>2. DOMAIN g.checks = Checks /\ DOMAIN g.ended = Repeats /\ released' = released \cup {v}
    BY <1>7 DEF GateReport
  <2> HIDE DEF v
  <2>3. v.status = "passed" => Whole(v)
    BY <2>1, <2>2, PassedGate DEF Whole
  <2>4. GateIsWhole'
    BY <2>2, <2>3 DEF GateIsWhole
  <2> QED BY <1>7, <2>4 DEF GateReport, Accepted, GateInv
<1>8. ASSUME Abandon PROVE ReleaseInv'
  BY <1>8 DEF Abandon, Accepted, GateInv, GateIsWhole
<1> QED BY <1>1, <1>2, <1>3, <1>4, <1>5, <1>6, <1>7, <1>8 DEF Next

(* The baseline is always a run in which everything passed, and a gate     *)
(* that passed is whole: every check, two equal evaluations, nothing of    *)
(* the baseline lost.                                                      *)
THEOREM ReleaseIsWhole == Spec => [](BaselineHolds /\ GateIsWhole)
<1>1. Init => ReleaseInv
  BY DEF Init, ReleaseInv, Accepted, GateInv, GateIsWhole
<1>2. ReleaseInv /\ [Next]_vars => ReleaseInv'
  BY GateSteps DEF vars, ReleaseInv, Accepted, GateInv, GateIsWhole
<1>3. ReleaseInv => BaselineHolds /\ GateIsWhole
  BY ReportsAreTyped DEF ReleaseInv, Accepted, Acceptable, BaselineHolds
<1> QED BY <1>1, <1>2, <1>3, PTL DEF Spec

-----------------------------------------------------------------------------
(* One installation: sequences, databases and stores                       *)

\* A sequence, whatever its elements are.
IsSeq(s) == s \in Seq({s[i] : i \in DOMAIN s})

(* Appending keeps a sequence what it is, and everything in its place.     *)
LEMMA AppendTo ==
  ASSUME NEW s, IsSeq(s), NEW x
  PROVE  /\ IsSeq(Append(s, x))
         /\ Len(s) \in Nat /\ DOMAIN s = 1..Len(s)
         /\ Len(Append(s, x)) = Len(s) + 1
         /\ DOMAIN Append(s, x) = 1..(Len(s) + 1)
         /\ \A i \in 1..Len(s) : Append(s, x)[i] = s[i]
         /\ Append(s, x)[Len(s) + 1] = x
<1> DEFINE S == {s[i] : i \in DOMAIN s}
           T == S \cup {x}
           u == Append(s, x)
<1>1. s \in Seq(S)
  BY DEF IsSeq
<1> HIDE DEF S
<1>2. s \in Seq(T) /\ Len(s) \in Nat /\ DOMAIN s = 1..Len(s)
  BY <1>1
<1>3. /\ u \in Seq(T)
      /\ Len(u) = Len(s) + 1
      /\ \A i \in 1..Len(s) : u[i] = s[i]
      /\ u[Len(s) + 1] = x
  BY <1>2, AppendProperties
<1>4. DOMAIN u = 1..(Len(s) + 1)
  BY <1>3
<1> HIDE DEF u
<1>5. u \in Seq({u[i] : i \in DOMAIN u})
  BY <1>3
<1> QED BY <1>2, <1>3, <1>4, <1>5 DEF IsSeq, u

(* What a database can hold, and what a connection finds in it.            *)
IsContent(c) ==
  /\ DOMAIN c = {"at", "swept", "schema", "rows"}
  /\ c.swept \in Nat
  /\ c.at = -1 => c = Missing
Present(c)   == IsContent(c) /\ c # Missing

IsStore(d) ==
  /\ DOMAIN d = {"file", "wal"}
  /\ IsContent(d.file)
  /\ \A w \in d.wal : DOMAIN w = {"on", "as", "now"} /\ Present(w.as) /\ Present(w.now)

\* At the head, or mixed with the log of another database.
NotBehind(c) == Current(c.schema) \/ IsMixed(c)

(* What the contents have in common that the model names.                  *)
LEMMA Contents ==
  /\ \A schema : Present(Mixture(schema)) /\ IsMixed(Mixture(schema))
  /\ Present(Malformed) /\ IsMixed(Malformed) /\ Malformed.at = -2
  /\ IsContent(Missing) /\ ~IsMixed(Missing) /\ Missing.at = -1
  /\ \A at \in Nat : Present(Empty(at)) /\ Current(Empty(at).schema)
  /\ \A at, schema, rows : \A swept \in Nat :
       at # -1 => Present(Content(at, swept, schema, rows))
BY DEF Present, IsContent, Malformed, Mixture, IsMixed, Missing, Empty, Content, Current, Schema

(* A connection finds the file, or what the WAL makes of it.               *)
LEMMA ReadOf ==
  ASSUME NEW d, IsStore(d)
  PROVE  /\ IsContent(Read(d))
         /\ Read(d) # Missing \/ (Read(d) = d.file /\ d.wal = {})
         /\ Read(d) = d.file \/ \E w \in d.wal : Read(d) = w.now
<1>1. CASE d.wal = {}
  BY <1>1 DEF Read, IsStore
<1>2. CASE d.wal # {}
  <2> PICK v : v = CHOOSE w \in d.wal : TRUE
    OBVIOUS
  <2>1. v \in d.wal /\ Read(d) = v.now
    BY <1>2 DEF Read
  <2> QED BY <2>1 DEF IsStore, Present
<1> QED BY <1>1, <1>2

(* A database without a WAL reads as its file.                             *)
LEMMA ReadClean ==
  ASSUME NEW c, IsContent(c)
  PROVE  Read(Clean(c)) = c /\ IsStore(Clean(c)) /\ Clean(c).wal = {} /\ Clean(c).file = c
BY DEF Read, Clean, IsStore

(* A file with one log beside it reads as the log says now.                *)
LEMMA ReadWith ==
  ASSUME NEW d, NEW w, DOMAIN d = {"file", "wal"}, d.wal = {w}, IsContent(d.file),
         DOMAIN w = {"on", "as", "now"}, Present(w.as), Present(w.now)
  PROVE  Read(d) = w.now /\ IsStore(d)
<1>1. d.wal # {} /\ (CHOOSE v \in d.wal : TRUE) = w
  OBVIOUS
<1> QED BY <1>1 DEF Read, IsStore

(* A write into the WAL is read at once.                                   *)
LEMMA ReadLogged ==
  ASSUME NEW d, IsStore(d), NEW c, Present(c)
  PROVE  /\ Read(Logged(d, c)) = c /\ IsStore(Logged(d, c))
         /\ Logged(d, c).wal = {[on |-> d.file, as |-> c, now |-> c]}
         /\ Logged(d, c).file = d.file
<1> PICK e, w : e = Logged(d, c) /\ w = [on |-> d.file, as |-> c, now |-> c]
  OBVIOUS
<1>1. DOMAIN e = {"file", "wal"} /\ e.file = d.file /\ e.wal = {w}
  BY DEF Logged, IsStore
<1>2. DOMAIN w = {"on", "as", "now"} /\ w.as = c /\ w.now = c
  OBVIOUS
<1>3. Read(e) = c /\ IsStore(e)
  BY <1>1, <1>2, ReadWith DEF IsStore
<1> QED BY <1>1, <1>3

(* What ops reconcile adds to a database is nothing else than more of it.  *)
LEMMA SinceIs ==
  ASSUME NEW c, NEW d, IsContent(c), IsContent(d)
  PROVE  /\ Since(c, c)
         /\ Since(c, d) => /\ c # Missing => d # Missing
                           /\ NotBehind(c) => NotBehind(d)
                           /\ c.at = d.at /\ c.schema = d.schema
BY Contents DEF Since, IsContent, NotBehind, IsMixed

LEMMA SinceChains ==
  ASSUME NEW b, NEW c, NEW d, IsContent(b), IsContent(c), IsContent(d), Since(b, c), Since(c, d)
  PROVE  Since(b, d)
BY DEF Since, IsContent

(* The three stores, by their names (AUTHORITATIVE_FILES).                 *)
LEMMA StoreNames ==
  /\ Stores = {"business", "checkpoints", "memory"}
  /\ StoreOrder[1] = "business" /\ StoreOrder[2] = "checkpoints" /\ StoreOrder[3] = "memory"
BY DEF Stores, StoreOrder

-----------------------------------------------------------------------------
(* The invariant                                                           *)

(* A log that belongs to a current database, and what is read of one: at   *)
(* the head too, unless it is mixed.                                       *)
Sound(d) ==
  /\ Current(d.file.schema) => NotBehind(Read(d))
  /\ \A w \in d.wal : Current(w.on.schema) => NotBehind(w.as)

StoresOK ==
  /\ writes \in Nat
  /\ DOMAIN disk = Stores
  /\ \A s \in Stores : IsStore(disk[s])
  /\ Sound(disk["business"])

BackupsOK ==
  /\ IsSeq(backups)
  /\ \A b \in DOMAIN backups, s \in Stores : Present(backups[b][s])

(* The steps a command goes through.                                       *)
Shape(t) ==
  /\ DOMAIN t = {"op", "step", "copy", "held", "backup", "at"}
  /\ IsSeq(t.copy)
  /\ \/ t.op = "serve"   /\ t.step = "run"
     \/ t.op = "init"    /\ t.step \in Stores \cup {"index", "record"}
     \/ t.op = "backup"  /\ t.step = "snapshot"
     \/ t.op = "restore" /\ t.step \in Stores \cup {"snapshot", "count", "index", "record"}
     \/ t.op = "upgrade" /\ t.step \in {"snapshot", "migrate", "index", "record"}
     \/ t.op = "db"      /\ t.step = "migrate"

(* A command that puts the stores in their places has store s behind it.   *)
Placed(s, step) ==
  \/ s = "business"    /\ step # "business"
  \/ s = "checkpoints" /\ step \notin {"business", "checkpoints"}
  \/ s = "memory"      /\ step \notin Stores

(* What a process that stands before a step has done, and found.           *)
PutInPlace(t) ==
  t.op \in {"init", "restore"} /\ t.step # "snapshot" =>
    /\ \A s \in Stores : Placed(s, t.step) => Read(disk[s]) # Missing
    /\ t.step # "business" => NotBehind(Business)
    /\ t.step = "record" => index

Upgraded(t) ==
  t.op = "upgrade" /\ t.step \in {"index", "record"} =>
    /\ Current(Business.schema)
    /\ t.step = "record" => index /\ Installed

(* Between the rollback backup and the end of a restore, what is still to  *)
(* be replaced is in a backup, but for what ops reconcile adds.            *)
RolledBack(t) ==
  t.op = "restore" =>
    /\ t.backup \in DOMAIN backups /\ CanRestore(t.backup)
    /\ t.step # "snapshot" /\ manifest # {} =>
         \E b \in DOMAIN backups : \A s \in Stores :
           ~Placed(s, t.step) => Since(backups[b][s], Read(disk[s]))

(* The copies are of one moment, of which only the business store may have *)
(* got on since.                                                           *)
Copied(t) ==
  t.step = "snapshot" =>
    /\ Len(t.copy) <= 3
    /\ \A k \in 1..Len(t.copy) : t.copy[k] = t.held[StoreOrder[k]] /\ t.copy[k] # Missing
    /\ Len(t.copy) > 0 =>
         /\ DOMAIN t.held = Stores /\ t.held = [s \in DOMAIN t.held |-> t.held[s]]
         /\ \A s \in Stores : /\ IsContent(t.held[s]) /\ Since(t.held[s], Read(disk[s]))
                              /\ s # "business" => t.held[s] = Read(disk[s])

Alone(t) == t.op \in {"init", "db"} => manifest = {}

Progress(t) ==
  /\ t.op = "serve" => Current(Business.schema)
  /\ Alone(t)
  /\ PutInPlace(t)
  /\ Upgraded(t)
  /\ RolledBack(t)
  /\ Copied(t)

ProcsOK ==
  /\ DOMAIN proc = Procs
  /\ \A p \in Procs : proc[p] = Idle \/ (Shape(proc[p]) /\ Progress(proc[p]))
  /\ \A p, q \in Procs : p # q => \/ proc[p] = Idle \/ proc[q] = Idle
                                  \/ proc[p].op = "db" /\ proc[q].op = "db"

HostInv ==
  /\ StoresOK
  /\ BackupsOK
  /\ ProcsOK
  /\ ManifestIsLast
  /\ ReleaseIsReady

(* A process steps alone, or beside developers' migrations as one of them. *)
Undisturbed(p, t) ==
  \/ CanLock
  \/ proc[p] # Idle /\ proc[p].op # "db"
  \/ /\ t = Idle \/ t.op = "db"
     /\ manifest' = {}
     /\ \A q \in Procs : proc[q] = Idle \/ proc[q].op = "db"

LEMMA ProcStep ==
  ASSUME ProcsOK, NEW p \in Procs, NEW t, proc' = [proc EXCEPT ![p] = t],
         t = Idle \/ (Shape(t) /\ Progress(t)'),
         Undisturbed(p, t)
  PROVE  ProcsOK'
<1>0. \A q \in Procs : q # p => \/ proc[q] = Idle
                               \/ /\ proc[q].op = "db" /\ (t = Idle \/ t.op = "db")
                                  /\ manifest' = {}
  BY DEF Undisturbed, CanLock, ProcsOK
<1>1. DOMAIN proc' = Procs /\ proc'[p] = t /\ \A q \in Procs : q # p => proc'[q] = proc[q]
  BY DEF ProcsOK
<1>2. \A q \in Procs : proc'[q] = Idle \/ Shape(proc'[q])
  BY <1>1 DEF ProcsOK
<1>3. ASSUME NEW q \in Procs, proc'[q] # Idle
      PROVE  Progress(proc[q])'
  <2> PICK v : v = proc'[q]
    OBVIOUS
  <2>1. Progress(v)'
    <3>1. CASE q = p
      BY <1>1, <1>3, <3>1 DEF Progress, Alone, PutInPlace, Upgraded, RolledBack, Copied
    <3>2. CASE q # p
      <4>1. v = proc[q] /\ v.op = "db" /\ manifest' = {} /\ Shape(v)
        BY <1>0, <1>1, <1>3, <3>2 DEF ProcsOK
      <4> QED BY <4>1 DEF Progress, Alone, PutInPlace, Upgraded, RolledBack, Copied, Shape
    <3> QED BY <3>1, <3>2
  <2> QED BY <2>1 DEF Progress, Alone, PutInPlace, Upgraded, RolledBack, Copied
<1>4. \A q, r \in Procs : q # r => \/ proc'[q] = Idle \/ proc'[r] = Idle
                                   \/ proc'[q].op = "db" /\ proc'[r].op = "db"
  BY <1>0, <1>1 DEF ProcsOK
<1> QED BY <1>1, <1>2, <1>3, <1>4 DEF ProcsOK

(* What takes nothing from what connections read, and adds no more than    *)
(* ops reconcile does.                                                     *)
LEMMA NothingNew ==
  ASSUME HostInv, \A s \in Stores : IsStore(disk'[s]),
         \A s \in Stores : /\ Since(Read(disk[s]), Read(disk'[s]))
                           /\ s # "business" => Read(disk'[s]) = Read(disk[s]),
         UNCHANGED <<manifest, index>>, BackupsOK',
         \A b \in DOMAIN backups : b \in DOMAIN backups' /\ backups'[b] = backups[b]
  PROVE  /\ ManifestIsLast' /\ ReleaseIsReady'
         /\ \A t : Progress(t) => Progress(t)'
<1>1. "business" \in Stores
  BY StoreNames
<1>2. \A s \in Stores : IsContent(Read(disk[s])) /\ IsContent(Read(disk'[s]))
  BY ReadOf DEF HostInv, StoresOK
<1>3. /\ Installed => Installed'
      /\ NotBehind(Business) => NotBehind(Business)'
      /\ Business'.schema = Business.schema
      /\ \A s \in Stores : Read(disk'[s]).at = Read(disk[s]).at
      /\ \A s \in Stores : Read(disk[s]) # Missing => Read(disk'[s]) # Missing
  <2>1. ASSUME NEW s \in Stores
        PROVE  /\ Read(disk'[s]).at = Read(disk[s]).at /\ Read(disk'[s]).schema = Read(disk[s]).schema
               /\ Read(disk[s]) # Missing => Read(disk'[s]) # Missing
               /\ NotBehind(Read(disk[s])) => NotBehind(Read(disk'[s]))
    BY <1>2, SinceIs
  <2> QED BY <1>1, <2>1 DEF Installed, Business, NotBehind
<1>4. ManifestIsLast' /\ ReleaseIsReady'
  <2>1. ASSUME Readable, ~ \E s \in Stores : IsMixed(Read(disk'[s]))
        PROVE  Readable'
    BY <1>3, <2>1, Contents DEF Readable
  <2> QED BY <1>3, <2>1 DEF HostInv, ManifestIsLast, ReleaseIsReady, Ready, IsMixed
<1>5. ASSUME NEW t, Progress(t) PROVE Progress(t)'
  <2>1. PutInPlace(t)' /\ Upgraded(t)' /\ Alone(t)' /\ (t.op = "serve" => Current(Business.schema))'
    BY <1>3, <1>5 DEF Progress, PutInPlace, Upgraded, Alone
  <2>2. RolledBack(t)'
    <3> SUFFICES ASSUME t.op = "restore" PROVE RolledBack(t)'
      BY DEF RolledBack
    <3>1. t.backup \in DOMAIN backups' /\ CanRestore(t.backup)'
      BY <1>5 DEF Progress, RolledBack, CanRestore
    <3>2. ASSUME t.step # "snapshot", manifest # {}
          PROVE  \E b \in DOMAIN backups' : \A s \in Stores :
                   ~Placed(s, t.step) => Since(backups'[b][s], Read(disk'[s]))
      <4>1. PICK b \in DOMAIN backups : \A s \in Stores :
              ~Placed(s, t.step) => Since(backups[b][s], Read(disk[s]))
        BY <1>5, <3>2 DEF Progress, RolledBack
      <4>2. \A s \in Stores : IsContent(backups[b][s])
        BY DEF HostInv, BackupsOK, Present
      <4>3. \A s \in Stores : ~Placed(s, t.step) => Since(backups[b][s], Read(disk'[s]))
        <5> TAKE s \in Stores
        <5>1. /\ IsContent(backups[b][s]) /\ IsContent(Read(disk[s])) /\ IsContent(Read(disk'[s]))
              /\ Since(Read(disk[s]), Read(disk'[s]))
              /\ ~Placed(s, t.step) => Since(backups[b][s], Read(disk[s]))
          BY <1>2, <4>1, <4>2
        <5> QED BY <5>1, SinceChains
      <4> QED BY <4>3
    <3> QED BY <3>1, <3>2 DEF RolledBack, CanRestore
  <2>3. Copied(t)'
    <3> SUFFICES ASSUME t.step = "snapshot" PROVE Copied(t)'
      BY DEF Copied
    <3>1. Copied(t)
      BY <1>5 DEF Progress
    <3>2. ASSUME Len(t.copy) > 0, NEW s \in Stores
          PROVE  Since(t.held[s], Read(disk'[s])) /\ (s # "business" => t.held[s] = Read(disk'[s]))
      <4>1. /\ IsContent(t.held[s]) /\ IsContent(Read(disk[s])) /\ IsContent(Read(disk'[s]))
            /\ Since(t.held[s], Read(disk[s])) /\ Since(Read(disk[s]), Read(disk'[s]))
            /\ s # "business" => t.held[s] = Read(disk[s]) /\ Read(disk'[s]) = Read(disk[s])
        BY <1>2, <3>1, <3>2 DEF Copied
      <4> QED BY <4>1, SinceChains
    <3> QED BY <3>1, <3>2 DEF Copied
  <2> QED BY <2>1, <2>2, <2>3 DEF Progress
<1> QED BY <1>4, <1>5

(* A step behind which every connection reads what it read before.         *)
LEMMA QuietStep ==
  ASSUME HostInv, \A s \in Stores : Read(disk'[s]) = Read(disk[s]), StoresOK',
         UNCHANGED <<manifest, index>>, BackupsOK',
         \A b \in DOMAIN backups : b \in DOMAIN backups' /\ backups'[b] = backups[b],
         NEW p \in Procs, NEW t, proc' = [proc EXCEPT ![p] = t],
         t = Idle \/ (Shape(t) /\ (Progress(t) \/ Progress(t)')),
         Undisturbed(p, t)
  PROVE  HostInv'
<1>1. /\ ManifestIsLast' /\ ReleaseIsReady'
      /\ \A u : Progress(u) => Progress(u)'
  <2>1. \A s \in Stores : IsStore(disk'[s]) /\ Since(Read(disk[s]), Read(disk'[s]))
    BY ReadOf, SinceIs DEF HostInv, StoresOK
  <2> QED BY <2>1, NothingNew
<1>2. t = Idle \/ (Shape(t) /\ Progress(t)')
  BY <1>1
<1>3. ProcsOK'
  BY <1>2, ProcStep DEF HostInv
<1> QED BY <1>1, <1>3 DEF HostInv

(* Stores and backups that are left alone are still what they were.        *)
LEMMA SameStores ==
  ASSUME HostInv, UNCHANGED <<disk, writes, backups>>
  PROVE  /\ StoresOK' /\ BackupsOK'
         /\ \A s \in Stores : Read(disk'[s]) = Read(disk[s])
         /\ \A b \in DOMAIN backups : b \in DOMAIN backups' /\ backups'[b] = backups[b]
BY DEF HostInv, StoresOK, BackupsOK

(* What a process has before it when its command begins.                   *)
LEMMA TaskIs ==
  ASSUME NEW op, NEW step, NEW backup, NEW t, t = Task(op, step, backup)
  PROVE  /\ DOMAIN t = {"op", "step", "copy", "held", "backup", "at"}
         /\ t.op = op /\ t.step = step /\ t.backup = backup
         /\ IsSeq(t.copy) /\ Len(t.copy) = 0
BY DEF Task, IsSeq

(* A command that goes on to its next step keeps all the rest.             *)
LEMMA GoesIs ==
  ASSUME ProcsOK, NEW p \in Procs, proc[p] # Idle, NEW step, Goes(p, step)
  PROVE  \E t : /\ proc' = [proc EXCEPT ![p] = t]
                /\ DOMAIN t = {"op", "step", "copy", "held", "backup", "at"}
                /\ t.op = proc[p].op /\ t.step = step /\ t.copy = proc[p].copy
                /\ t.backup = proc[p].backup
<1> PICK t : t = [proc[p] EXCEPT !.step = step]
  OBVIOUS
<1>1. /\ DOMAIN t = {"op", "step", "copy", "held", "backup", "at"}
      /\ t.op = proc[p].op /\ t.step = step /\ t.copy = proc[p].copy
      /\ t.backup = proc[p].backup
  BY DEF ProcsOK, Shape
<1>2. proc' = [proc EXCEPT ![p] = t]
  BY DEF Goes, ProcsOK
<1> QED BY <1>1, <1>2

-----------------------------------------------------------------------------
(* Commands begin                                                          *)

(* Every command begins behind its preflight (run_preflight).              *)
LEMMA BeginStep ==
  ASSUME InstanceAssumption, HostInv, NEW p \in Procs, StartService(p) \/ Begin(p)
  PROVE  HostInv'
<1>1. UNCHANGED <<disk, index, manifest, backups, writes>>
  BY DEF StartService, Begin, BeginInit, BeginBackup, BeginUpgrade, DbUpgrade, BeginRestore
<1>2. /\ StoresOK' /\ BackupsOK'
      /\ \A s \in Stores : Read(disk'[s]) = Read(disk[s])
      /\ \A b \in DOMAIN backups : b \in DOMAIN backups' /\ backups'[b] = backups[b]
  BY <1>1, SameStores
<1>3. ASSUME NEW t, proc' = [proc EXCEPT ![p] = t], Shape(t), Progress(t),
             CanLock \/ (/\ t.op = "db" /\ manifest = {}
                         /\ \A q \in Procs : proc[q].op \in {"none", "db"})
      PROVE  HostInv'
  <2>1. Undisturbed(p, t)
    <3>1. \A q \in Procs : proc[q].op = "none" => proc[q] = Idle
      BY DEF HostInv, ProcsOK, Shape
    <3> QED BY <1>1, <1>3, <3>1 DEF Undisturbed
  <2> QED BY <1>1, <1>2, <1>3, <2>1, QuietStep
<1>4. CASE StartService(p)
  <2> PICK t : t = Task("serve", "run", 0)
    OBVIOUS
  <2>1. /\ proc' = [proc EXCEPT ![p] = t] /\ CanLock /\ Current(Business.schema)
        /\ t.op = "serve" /\ t.step = "run"
    BY <1>4, TaskIs DEF StartService, Preflight
  <2>2. Shape(t)
    BY <2>1, TaskIs DEF Shape
  <2>3. Progress(t)
    BY <2>1 DEF Progress, Alone, PutInPlace, Upgraded, RolledBack, Copied
  <2> QED BY <1>3, <2>1, <2>2, <2>3
<1>5. CASE BeginInit(p)
  <2> PICK t : t = Task("init", "business", 0)
    OBVIOUS
  <2>1. /\ proc' = [proc EXCEPT ![p] = t] /\ CanLock /\ manifest = {}
        /\ t.op = "init" /\ t.step = "business"
    BY <1>5, TaskIs DEF BeginInit, Preflight
  <2>2. Shape(t)
    BY <2>1, TaskIs, StoreNames DEF Shape
  <2>3. Progress(t)
    BY <2>1 DEF Progress, Alone, PutInPlace, Upgraded, RolledBack, Copied, Placed, Stores,
                StoreOrder
  <2> QED BY <1>3, <2>1, <2>2, <2>3
<1>6. CASE BeginBackup(p)
  <2> PICK t : t = Task("backup", "snapshot", 0)
    OBVIOUS
  <2>1. /\ proc' = [proc EXCEPT ![p] = t] /\ CanLock
        /\ t.op = "backup" /\ t.step = "snapshot" /\ Len(t.copy) = 0
    BY <1>6, TaskIs DEF BeginBackup, Preflight
  <2>2. Shape(t)
    BY <2>1, TaskIs DEF Shape
  <2>3. Progress(t)
    BY <2>1 DEF Progress, Alone, PutInPlace, Upgraded, RolledBack, Copied
  <2> QED BY <1>3, <2>1, <2>2, <2>3
<1>7. ASSUME NEW b \in DOMAIN backups, BeginRestore(p, b)
      PROVE  HostInv'
  <2> PICK t : t = Task("restore", IF KeepsRollback THEN "snapshot" ELSE "business", b)
    OBVIOUS
  <2>1. /\ proc' = [proc EXCEPT ![p] = t] /\ CanLock /\ CanRestore(b)
        /\ t.op = "restore" /\ t.backup = b /\ Len(t.copy) = 0
        /\ t.step = IF manifest # {} THEN "snapshot" ELSE "business"
    BY <1>7, TaskIs DEF BeginRestore, Preflight, KeepsRollback
  <2>2. Shape(t)
    BY <2>1, TaskIs, StoreNames DEF Shape
  <2>3. Progress(t)
    BY <1>7, <2>1, StoreNames DEF Progress, Alone, PutInPlace, Upgraded, RolledBack, Copied, Placed
  <2> QED BY <1>3, <2>1, <2>2, <2>3
<1>8. ASSUME NEW t, NEW op, NEW step,
             t = [Task(op, step, 0) EXCEPT !.at = Schema(Business.schema.version, 0)]
      PROVE  /\ DOMAIN t = {"op", "step", "copy", "held", "backup", "at"}
             /\ t.op = op /\ t.step = step /\ IsSeq(t.copy) /\ Len(t.copy) = 0
  BY <1>8, TaskIs
<1>9. CASE BeginUpgrade(p)
  <2> PICK t : t = [Task("upgrade", "snapshot", 0) EXCEPT !.at = Schema(Business.schema.version, 0)]
    OBVIOUS
  <2>1. proc' = [proc EXCEPT ![p] = t] /\ CanLock
    BY <1>9 DEF BeginUpgrade, Preflight
  <2>2. /\ t.op = "upgrade" /\ t.step = "snapshot" /\ Len(t.copy) = 0
        /\ DOMAIN t = {"op", "step", "copy", "held", "backup", "at"} /\ IsSeq(t.copy)
    BY <1>8
  <2>3. Shape(t)
    BY <2>2 DEF Shape
  <2>4. Progress(t)
    BY <2>2 DEF Progress, Alone, PutInPlace, Upgraded, RolledBack, Copied
  <2> QED BY <1>3, <2>1, <2>3, <2>4
<1>10. CASE DbUpgrade(p)
  <2> PICK t : t = [Task("db", "migrate", 0) EXCEPT !.at = Schema(Business.schema.version, 0)]
    OBVIOUS
  <2>1. /\ proc' = [proc EXCEPT ![p] = t] /\ manifest = {}
        /\ \A q \in Procs : proc[q].op \in {"none", "db"}
    BY <1>10 DEF DbUpgrade
  <2>2. /\ t.op = "db" /\ t.step = "migrate"
        /\ DOMAIN t = {"op", "step", "copy", "held", "backup", "at"} /\ IsSeq(t.copy)
    BY <1>8
  <2>3. Shape(t)
    BY <2>2 DEF Shape
  <2>4. Progress(t)
    BY <2>1, <2>2 DEF Progress, Alone, PutInPlace, Upgraded, RolledBack, Copied
  <2> QED BY <1>3, <2>1, <2>2, <2>3, <2>4
<1> QED BY <1>4, <1>5, <1>6, <1>7, <1>9, <1>10 DEF Begin

-----------------------------------------------------------------------------
(* Steps that change neither what connections read nor the manifest        *)

(* The service closes its connections: nobody reads anything else.         *)
LEMMA StopStep ==
  ASSUME HostInv, NEW p \in Procs, StopService(p)
  PROVE  HostInv' /\ \A s \in Stores : Read(disk'[s]) = Read(disk[s])
<1>1. /\ disk' = [s \in Stores |-> Settle(disk[s])] /\ proc' = [proc EXCEPT ![p] = Idle]
      /\ UNCHANGED <<index, manifest, backups, writes>>
      /\ proc[p] # Idle /\ proc[p].op = "serve"
  BY DEF StopService, Does, Releases
<1>2. \A s \in Stores : /\ Read(disk'[s]) = Read(disk[s]) /\ IsStore(disk'[s])
                        /\ disk'[s].wal = {}
  <2> SUFFICES ASSUME NEW s \in Stores
               PROVE  /\ Read(disk'[s]) = Read(disk[s]) /\ IsStore(disk'[s])
                      /\ disk'[s].wal = {}
    OBVIOUS
  <2>1. IsContent(Read(disk[s]))
    BY ReadOf DEF HostInv, StoresOK
  <2>2. disk'[s] = Clean(Read(disk[s]))
    BY <1>1 DEF Settle
  <2> QED BY <2>1, <2>2, ReadClean
<1>3. StoresOK'
  <2>1. Sound(disk'["business"])
    <3>1. disk'["business"].file = Read(disk["business"])
      BY <1>1, StoreNames DEF Settle, Clean
    <3> QED BY <1>2, <3>1, StoreNames DEF Sound, NotBehind, HostInv, StoresOK
  <2> QED BY <1>1, <1>2, <2>1 DEF HostInv, StoresOK
<1>4. BackupsOK'
  BY <1>1 DEF HostInv, BackupsOK
<1>5. Undisturbed(p, Idle)
  BY <1>1 DEF Undisturbed
<1>6. HostInv'
  BY <1>1, <1>2, <1>3, <1>4, <1>5, QuietStep
<1> QED BY <1>2, <1>6

(* A command that is cut off leaves nothing that is not accounted for.     *)
LEMMA FailStep ==
  ASSUME HostInv, NEW p \in Procs, Fail(p)
  PROVE  HostInv'
<1>1. /\ UNCHANGED <<disk, index, manifest, backups, writes>>
      /\ proc' = [proc EXCEPT ![p] = Idle] /\ proc[p] # Idle
  BY DEF Fail, Releases
<1>2. Undisturbed(p, Idle)
  <2>1. CASE proc[p].op # "db"
    BY <1>1, <2>1 DEF Undisturbed
  <2>2. CASE proc[p].op = "db"
    <3>1. manifest = {}
      BY <1>1, <2>2 DEF HostInv, ProcsOK, Progress, Alone
    <3>2. \A q \in Procs : proc[q] = Idle \/ proc[q].op = "db"
      BY <1>1, <2>2 DEF HostInv, ProcsOK
    <3> QED BY <1>1, <3>1, <3>2 DEF Undisturbed
  <2> QED BY <2>1, <2>2
<1>3. /\ StoresOK' /\ BackupsOK'
      /\ \A s \in Stores : Read(disk'[s]) = Read(disk[s])
      /\ \A b \in DOMAIN backups : b \in DOMAIN backups' /\ backups'[b] = backups[b]
  BY <1>1, SameStores
<1> QED BY <1>1, <1>2, <1>3, QuietStep

(* Another file or log of the business store, and what is read of it then. *)
LEMMA BusinessStore ==
  ASSUME HostInv, NEW c, Present(c), NEW e \in {Clean(c), Logged(disk["business"], c)},
         Current(disk["business"].file.schema) => NotBehind(c)
  PROVE  IsStore(e) /\ Read(e) = c /\ Sound(e)
<1> PICK d : d = disk["business"]
  OBVIOUS
<1>0. IsStore(d)
  BY StoreNames DEF HostInv, StoresOK
<1>1. CASE e = Clean(c)
  BY <1>1, ReadClean DEF Present, Sound, NotBehind
<1>2. CASE e = Logged(d, c)
  <2>1. /\ IsStore(e) /\ Read(e) = c /\ e.file = d.file
        /\ e.wal = {[on |-> d.file, as |-> c, now |-> c]}
    BY <1>0, <1>2, ReadLogged
  <2>2. \A w \in e.wal : w.on = d.file /\ w.as = c
    BY ONLY <2>1
  <2> QED BY <2>1, <2>2 DEF Sound
<1> QED BY <1>1, <1>2

(* ops reconcile finds what is there, or adds the end of one more run.     *)
LEMMA ReconcileIs ==
  ASSUME HostInv, Reconcile
  PROVE  \E found, e :
           /\ found \in {Business} \cup Interrupted(Business)
           /\ e \in {Clean(found), Logged(disk["business"], found)}
           /\ disk' = [disk EXCEPT !["business"] = e]
           /\ Present(found) /\ Since(Business, found)
<1>1. PICK found \in {Business} \cup Interrupted(Business), folds \in BOOLEAN :
        disk' = [disk EXCEPT !["business"] = IF folds THEN Clean(found)
                                             ELSE Logged(disk["business"], found)]
  BY StoreNames DEF Reconcile, HostInv, StoresOK
<1> PICK c : c = Business
  OBVIOUS
<1>2. Present(c)
  <2>1. IsContent(c)
    BY StoreNames, ReadOf DEF Business, HostInv, StoresOK
  <2>2. c # Missing
    BY StoreNames DEF Reconcile, HostInv, ManifestIsLast, Installed, Business
  <2> QED BY <2>1, <2>2 DEF Present
<1>3. Present(found) /\ Since(c, found)
  <2>1. CASE found = c
    BY <1>2, <2>1, SinceIs DEF Present
  <2>2. CASE found \in Interrupted(c)
    <3>1. PICK rows : found = [c EXCEPT !.swept = @ + 1, !.rows = rows]
      BY <2>2 DEF Interrupted
    <3>2. /\ DOMAIN found = {"at", "swept", "schema", "rows"}
          /\ found.at = c.at /\ found.schema = c.schema /\ found.swept = c.swept + 1
      BY <1>2, <3>1 DEF Present, IsContent
    <3>3. c.at # -1 \/ c = Missing
      BY <1>2 DEF Present, IsContent
    <3> QED BY <1>2, <3>2, <3>3, Contents DEF Present, IsContent, Since
  <2> QED BY <2>1, <2>2
<1> QED BY <1>1, <1>3

(* ops reconcile takes no lock: whatever a command has found beside it, it *)
(* finds again, but for runs that are over by then.                        *)
LEMMA ReconcileStep ==
  ASSUME HostInv, Reconcile
  PROVE  HostInv' /\ \A s \in Stores : Read(disk'[s]).at = Read(disk[s]).at
<1>1. UNCHANGED <<index, manifest, backups, writes, proc>>
  BY DEF Reconcile
<1>2. PICK found, e :
        /\ found \in {Business} \cup Interrupted(Business)
        /\ e \in {Clean(found), Logged(disk["business"], found)}
        /\ disk' = [disk EXCEPT !["business"] = e]
        /\ Present(found) /\ Since(Business, found)
  BY ReconcileIs
<1>3. IsContent(Business) /\ IsContent(found)
  BY <1>2, StoreNames, ReadOf DEF Business, HostInv, StoresOK, Present
<1>4. IsStore(e) /\ Read(e) = found /\ Sound(e)
  <2>1. NotBehind(Business) => NotBehind(found)
    BY <1>2, <1>3, SinceIs
  <2>2. Current(disk["business"].file.schema) => NotBehind(found)
    BY <2>1 DEF HostInv, StoresOK, Sound, Business
  <2> QED BY <1>2, <2>2, BusinessStore
<1>5. /\ DOMAIN disk' = Stores /\ disk'["business"] = e
      /\ \A s \in Stores : s # "business" => disk'[s] = disk[s]
  BY <1>2, StoreNames DEF HostInv, StoresOK
<1>6. \A s \in Stores : /\ IsStore(disk'[s])
                        /\ Since(Read(disk[s]), Read(disk'[s]))
                        /\ s # "business" => Read(disk'[s]) = Read(disk[s])
  <2> TAKE s \in Stores
  <2>1. CASE s = "business"
    BY <1>2, <1>4, <1>5, <2>1 DEF Business
  <2>2. CASE s # "business"
    BY <1>5, <2>2, ReadOf, SinceIs DEF HostInv, StoresOK
  <2> QED BY <2>1, <2>2
<1>7. StoresOK'
  BY <1>1, <1>4, <1>5, <1>6 DEF HostInv, StoresOK
<1>8. BackupsOK'
  BY <1>1 DEF HostInv, BackupsOK
<1>9. /\ ManifestIsLast' /\ ReleaseIsReady'
      /\ \A t : Progress(t) => Progress(t)'
  BY <1>1, <1>6, <1>8, NothingNew
<1>10. ProcsOK'
  <2>1. \A p \in Procs : proc[p] = Idle \/ (Shape(proc[p]) /\ Progress(proc[p])')
    <3> SUFFICES ASSUME NEW p \in Procs, proc[p] # Idle
                 PROVE  Shape(proc[p]) /\ Progress(proc[p])'
      OBVIOUS
    <3> PICK t : t = proc[p]
      OBVIOUS
    <3>1. Shape(t) /\ Progress(t)'
      BY <1>9 DEF HostInv, ProcsOK
    <3> QED BY <1>1, <3>1 DEF Progress, Alone, PutInPlace, Upgraded, RolledBack, Copied
  <2> QED BY <1>1, <2>1 DEF HostInv, ProcsOK
<1>11. \A s \in Stores : Read(disk'[s]).at = Read(disk[s]).at
  BY <1>6 DEF Since
<1> QED BY <1>7, <1>8, <1>9, <1>10, <1>11 DEF HostInv

(* A migration that finds nothing more to do has found the head.           *)
LEMMA EndMigrateStep ==
  ASSUME HostInv, NEW p \in Procs, EndMigrate(p)
  PROVE  HostInv'
<1>1. /\ UNCHANGED <<disk, index, manifest, backups, writes>>
      /\ proc[p] # Idle /\ proc[p].step = "migrate" /\ Current(Business.schema)
      /\ IF proc[p].op = "upgrade" THEN Goes(p, "index") ELSE proc' = [proc EXCEPT ![p] = Idle]
  BY DEF EndMigrate, Releases
<1>2. /\ StoresOK' /\ BackupsOK'
      /\ \A s \in Stores : Read(disk'[s]) = Read(disk[s])
      /\ \A b \in DOMAIN backups : b \in DOMAIN backups' /\ backups'[b] = backups[b]
  BY <1>1, SameStores
<1>3. CASE proc[p].op = "upgrade"
  <2>1. PICK t : /\ proc' = [proc EXCEPT ![p] = t]
                 /\ DOMAIN t = {"op", "step", "copy", "held", "backup", "at"}
                 /\ t.op = "upgrade" /\ t.step = "index" /\ t.copy = proc[p].copy
    BY <1>1, <1>3, GoesIs DEF HostInv
  <2>2. Shape(t)
    BY <1>1, <2>1 DEF Shape, HostInv, ProcsOK
  <2>3. Progress(t)
    BY <1>1, <2>1 DEF Progress, Alone, PutInPlace, Upgraded, RolledBack, Copied
  <2>4. Undisturbed(p, t)
    BY <1>1, <1>3 DEF Undisturbed
  <2> QED BY <1>1, <1>2, <2>1, <2>2, <2>3, <2>4, QuietStep
<1>4. CASE proc[p].op # "upgrade"
  <2>1. proc[p].op = "db"
    BY <1>1, <1>4, StoreNames DEF HostInv, ProcsOK, Shape
  <2>2. manifest = {} /\ \A q \in Procs : proc[q] = Idle \/ proc[q].op = "db"
    BY <1>1, <2>1 DEF HostInv, ProcsOK, Progress, Alone
  <2>3. Undisturbed(p, Idle)
    BY <1>1, <2>2 DEF Undisturbed
  <2> QED BY <1>1, <1>2, <1>4, <2>3, QuietStep
<1> QED BY <1>3, <1>4

(* One snapshot more is of the same moment as those before it.             *)
LEMMA SnapshotStep ==
  ASSUME HostInv, NEW p \in Procs, Snapshot(p)
  PROVE  HostInv'
<1> PICK u, k, now : /\ u = proc[p] /\ k = Len(u.copy) + 1
                     /\ now = [s \in Stores |-> Read(disk[s])]
  OBVIOUS
<1> PICK c, held, t : /\ c = Append(u.copy, Read(disk[StoreOrder[k]]))
                      /\ held = IF k = 1 THEN now ELSE u.held
                      /\ t = [u EXCEPT !.copy = c, !.held = held]
  OBVIOUS
<1>1. /\ u # Idle /\ u.step = "snapshot" /\ k <= 3 /\ Read(disk[StoreOrder[k]]) # Missing
      /\ UNCHANGED <<disk, index, manifest, backups, writes>>
      /\ Shape(u) /\ Progress(u)
  BY DEF Snapshot, HostInv, ProcsOK
<1>2. proc' = [proc EXCEPT ![p] = t]
  <2>1. proc' = [proc EXCEPT ![p] = [u EXCEPT !.copy = c, !.held = held]]
    BY DEF Snapshot, HostInv, ProcsOK
  <2> QED BY <2>1
<1>3. /\ DOMAIN t = {"op", "step", "copy", "held", "backup", "at"} /\ t.copy = c /\ t.held = held
      /\ t.op = u.op /\ t.step = "snapshot" /\ t.backup = u.backup
  BY <1>1 DEF Shape
<1>4. /\ IsSeq(c) /\ Len(c) = k /\ Len(u.copy) \in Nat
      /\ \A i \in 1..Len(u.copy) : c[i] = u.copy[i]
      /\ c[k] = Read(disk[StoreOrder[k]])
  BY <1>1, AppendTo DEF Shape
<1>5. Shape(t)
  BY <1>1, <1>3, <1>4 DEF Shape
<1>6. /\ DOMAIN held = Stores /\ held = [s \in DOMAIN held |-> held[s]]
      /\ \A s \in Stores : /\ IsContent(held[s]) /\ Since(held[s], Read(disk[s]))
                           /\ s # "business" => held[s] = Read(disk[s])
  <2>1. CASE k = 1
    <3>1. held = now
      BY <2>1
    <3>2. \A s \in Stores : IsContent(Read(disk[s])) /\ Since(Read(disk[s]), Read(disk[s]))
      BY ReadOf, SinceIs DEF HostInv, StoresOK
    <3> QED BY <3>1, <3>2
  <2>2. CASE k # 1
    <3>1. Len(u.copy) > 0 /\ held = u.held
      BY <1>4, <2>2
    <3> QED BY <1>1, <3>1 DEF Progress, Copied
  <2> QED BY <2>1, <2>2
<1>7. Copied(t)
  <2>1. ASSUME NEW i \in 1..Len(c)
        PROVE  c[i] = held[StoreOrder[i]] /\ c[i] # Missing
    <3>1. CASE i = k
      <4>1. CASE k = 1
        BY <1>1, <1>4, <3>1, <4>1, StoreNames
      <4>2. CASE k # 1
        <5>1. StoreOrder[k] \in Stores /\ StoreOrder[k] # "business"
          BY <1>1, <1>4, <4>2, StoreNames
        <5> QED BY <1>1, <1>4, <1>6, <3>1, <5>1
      <4> QED BY <4>1, <4>2
    <3>2. CASE i \in 1..Len(u.copy)
      BY <1>1, <1>4, <3>2 DEF Progress, Copied
    <3> QED BY <1>4, <3>1, <3>2
  <2> QED BY <1>1, <1>3, <1>4, <1>6, <2>1 DEF Copied
<1>8. Progress(t)
  BY <1>1, <1>3, <1>7 DEF Progress, Alone, PutInPlace, Upgraded, RolledBack
<1>9. u.op # "db"
  BY <1>1 DEF Shape
<1>10. Undisturbed(p, t)
  BY <1>1, <1>9 DEF Undisturbed
<1>11. /\ StoresOK' /\ BackupsOK'
       /\ \A s \in Stores : Read(disk'[s]) = Read(disk[s])
       /\ \A b \in DOMAIN backups : b \in DOMAIN backups' /\ backups'[b] = backups[b]
  BY <1>1, SameStores
<1> QED BY <1>1, <1>2, <1>5, <1>8, <1>10, <1>11, QuietStep

(* What is published is what the stores held at the first snapshot, and    *)
(* hold now, but for what ops reconcile has added.                         *)
LEMMA PublishStep ==
  ASSUME HostInv, NEW p \in Procs, Publish(p)
  PROVE  /\ HostInv'
         /\ proc[p] # Idle /\ proc[p].step = "snapshot"
         /\ \A b \in DOMAIN backups' \ DOMAIN backups : backups'[b] = proc[p].held
<1> PICK u, new, n : /\ u = proc[p] /\ n = Len(backups) + 1
                     /\ new = [s \in Stores |-> u.copy[CHOOSE k \in 1..3 : StoreOrder[k] = s]]
  OBVIOUS
<1>1. /\ u # Idle /\ u.step = "snapshot" /\ Len(u.copy) = 3
      /\ backups' = Append(backups, new)
      /\ UNCHANGED <<disk, index, manifest, writes>>
      /\ Shape(u) /\ Progress(u)
  BY DEF Publish, HostInv, ProcsOK
<1>2. new = u.held /\ \A s \in Stores : Present(new[s]) /\ Since(new[s], Read(disk[s]))
  <2>0. /\ DOMAIN u.held = Stores /\ u.held = [s \in DOMAIN u.held |-> u.held[s]]
        /\ \A s \in Stores : IsContent(u.held[s]) /\ Since(u.held[s], Read(disk[s]))
        /\ \A k \in 1..3 : u.copy[k] = u.held[StoreOrder[k]] /\ u.copy[k] # Missing
    BY <1>1 DEF Progress, Copied
  <2>1. ASSUME NEW s \in Stores
        PROVE  new[s] = u.held[s] /\ new[s] # Missing
    <3>1. \E k \in 1..3 : StoreOrder[k] = s
      BY StoreNames
    <3> PICK k : k = CHOOSE j \in 1..3 : StoreOrder[j] = s
      OBVIOUS
    <3>2. k \in 1..3 /\ StoreOrder[k] = s /\ new[s] = u.copy[k]
      BY <3>1
    <3> QED BY <2>0, <3>2
  <2>2. DOMAIN new = Stores /\ new = [s \in DOMAIN new |-> new[s]]
    OBVIOUS
  <2>3. new = u.held
    BY ONLY <2>0, <2>1, <2>2
  <2>4. \A s \in Stores : Present(new[s]) /\ Since(new[s], Read(disk[s]))
    BY <2>0, <2>1 DEF Present
  <2> QED BY <2>3, <2>4
<1>3. /\ IsSeq(backups') /\ DOMAIN backups = 1..Len(backups) /\ Len(backups) \in Nat
      /\ DOMAIN backups' = 1..n /\ backups'[n] = new
      /\ \A b \in DOMAIN backups : backups'[b] = backups[b]
  BY <1>1, AppendTo DEF HostInv, BackupsOK
<1>4. \A b \in DOMAIN backups' : b = n \/ b \in DOMAIN backups
  BY <1>3
<1>5. BackupsOK'
  BY <1>2, <1>3, <1>4 DEF HostInv, BackupsOK
<1>6. StoresOK'
  BY <1>1 DEF HostInv, StoresOK
<1>7. /\ \A s \in Stores : Read(disk'[s]) = Read(disk[s])
      /\ \A b \in DOMAIN backups : b \in DOMAIN backups' /\ backups'[b] = backups[b]
  BY <1>1, <1>3
<1>8. u.op # "db"
  BY <1>1 DEF Shape
<1>9. \A t : Undisturbed(p, t)
  BY <1>1, <1>8 DEF Undisturbed
<1>10. ASSUME NEW t, proc' = [proc EXCEPT ![p] = t],
              t = Idle \/ (Shape(t) /\ (Progress(t) \/ Progress(t)'))
       PROVE  HostInv'
  BY <1>1, <1>5, <1>6, <1>7, <1>9, <1>10, QuietStep
<1>11. u.op \in {"backup", "restore", "upgrade"}
  BY <1>1, StoreNames DEF Shape
<1>12. CASE u.op = "backup"
  <2>1. proc' = [proc EXCEPT ![p] = Idle]
    BY <1>12 DEF Publish, HostInv, ProcsOK
  <2> QED BY <1>1, <1>2, <1>3, <1>4, <1>10, <2>1
<1>13. CASE u.op = "restore"
  <2> PICK t : t = Task("restore", "business", u.backup)
    OBVIOUS
  <2>1. proc' = [proc EXCEPT ![p] = t]
    BY <1>13 DEF Publish, HostInv, ProcsOK
  <2>2. /\ t.op = "restore" /\ t.step = "business" /\ t.backup = u.backup /\ Shape(t)
    BY TaskIs, StoreNames DEF Shape
  <2>3. /\ u.backup \in DOMAIN backups /\ CanRestore(u.backup)
    BY <1>1, <1>13 DEF Progress, RolledBack
  <2>4. /\ u.backup \in DOMAIN backups' /\ CanRestore(u.backup)'
    BY <1>7, <2>3 DEF CanRestore
  <2>5. \A s \in Stores : Since(backups'[n][s], Read(disk'[s]))
    BY <1>2, <1>3, <1>7
  <2>6. \A s \in Stores : ~Placed(s, "business")
    BY StoreNames DEF Placed
  <2>7. n \in DOMAIN backups'
    BY <1>3
  <2>8. RolledBack(t)'
    BY <2>2, <2>4, <2>5, <2>7 DEF RolledBack, CanRestore
  <2>9. Progress(t)'
    BY <2>2, <2>6, <2>8 DEF Progress, Alone, PutInPlace, Upgraded, Copied
  <2> QED BY <1>1, <1>2, <1>3, <1>4, <1>10, <2>1, <2>2, <2>9
<1>14. CASE u.op = "upgrade"
  <2> PICK t : t = Task("upgrade", "migrate", 0)
    OBVIOUS
  <2>1. proc' = [proc EXCEPT ![p] = t]
    BY <1>14 DEF Publish, HostInv, ProcsOK
  <2>2. /\ t.op = "upgrade" /\ t.step = "migrate" /\ Shape(t)
    BY TaskIs DEF Shape
  <2>3. Progress(t)
    BY <2>2 DEF Progress, Alone, PutInPlace, Upgraded, RolledBack, Copied
  <2> QED BY <1>1, <1>2, <1>3, <1>4, <1>10, <2>1, <2>2, <2>3
<1> QED BY <1>11, <1>12, <1>13, <1>14

-----------------------------------------------------------------------------
(* Steps that change a store, the index or the manifest                    *)

(* One store replaced, the others as they were.                            *)
LEMMA OneStore ==
  ASSUME StoresOK, NEW s \in Stores, NEW d, disk' = [disk EXCEPT ![s] = d], IsStore(d),
         writes' \in Nat, s = "business" => Sound(d)
  PROVE  /\ StoresOK'
         /\ disk'[s] = d /\ \A x \in Stores : x # s => disk'[x] = disk[x]
BY StoreNames DEF StoresOK

LEMMA BusinessReplaced ==
  ASSUME StoresOK, NEW d, disk' = [disk EXCEPT !["business"] = d], IsStore(d), Sound(d),
         writes' \in Nat
  PROVE  /\ StoresOK'
         /\ disk'["business"] = d /\ \A x \in Stores : x # "business" => disk'[x] = disk[x]
BY StoreNames DEF StoresOK

(* The service writes to a current database, which stays current.          *)
LEMMA WriteStep ==
  ASSUME HostInv, NEW p \in Procs, NEW s \in Stores, NEW closes \in BOOLEAN, Write(p, s, closes)
  PROVE  HostInv'
<1> PICK u, old, d : u = proc[p] /\ old = Read(disk[s]) /\ d = disk[s]
  OBVIOUS
<1> PICK new : new = IF IsMixed(old) THEN old ELSE [old EXCEPT !.at = writes']
  OBVIOUS
<1>1. /\ u # Idle /\ u.op = "serve" /\ Shape(u) /\ Progress(u) /\ Current(Business.schema)
      /\ disk' = [disk EXCEPT ![s] = IF closes THEN Clean(new) ELSE Logged(d, new)]
      /\ closes => s # "business"
      /\ writes \in Nat /\ writes' = writes + 1
      /\ UNCHANGED <<index, manifest, backups, proc>>
      /\ IsStore(d) /\ IsContent(old)
  BY ReadOf DEF Write, Does, HostInv, ProcsOK, StoresOK, Progress
<1>2. /\ Present(new) /\ (Current(old.schema) => Current(new.schema))
  <2>1. CASE IsMixed(old)
    BY <1>1, <2>1, Contents DEF Present
  <2>2. CASE ~IsMixed(old)
    <3>1. new = [old EXCEPT !.at = writes']
      BY <2>2
    <3>2. /\ DOMAIN new = {"at", "swept", "schema", "rows"} /\ new.at = writes'
          /\ new.schema = old.schema /\ new.swept = old.swept
      BY <1>1, <3>1 DEF IsContent
    <3>3. new.at # -1 /\ Missing.at = -1
      BY <1>1, <3>2 DEF Missing, Content
    <3> QED BY <1>1, <3>2, <3>3 DEF Present, IsContent
  <2> QED BY <2>1, <2>2
<1> PICK e : e = IF closes THEN Clean(new) ELSE Logged(d, new)
  OBVIOUS
<1>3. /\ Read(e) = new /\ IsStore(e)
      /\ s = "business" => Sound(e)
  <2>1. CASE closes
    BY <1>1, <1>2, <2>1, ReadClean DEF Present
  <2>2. CASE ~closes
    <3>1. Read(e) = new /\ IsStore(e)
      BY <1>1, <1>2, <2>2, ReadLogged
    <3>2. ASSUME s = "business" PROVE Sound(e)
      <4>1. NotBehind(new)
        BY <1>1, <1>2, <3>2 DEF Business, NotBehind
      <4> QED BY <1>2, <2>2, <3>2, <4>1, BusinessStore
    <3> QED BY <3>1, <3>2
  <2> QED BY <2>1, <2>2
<1>4. /\ StoresOK' /\ disk'[s] = e /\ \A x \in Stores : x # s => disk'[x] = disk[x]
  <2>1. disk' = [disk EXCEPT ![s] = e] /\ writes' \in Nat
    BY <1>1
  <2>2. StoresOK
    BY DEF HostInv
  <2> QED BY <1>3, <2>1, <2>2, OneStore
<1>5. BackupsOK'
  BY <1>1 DEF HostInv, BackupsOK
<1>6. /\ Installed => Installed'
      /\ Current(Business.schema)'
  <2>1. s = "business" => Current(new.schema)
    BY <1>1, <1>2 DEF Business
  <2>2. Installed => Installed'
    <3> SUFFICES ASSUME NEW x \in Stores, Read(disk[x]) # Missing
                 PROVE  Read(disk'[x]) # Missing
      BY DEF Installed
    <3> QED BY <1>2, <1>3, <1>4 DEF Present
  <2>3. CASE s = "business"
    BY <1>3, <1>4, <2>1, <2>2, <2>3 DEF Business
  <2>4. CASE s # "business"
    <3>1. disk'["business"] = disk["business"]
      BY <1>4, <2>4, StoreNames
    <3> QED BY <1>1, <2>2, <3>1 DEF Business
  <2> QED BY <2>3, <2>4
<1>7. ManifestIsLast' /\ ReleaseIsReady'
  BY <1>1, <1>6, Contents DEF HostInv, ManifestIsLast, ReleaseIsReady, Ready, Readable, Installed
<1>8. Progress(u)'
  BY <1>1, <1>6, StoreNames DEF Progress, Alone, PutInPlace, Upgraded, RolledBack, Copied, Shape
<1>9. ProcsOK'
  <2>1. \A q \in Procs : q # p => proc'[q] = Idle
    BY <1>1 DEF HostInv, ProcsOK
  <2>2. proc'[p] = u
    BY <1>1
  <2>3. \A q \in Procs : proc'[q] = Idle \/ (q = p /\ proc'[q] = u)
    BY <2>1, <2>2
  <2>4. Shape(proc[p])' /\ Progress(proc[p])'
    BY <1>1, <1>8, <2>2
       DEF Shape, Progress, Alone, PutInPlace, Upgraded, RolledBack, Copied
  <2>5. DOMAIN proc' = Procs
    BY <1>1 DEF HostInv, ProcsOK
  <2> QED BY <2>1, <2>3, <2>4, <2>5 DEF ProcsOK
<1> QED BY <1>4, <1>5, <1>7, <1>9 DEF HostInv

(* A command with nobody beside it goes on to a step of its own.           *)
LEMMA CommandStep ==
  ASSUME HostInv, NEW p \in Procs, NEW t, proc' = [proc EXCEPT ![p] = t],
         proc[p] # Idle, proc[p].op # "db",
         t = Idle \/ (Shape(t) /\ Progress(t)'),
         StoresOK', BackupsOK', ManifestIsLast', ReleaseIsReady'
  PROVE  HostInv'
<1>1. Undisturbed(p, t)
  BY DEF Undisturbed
<1>2. ProcsOK'
  BY <1>1, ProcStep DEF HostInv
<1> QED BY <1>2 DEF HostInv

(* Store by store: what lies behind the next step.                         *)
LEMMA BehindIs ==
  ASSUME NEW s \in Stores, NEW last, last \notin Stores
  PROVE  /\ Behind(s, last) \in Stores \cup {last} /\ Behind(s, last) # "business"
         /\ \A x \in Stores : Placed(x, Behind(s, last)) <=> x = s \/ Placed(x, s)
         /\ ~Placed(s, s)
         /\ s # "business" => Placed("business", s)
<1>1. CASE s = "business"
  BY <1>1, StoreNames DEF Behind, Placed
<1>2. CASE s = "checkpoints"
  BY <1>2, StoreNames DEF Behind, Placed
<1>3. CASE s = "memory"
  BY <1>3, StoreNames DEF Behind, Placed
<1> QED BY <1>1, <1>2, <1>3, StoreNames

(* A store put in its place by init or restore, and the next one.          *)
LEMMA PlaceStep ==
  ASSUME HostInv, NEW p \in Procs, NEW u, u = proc[p], u # Idle, u.op \in {"init", "restore"},
         NEW s \in Stores, u.step = s,
         NEW d, disk' = [disk EXCEPT ![s] = d], IsStore(d), Read(d) # Missing,
         s = "business" => NotBehind(Read(d)) /\ Sound(d),
         NEW last \in {"index", "count"}, u.op = "init" <=> last = "index",
         Goes(p, Behind(s, last)), UNCHANGED <<index, manifest, backups, writes>>
  PROVE  HostInv'
<1>1. Shape(u) /\ Progress(u)
  BY DEF HostInv, ProcsOK
<1>2. /\ StoresOK' /\ disk'[s] = d /\ \A x \in Stores : x # s => disk'[x] = disk[x]
  BY OneStore DEF HostInv, StoresOK
<1> PICK next : next = Behind(s, last)
  OBVIOUS
<1>3. PICK t : /\ proc' = [proc EXCEPT ![p] = t]
               /\ DOMAIN t = {"op", "step", "copy", "held", "backup", "at"}
               /\ t.op = u.op /\ t.step = next /\ t.copy = u.copy /\ t.backup = u.backup
  BY GoesIs DEF HostInv
<1>4. /\ next \in Stores \cup {last} /\ next # "business"
      /\ \A x \in Stores : Placed(x, next) <=> x = s \/ Placed(x, s)
      /\ s # "business" => Placed("business", s)
      /\ ~Placed(s, s)
  BY BehindIs, StoreNames
<1>5. Shape(t)
  BY <1>1, <1>3, <1>4, StoreNames DEF Shape
<1>6. /\ \A x \in Stores : Placed(x, next) => Read(disk'[x]) # Missing
      /\ NotBehind(Business)'
  <2>1. s \notin {"snapshot", "record"}
    BY StoreNames
  <2>2. /\ \A x \in Stores : Placed(x, s) => Read(disk[x]) # Missing
        /\ s # "business" => NotBehind(Business)
    BY <1>1, <2>1 DEF Progress, PutInPlace
  <2> QED BY <1>2, <1>4, <2>2, StoreNames DEF Business, NotBehind
<1>7. BackupsOK'
  BY DEF HostInv, BackupsOK
<1>8. Installed => Installed'
  BY <1>2 DEF Installed
<1>9. ManifestIsLast' /\ ReleaseIsReady'
  BY <1>6, <1>8, StoreNames, Contents
     DEF HostInv, ManifestIsLast, ReleaseIsReady, Ready, Readable, Installed, NotBehind, Business
<1>10. Progress(t)'
  <2>1. next \notin {"snapshot", "record", "migrate"}
    BY <1>4, StoreNames
  <2>2. Alone(t)'
    BY <1>1, <1>3 DEF Progress, Alone
  <2>3. PutInPlace(t)'
    BY <1>3, <1>6, <2>1 DEF PutInPlace
  <2>4. RolledBack(t)'
    <3>1. CASE u.op = "restore"
      <4>1. /\ u.backup \in DOMAIN backups /\ CanRestore(u.backup)
            /\ manifest # {} =>
                 \E b \in DOMAIN backups : \A x \in Stores :
                   ~Placed(x, s) => Since(backups[b][x], Read(disk[x]))
        BY <1>1, <3>1, StoreNames DEF Progress, RolledBack
      <4>2. manifest # {} =>
              \E b \in DOMAIN backups : \A x \in Stores :
                ~Placed(x, next) => Since(backups[b][x], Read(disk'[x]))
        BY <1>2, <1>4, <4>1
      <4>3. CanRestore(u.backup)'
        BY <4>1 DEF CanRestore
      <4> QED BY <1>3, <4>1, <4>2, <4>3 DEF RolledBack, CanRestore
    <3>2. CASE u.op # "restore"
      BY <1>3, <3>2 DEF RolledBack
    <3> QED BY <3>1, <3>2
  <2>5. Upgraded(t)' /\ Copied(t)' /\ t.op # "serve"
    BY <1>3, <2>1 DEF Upgraded, Copied
  <2> QED BY <2>2, <2>3, <2>4, <2>5 DEF Progress
<1> QED BY <1>2, <1>3, <1>5, <1>7, <1>9, <1>10, CommandStep

(* The index is built when the stores are in their places.                 *)
LEMMA IndexStep ==
  ASSUME HostInv, NEW p \in Procs, proc[p] # Idle, proc[p].op \in {"init", "restore", "upgrade"},
         proc[p].step = "index", proc[p].op = "upgrade" => Installed,
         index' = TRUE, Goes(p, "record"), UNCHANGED <<disk, manifest, backups, writes>>
  PROVE  HostInv'
<1> PICK u : u = proc[p]
  OBVIOUS
<1>1. Shape(u) /\ Progress(u)
  BY DEF HostInv, ProcsOK
<1>2. PICK t : /\ proc' = [proc EXCEPT ![p] = t]
               /\ DOMAIN t = {"op", "step", "copy", "held", "backup", "at"}
               /\ t.op = u.op /\ t.step = "record" /\ t.copy = u.copy /\ t.backup = u.backup
  BY GoesIs DEF HostInv
<1>3. Shape(t)
  BY <1>1, <1>2 DEF Shape
<1>4. Installed' = Installed /\ Business' = Business /\ (index => index')
  BY DEF Installed, Business
<1>5. StoresOK' /\ BackupsOK'
  BY SameStores
<1>6. ManifestIsLast' /\ ReleaseIsReady'
  BY <1>4 DEF HostInv, ManifestIsLast, ReleaseIsReady, Ready, Readable
<1>7. Progress(t)'
  <2>1. \A s \in Stores : Placed(s, "index") /\ Placed(s, "record")
    BY StoreNames DEF Placed
  <2>2. PutInPlace(t)'
    BY <1>1, <1>2, <2>1, <1>4 DEF Progress, PutInPlace, NotBehind
  <2>3. Upgraded(t)'
    BY <1>1, <1>2, <1>4 DEF Progress, Upgraded
  <2>4. RolledBack(t)'
    BY <1>1, <1>2, <2>1 DEF Progress, RolledBack, CanRestore
  <2> QED BY <1>1, <1>2, <2>2, <2>3, <2>4 DEF Progress, Alone, Copied
<1> QED BY <1>2, <1>3, <1>5, <1>6, <1>7, CommandStep

(* Whatever the manifest says then, everything it stands for is there.     *)
LEMMA RecordStep ==
  ASSUME HostInv, NEW p \in Procs, proc[p] # Idle, proc[p].op \in {"init", "restore", "upgrade"},
         proc[p].step = "record", Releases(p), UNCHANGED <<disk, index, backups, writes>>
  PROVE  HostInv'
<1>1. Shape(proc[p]) /\ Progress(proc[p])
  BY DEF HostInv, ProcsOK
<1>2. Installed /\ NotBehind(Business) /\ index
  BY <1>1, StoreNames DEF Progress, PutInPlace, Upgraded, Placed, Installed, NotBehind
<1>3. ManifestIsLast' /\ ReleaseIsReady'
  BY <1>2, StoreNames, Contents
     DEF ManifestIsLast, ReleaseIsReady, Ready, Readable, Installed, Business, NotBehind
<1>4. StoresOK' /\ BackupsOK'
  BY SameStores
<1>5. proc' = [proc EXCEPT ![p] = Idle]
  BY DEF Releases
<1> QED BY <1>3, <1>4, <1>5, CommandStep

(* ops init: the stores one by one, the index, the manifest.               *)
LEMMA InitStepKeeps ==
  ASSUME HostInv, NEW p \in Procs, InitStep(p)
  PROVE  HostInv'
<1> PICK u : u = proc[p]
  OBVIOUS
<1>1. ASSUME NEW s \in Stores, Does(p, "init", s), Install(s), Goes(p, Behind(s, "index")),
             UNCHANGED <<index, backups, writes>>
      PROVE  HostInv'
  <2> PICK d : d = Clean(Empty(0))
    OBVIOUS
  <2>1. IsStore(d) /\ Read(d) = Empty(0) /\ d.wal = {}
    BY Contents, ReadClean DEF Present
  <2>2. Read(d) # Missing /\ NotBehind(Read(d)) /\ Sound(d)
    BY <2>1, Contents DEF Present, NotBehind, Sound
  <2>3. disk' = [disk EXCEPT ![s] = d] /\ UNCHANGED <<index, manifest, backups, writes>>
    BY <1>1 DEF Install
  <2>4. u # Idle /\ u.op = "init" /\ u.step = s
    BY <1>1 DEF Does
  <2> QED BY <1>1, <2>1, <2>2, <2>3, <2>4, PlaceStep
<1>2. CASE /\ Does(p, "init", "index") /\ index' = TRUE
           /\ Goes(p, "record") /\ UNCHANGED <<disk, manifest, backups, writes>>
  BY <1>2, IndexStep DEF Does
<1>3. CASE /\ Does(p, "init", "record") /\ Releases(p) /\ UNCHANGED <<disk, index, backups, writes>>
  BY <1>3, RecordStep DEF Does
<1> QED BY <1>1, <1>2, <1>3 DEF InitStep

(* A failed init has no manifest that could stand for what it removes.     *)
LEMMA FailInitStep ==
  ASSUME HostInv, NEW p \in Procs, FailInit(p)
  PROVE  HostInv'
<1>1. proc[p] # Idle /\ proc[p].op = "init"
  BY DEF FailInit, Idle
<1>2. manifest' = {}
  BY <1>1 DEF FailInit, HostInv, ProcsOK, Progress, Alone
<1>3. ManifestIsLast' /\ ReleaseIsReady'
  BY <1>2 DEF ManifestIsLast, ReleaseIsReady
<1>4. BackupsOK'
  BY DEF FailInit, HostInv, BackupsOK
<1>5. StoresOK'
  <2>1. IsStore(Clean(Missing)) /\ Sound(Clean(Missing))
    BY Contents, ReadClean DEF Sound, NotBehind
  <2> QED BY <2>1, StoreNames DEF FailInit, HostInv, StoresOK
<1>6. proc' = [proc EXCEPT ![p] = Idle]
  BY DEF FailInit, Releases
<1> QED BY <1>1, <1>3, <1>4, <1>5, <1>6, CommandStep

-----------------------------------------------------------------------------
(* ops restore                                                             *)

(* What a connection finds when a file is put beside a WAL that was there  *)
(* before: the backup, or the two mixed, and neither is nothing.           *)
LEMMA ReplacedFile ==
  ASSUME HostInv, NEW s \in Stores, NEW b \in DOMAIN backups, CanRestore(b),
         NEW d \in Replaced(disk[s], backups[b][s])
  PROVE  /\ IsStore(d) /\ Read(d) # Missing
         /\ s = "business" => NotBehind(Read(d)) /\ Sound(d)
<1> PICK old, file : old = disk[s] /\ file = backups[b][s]
  OBVIOUS
<1>1. IsStore(old) /\ Present(file) /\ (s = "business" => Current(file.schema) /\ Sound(old))
  BY DEF HostInv, StoresOK, BackupsOK, CanRestore
<1>2. CASE old.wal = {}
  <2>1. d = Clean(file)
    BY <1>2 DEF Replaced
  <2> QED BY <1>1, <2>1, ReadClean DEF Present, NotBehind, Sound
<1>3. CASE old.wal # {}
  <2>0. PICK w \in old.wal : \E c \in Beside(w, file) :
          d = [file |-> file, wal |-> {[w EXCEPT !.now = c]}]
    BY <1>3 DEF Replaced
  <2>1. PICK c \in Beside(w, file) : d = [file |-> file, wal |-> {[w EXCEPT !.now = c]}]
    BY <2>0
  <2> PICK v : v = [w EXCEPT !.now = c]
    OBVIOUS
  <2>2. /\ DOMAIN v = {"on", "as", "now"} /\ v.on = w.on /\ v.as = w.as /\ v.now = c
        /\ Present(w.as)
    BY <1>1 DEF IsStore
  <2>3. Present(c) /\ (s = "business" => NotBehind(c))
    <3>1. CASE file \in {w.on, w.as}
      <4>1. c = w.as
        BY <3>1 DEF Beside
      <4>2. ASSUME s = "business" PROVE NotBehind(w.as)
        <5>1. CASE file = w.as
          BY <1>1, <4>2, <5>1 DEF NotBehind
        <5>2. CASE file = w.on
          BY <1>1, <4>2, <5>2 DEF Sound
        <5> QED BY <3>1, <5>1, <5>2
      <4> QED BY <2>2, <4>1, <4>2
    <3>2. CASE file \notin {w.on, w.as}
      BY <3>2, Contents DEF Beside, NotBehind
    <3> QED BY <3>1, <3>2
  <2>4. DOMAIN d = {"file", "wal"} /\ d.file = file /\ d.wal = {v}
    BY <2>1
  <2>5. Read(d) = c /\ IsStore(d)
    BY <1>1, <2>2, <2>3, <2>4, ReadWith DEF Present
  <2>6. ASSUME s = "business" PROVE Sound(d)
    BY <1>1, <2>2, <2>3, <2>4, <2>5, <2>6 DEF Sound
  <2> QED BY <2>3, <2>5, <2>6 DEF Present
<1> QED BY <1>2, <1>3

(* ops restore: the files one by one, the count, the index, the manifest.  *)
LEMMA RestoreStepKeeps ==
  ASSUME HostInv, NEW p \in Procs, RestoreStep(p)
  PROVE  HostInv'
<1> PICK u : u = proc[p]
  OBVIOUS
<1>1. u # Idle => Shape(u) /\ Progress(u)
  BY DEF HostInv, ProcsOK
<1>2. ASSUME NEW s \in Stores, Does(p, "restore", s),
             NEW d \in Replaced(disk[s], backups[proc[p].backup][s]),
             disk' = [disk EXCEPT ![s] = d],
             Goes(p, Behind(s, "count")), UNCHANGED <<index, manifest, backups, writes>>
      PROVE  HostInv'
  <2>1. u # Idle /\ u.op = "restore" /\ u.step = s
    BY <1>2 DEF Does
  <2>2. u.backup \in DOMAIN backups /\ CanRestore(u.backup)
    BY <1>1, <2>1 DEF Progress, RolledBack
  <2>3. /\ IsStore(d) /\ Read(d) # Missing
        /\ s = "business" => NotBehind(Read(d)) /\ Sound(d)
    BY <1>2, <2>2, ReplacedFile
  <2> QED BY <1>2, <2>1, <2>3, PlaceStep
<1>3. CASE /\ Does(p, "restore", "count") /\ Goes(p, "index")
           /\ UNCHANGED <<disk, index, manifest, backups, writes>>
  <2>1. u # Idle /\ u.op = "restore" /\ u.step = "count"
    BY <1>3 DEF Does
  <2>2. PICK t : /\ proc' = [proc EXCEPT ![p] = t]
                 /\ DOMAIN t = {"op", "step", "copy", "held", "backup", "at"}
                 /\ t.op = u.op /\ t.step = "index" /\ t.copy = u.copy /\ t.backup = u.backup
    BY <1>3, <2>1, GoesIs DEF HostInv
  <2>3. Shape(t)
    BY <1>1, <2>1, <2>2 DEF Shape
  <2>4. \A s \in Stores : Placed(s, "count") /\ Placed(s, "index")
    BY StoreNames DEF Placed
  <2>5. Progress(t)
    BY <1>1, <2>1, <2>2, <2>4 DEF Progress, Alone, PutInPlace, Upgraded, RolledBack, Copied
  <2>6. Undisturbed(p, t)
    BY <2>1 DEF Undisturbed
  <2>7. /\ StoresOK' /\ BackupsOK'
        /\ \A s \in Stores : Read(disk'[s]) = Read(disk[s])
        /\ \A b \in DOMAIN backups : b \in DOMAIN backups' /\ backups'[b] = backups[b]
    BY <1>3, SameStores
  <2> QED BY <1>3, <2>2, <2>3, <2>5, <2>6, <2>7, QuietStep
<1>4. CASE /\ Does(p, "restore", "index") /\ index' = TRUE
           /\ Goes(p, "record") /\ UNCHANGED <<disk, manifest, backups, writes>>
  BY <1>4, IndexStep DEF Does
<1>5. CASE /\ Does(p, "restore", "record") /\ Releases(p)
           /\ UNCHANGED <<disk, index, backups, writes>>
  BY <1>5, RecordStep DEF Does
<1> QED BY <1>2, <1>3, <1>4, <1>5 DEF RestoreStep

-----------------------------------------------------------------------------
(* ops upgrade and db upgrade                                              *)

(* A database that is not current was not when its WAL was begun.          *)
LEMMA MigrateStepKeeps ==
  ASSUME HostInv, NEW p \in Procs, MigrateStep(p)
  PROVE  /\ HostInv'
         /\ Installed => \A s \in Stores : Read(disk'[s]).at = Read(disk[s]).at
<1> PICK u, d, found : u = proc[p] /\ d = disk["business"] /\ found = Read(d)
  OBVIOUS
<1> PICK next : next = Advanced(found.schema)
  OBVIOUS
<1> PICK rows : rows = IF next.left = 0 THEN RowsAfter(next.version, found.rows) ELSE found.rows
  OBVIOUS
<1> PICK new : new = Content(IF found = Missing THEN 0 ELSE found.at, found.swept, next, rows)
  OBVIOUS
<1> PICK e : e = IF Current(next) \/ Unused(found) THEN Clean(new) ELSE Logged(d, new)
  OBVIOUS
<1>1. /\ u # Idle /\ u.step = "migrate" /\ ~Current(found.schema)
      /\ disk' = [disk EXCEPT !["business"] = e]
      /\ proc' = [proc EXCEPT ![p].at = next]
      /\ UNCHANGED <<index, manifest, backups, writes>>
  <2>1. Business = found
    BY DEF Business
  <2> QED BY <2>1 DEF MigrateStep, HostInv, StoresOK
<1>2. /\ IsStore(d) /\ IsContent(found) /\ Shape(u) /\ Progress(u)
      /\ "business" \in Stores
  BY <1>1, StoreNames, ReadOf DEF HostInv, StoresOK, ProcsOK
<1>3. Present(new) /\ new.schema = next /\ (found # Missing => new.at = found.at)
  <2>1. (IF found = Missing THEN 0 ELSE found.at) # -1 /\ found.swept \in Nat
    BY <1>2 DEF IsContent
  <2> QED BY <2>1, Contents DEF Content
<1>4. Current(d.file.schema) => NotBehind(new)
  <2>1. Current(d.file.schema) => IsMixed(found)
    BY <1>1 DEF HostInv, StoresOK, Sound, NotBehind
  <2> QED BY <1>3, <2>1, Contents DEF NotBehind, IsMixed
<1>5. Read(e) = new /\ IsStore(e) /\ Sound(e)
  BY <1>3, <1>4, BusinessStore
<1>6. StoresOK' /\ disk'["business"] = e /\ \A x \in Stores : x # "business" => disk'[x] = disk[x]
  <2>1. StoresOK /\ writes' \in Nat
    BY <1>1 DEF HostInv, StoresOK
  <2>2. disk' = [disk EXCEPT !["business"] = e]
    BY <1>1
  <2> QED BY <2>1, <2>2, <1>5, BusinessReplaced
<1>7. BackupsOK'
  BY <1>1 DEF HostInv, BackupsOK
<1>8. Installed => /\ Installed'
                     /\ \A s \in Stores : Read(disk'[s]).at = Read(disk[s]).at
  BY <1>2, <1>3, <1>5, <1>6 DEF Installed, Present
<1>9. ManifestIsLast' /\ ReleaseIsReady'
  <2>1. ~Ready
    BY <1>1 DEF Business, Ready
  <2> QED BY <1>1, <1>8, <2>1 DEF HostInv, ManifestIsLast, ReleaseIsReady, IsMixed
<1> PICK t : t = [u EXCEPT !.at = next]
  OBVIOUS
<1>10. /\ proc' = [proc EXCEPT ![p] = t]
       /\ Shape(t) /\ t.step = "migrate" /\ t.op = u.op
  BY <1>1, <1>2 DEF HostInv, ProcsOK, Shape
<1>11. u.op \in {"upgrade", "db"}
  BY <1>1, <1>2, StoreNames DEF Shape
<1>12. Progress(t)'
  BY <1>1, <1>2, <1>10, <1>11
     DEF Progress, Alone, PutInPlace, Upgraded, RolledBack, Copied
<1>13. Undisturbed(p, t)
  <2>1. u.op = "db" => /\ manifest' = {}
                       /\ \A q \in Procs : proc[q] = Idle \/ proc[q].op = "db"
    BY <1>1, <1>2 DEF HostInv, ProcsOK, Progress, Alone
  <2> QED BY <1>1, <1>10, <2>1 DEF Undisturbed
<1>14. ProcsOK'
  BY <1>10, <1>12, <1>13, ProcStep DEF HostInv
<1> QED BY <1>6, <1>7, <1>8, <1>9, <1>14 DEF HostInv

(* ops upgrade behind its migrations: the index, then the manifest.        *)
LEMMA UpgradeStepKeeps ==
  ASSUME HostInv, NEW p \in Procs, UpgradeStep(p)
  PROVE  HostInv'
<1>1. CASE /\ Does(p, "upgrade", "index") /\ Readable /\ index' = TRUE
           /\ Goes(p, "record") /\ UNCHANGED <<disk, manifest, backups, writes>>
  BY <1>1, IndexStep DEF Does, Readable, Installed
<1>2. CASE /\ Does(p, "upgrade", "record") /\ Releases(p)
           /\ UNCHANGED <<disk, index, backups, writes>>
  BY <1>2, RecordStep DEF Does
<1> QED BY <1>1, <1>2 DEF UpgradeStep

-----------------------------------------------------------------------------
(* The theorems                                                            *)

(* What a host starts from.                                                *)
LEMMA HostInit ==
  ASSUME InstanceAssumption, InstInit
  PROVE  HostInv
<1>1. /\ writes = 0 /\ index = FALSE /\ backups \in {<<>>, <<Foreign>>}
      /\ proc = [p \in Procs |-> Idle]
  BY DEF InstInit
<1>2. MaxWrites + 1 \in Nat
  BY DEF InstanceAssumption
<1>3. BackupsOK
  <2>1. CASE backups = <<>>
    BY <2>1 DEF BackupsOK, IsSeq
  <2>2. CASE backups = <<Foreign>>
    <3>1. DOMAIN backups = {1} /\ backups[1] = Foreign
      BY <2>2
    <3>2. backups \in Seq({Foreign})
      BY <2>2
    <3>3. IsSeq(backups)
      BY <3>1, <3>2 DEF IsSeq
    <3>4. \A s \in Stores : Present(Foreign[s])
      BY <1>2, Contents DEF Foreign
    <3> QED BY <3>1, <3>3, <3>4 DEF BackupsOK
  <2> QED BY <1>1, <2>1, <2>2
<1>4. \A version : Present(Old(version))
  BY Contents DEF Old
<1>5. PICK f : /\ disk = [s \in Stores |-> Clean(f[s])]
               /\ \A s \in Stores : IsContent(f[s])
               /\ \/ manifest = {}
                  \/ /\ manifest = {[release |-> "v0.8", from |-> 0]}
                     /\ \A s \in Stores : f[s] # Missing
  <2>1. CASE manifest = {} /\ disk = [s \in Stores |-> Clean(Missing)]
    <3> PICK f : f = [s \in Stores |-> Missing]
      OBVIOUS
    <3>1. /\ \A s \in Stores : f[s] = Missing
          /\ disk = [s \in Stores |-> Clean(f[s])]
      BY <2>1
    <3> QED BY <2>1, <3>1, Contents
  <2>2. ASSUME NEW version \in {4, 8}, manifest = {},
               disk = [s \in Stores |-> Clean(IF s = "business" THEN Old(version) ELSE Missing)]
        PROVE  \E f : /\ disk = [s \in Stores |-> Clean(f[s])]
                      /\ \A s \in Stores : IsContent(f[s])
    <3> PICK f : f = [s \in Stores |-> IF s = "business" THEN Old(version) ELSE Missing]
      OBVIOUS
    <3>1. /\ \A s \in Stores : f[s] = IF s = "business" THEN Old(version) ELSE Missing
          /\ disk = [s \in Stores |-> Clean(f[s])]
      BY <2>2
    <3> QED BY <1>4, <3>1, Contents DEF Present
  <2>3. ASSUME disk = [s \in Stores |-> Clean(IF s = "business" THEN Old(AtV08) ELSE Empty(0))]
        PROVE  \E f : /\ disk = [s \in Stores |-> Clean(f[s])]
                      /\ \A s \in Stores : IsContent(f[s]) /\ f[s] # Missing
    <3> PICK f : f = [s \in Stores |-> IF s = "business" THEN Old(AtV08) ELSE Empty(0)]
      OBVIOUS
    <3>1. /\ \A s \in Stores : f[s] = IF s = "business" THEN Old(AtV08) ELSE Empty(0)
          /\ disk = [s \in Stores |-> Clean(f[s])]
      BY <2>3
    <3> QED BY <1>4, <3>1, Contents DEF Present
  <2> QED BY <2>1, <2>2, <2>3 DEF InstInit
<1>6. \A s \in Stores : /\ disk[s] = Clean(f[s]) /\ Read(disk[s]) = f[s]
                        /\ IsStore(disk[s]) /\ disk[s].wal = {} /\ disk[s].file = f[s]
  BY <1>5, ReadClean
<1>7. StoresOK
  BY <1>1, <1>5, <1>6, StoreNames DEF StoresOK, Sound, NotBehind
<1>8. ManifestIsLast /\ ReleaseIsReady
  BY <1>5, <1>6 DEF ManifestIsLast, ReleaseIsReady, Installed
<1>9. ProcsOK
  BY <1>1 DEF ProcsOK
<1> QED BY <1>3, <1>7, <1>8, <1>9 DEF HostInv

(* Every step of the host keeps the invariant.                             *)
LEMMA HostNext ==
  ASSUME InstanceAssumption, HostInv, [InstNext]_instvars
  PROVE  HostInv'
<1>1. CASE Reconcile
  BY <1>1, ReconcileStep
<1>2. ASSUME NEW p \in Procs, Service(p)
      PROVE  HostInv'
  BY <1>2, BeginStep, StopStep, WriteStep DEF Service
<1>3. ASSUME NEW p \in Procs, Step(p)
      PROVE  HostInv'
  BY <1>3, InitStepKeeps, SnapshotStep, PublishStep, RestoreStepKeeps, MigrateStepKeeps,
     EndMigrateStep, UpgradeStepKeeps DEF Step
<1>4. ASSUME NEW p \in Procs, Begin(p) \/ FailInit(p) \/ Fail(p)
      PROVE  HostInv'
  BY <1>4, BeginStep, FailInitStep, FailStep
<1>5. CASE UNCHANGED instvars
  <2>1. UNCHANGED <<disk, index, manifest, backups, writes, proc>>
    BY <1>5 DEF instvars
  <2>2. StoresOK' /\ BackupsOK'
    BY <2>1, SameStores
  <2>3. ManifestIsLast' /\ ReleaseIsReady'
    BY <2>1 DEF HostInv, ManifestIsLast, ReleaseIsReady, Ready, Readable, Installed, Business
  <2>4. ProcsOK'
    BY <2>1 DEF HostInv, ProcsOK, Shape, Progress, Alone, PutInPlace, Upgraded, RolledBack, Copied,
                Business, Installed, CanRestore, NotBehind
  <2> QED BY <2>2, <2>3, <2>4 DEF HostInv
<1> QED BY <1>1, <1>2, <1>3, <1>4, <1>5 DEF InstNext

(* Type and progress of everything the host does, as one invariant: for    *)
(* every number of processes, of backups and of writes, with ops reconcile *)
(* between any two steps.                                                  *)
THEOREM HostInvariant == InstSpec => []HostInv
<1>1. InstInit => HostInv
  BY HostInit, InstanceAssumption
<1>2. HostInv /\ [InstNext]_instvars => HostInv'
  BY HostNext, InstanceAssumption
<1> QED BY <1>1, <1>2, PTL DEF InstSpec

(* A manifest stands for an instance with all its stores, wherever init,   *)
(* restore or upgrade was cut off (manifest.py: written last).             *)
THEOREM ManifestComesLast == InstSpec => []ManifestIsLast
<1>1. HostInv => ManifestIsLast
  BY DEF HostInv
<1> QED BY <1>1, HostInvariant, PTL

(* A manifest of this release is only there when readiness_state is true   *)
(* of the instance (migrated, indexed, installed), or when a restored file *)
(* is read through the log of the one it replaced.                         *)
THEOREM ReleasesAreReady == InstSpec => []ReleaseIsReady
<1>1. HostInv => ReleaseIsReady
  BY DEF HostInv
<1> QED BY <1>1, HostInvariant, PTL

(* The snapshots of a published backup were taken one after another and    *)
(* are, together, what the stores held when the first was taken, whatever  *)
(* ops reconcile has written to the business store meanwhile.              *)
THEOREM BackupsAreOneMoment == InstSpec => BackupIsOneMoment
<1>1. ASSUME HostInv, [InstNext]_instvars
      PROVE  [\A b \in DOMAIN backups' \ DOMAIN backups :
                \E p \in Procs : /\ proc[p] # Idle /\ proc[p].step = "snapshot"
                                 /\ backups'[b] = proc[p].held]_instvars
  <2>1. CASE backups' = backups
    BY <2>1
  <2>2. CASE backups' # backups
    <3>1. \E p \in Procs : Publish(p)
      BY <1>1, <2>2 DEF instvars, InstNext, Reconcile, Service, StartService, StopService, Write,
         Begin, BeginInit, BeginBackup, BeginUpgrade, DbUpgrade, BeginRestore, Step, InitStep,
         Snapshot, RestoreStep, MigrateStep, EndMigrate, UpgradeStep, FailInit, Fail
    <3> QED BY <1>1, <3>1, PublishStep
  <2> QED BY <2>1, <2>2
<1> QED BY <1>1, HostInvariant, PTL DEF InstSpec, BackupIsOneMoment

(* What the service wrote and a restore takes away from an instance, is in *)
(* a backup that was published before; of the runs that ops reconcile      *)
(* interrupts beside the restore, the backup may have fewer.               *)
THEOREM NothingIsOverwritten == InstSpec => OverwritesAreKept
<1>1. ASSUME HostInv, InstNext, manifest # {}, ~Serving, NEW s \in Stores,
             Read(disk'[s]).at # Read(disk[s]).at
      PROVE  \E b \in DOMAIN backups : Since(backups[b][s], Read(disk[s]))
  <2>1. ~Reconcile
    BY <1>1, ReconcileStep
  <2>2. PICK p \in Procs : Service(p) \/ Begin(p) \/ Step(p) \/ FailInit(p) \/ Fail(p)
    BY <1>1, <2>1 DEF InstNext
  <2>3. ~Service(p)
    <3>1. \A x \in Stores, closes \in BOOLEAN : ~Write(p, x, closes)
      BY <1>1 DEF Write, Does, Serving
    <3>2. ~StopService(p)
      BY <1>1, StopStep
    <3> QED BY <1>1, <3>1, <3>2 DEF Service, StartService
  <2>4. ~Begin(p) /\ ~Fail(p)
    BY <1>1 DEF Begin, BeginInit, BeginBackup, BeginUpgrade, DbUpgrade, BeginRestore, Fail
  <2>5. ~FailInit(p) /\ ~InitStep(p)
    <3>1. proc[p].op = "init" => proc[p] # Idle /\ Alone(proc[p])
      BY <1>1 DEF HostInv, ProcsOK, Progress, Idle
    <3>2. proc[p].op # "init"
      BY <1>1, <3>1 DEF Alone
    <3> QED BY <1>1, <3>2 DEF FailInit, InitStep, Does
  <2>6. ~MigrateStep(p)
    BY <1>1, MigrateStepKeeps DEF HostInv, ManifestIsLast
  <2>7. RestoreStep(p)
    BY <1>1, <2>2, <2>3, <2>4, <2>5, <2>6 DEF Step, Snapshot, Publish, EndMigrate, UpgradeStep
  <2>8. PICK x \in Stores : Does(p, "restore", x) /\ \E d : disk' = [disk EXCEPT ![x] = d]
    BY <1>1, <2>7 DEF RestoreStep
  <2>9. s = x
    BY <1>1, <2>8 DEF HostInv, StoresOK
  <2>10. ~Placed(s, s) /\ s # "snapshot"
    BY StoreNames DEF Placed
  <2>11. PICK t : t = proc[p] /\ t # Idle /\ t.op = "restore" /\ t.step = s /\ RolledBack(t)
    BY <1>1, <2>8, <2>9 DEF Does, HostInv, ProcsOK, Progress
  <2> QED BY <1>1, <2>10, <2>11 DEF RolledBack
<1>2. HostInv /\ [InstNext]_instvars =>
        [\A s \in Stores :
           manifest # {} /\ Read(disk'[s]).at # Read(disk[s]).at /\ ~Serving
             => \E b \in DOMAIN backups : Since(backups[b][s], Read(disk[s]))]_instvars
  BY <1>1
<1> QED BY <1>2, HostInvariant, PTL DEF InstSpec, OverwritesAreKept

-----------------------------------------------------------------------------
(* What the migrations do to the rows                                      *)

(* Sets of which one is strictly within the other.                         *)
LEMMA StrictlySmaller ==
  ASSUME NEW S, NEW T, IsFiniteSet(T), S \subseteq T, S # T
  PROVE  /\ Cardinality(S) \in Nat /\ Cardinality(T) \in Nat
         /\ Cardinality(S) < Cardinality(T)
<1>1. /\ IsFiniteSet(S) /\ Cardinality(S) <= Cardinality(T)
      /\ Cardinality(T) = Cardinality(S) => S = T
  BY FS_Subset
<1>2. Cardinality(S) \in Nat /\ Cardinality(T) \in Nat
  BY <1>1, FS_CardinalityType
<1> QED BY <1>1, <1>2

Before(events, e) == {f \in events : ComesBefore(f, e)}
Rank(events, e) == 1 + Cardinality(Before(events, e))

(* The order of the backfill is total, so an event has every event before  *)
(* it that an earlier one has, and the earlier one.                        *)
LEMMA RanksRise ==
  ASSUME NEW events, IsEvents(events), NEW e \in events, NEW f \in events
  PROVE  /\ Rank(events, e) \in 1..Cardinality(events)
         /\ ComesBefore(e, f) => Rank(events, e) < Rank(events, f)
         /\ e # f => ComesBefore(e, f) \/ ComesBefore(f, e)
<1>1. \A g \in events : g.id \in Int /\ g.step \in Int /\ g.at \in Int
  BY DEF IsEvents
<1>2. ~ComesBefore(e, e)
  BY <1>1 DEF ComesBefore
<1>3. Before(events, e) \subseteq events /\ e \notin Before(events, e)
  BY <1>2 DEF Before
<1>4. /\ Cardinality(Before(events, e)) \in Nat /\ Cardinality(events) \in Nat
      /\ Cardinality(Before(events, e)) < Cardinality(events)
  BY <1>3, StrictlySmaller DEF IsEvents
<1>5. ASSUME ComesBefore(e, f)
      PROVE  Rank(events, e) < Rank(events, f)
  <2>1. Before(events, e) \subseteq Before(events, f)
    BY <1>1, <1>5 DEF Before, ComesBefore
  <2>2. e \in Before(events, f)
    BY <1>5 DEF Before
  <2>3. IsFiniteSet(Before(events, f))
    BY FS_Subset DEF Before, IsEvents
  <2>4. /\ Cardinality(Before(events, e)) \in Nat /\ Cardinality(Before(events, f)) \in Nat
        /\ Cardinality(Before(events, e)) < Cardinality(Before(events, f))
    BY <1>3, <2>1, <2>2, <2>3, StrictlySmaller
  <2> QED BY <2>4 DEF Rank
<1>6. e # f => ComesBefore(e, f) \/ ComesBefore(f, e)
  BY <1>1 DEF ComesBefore, IsEvents
<1> QED BY <1>4, <1>5, <1>6 DEF Rank

(* A set of n events is numbered 1 .. n.                                   *)
LEMMA RanksAreAll ==
  ASSUME NEW events, IsEvents(events)
  PROVE  {Rank(events, e) : e \in events} = 1..Cardinality(events)
<1> DEFINE n == Cardinality(events)
           ranks == [e \in events |-> Rank(events, e)]
<1>1. n \in Nat /\ IsFiniteSet(events)
  BY FS_CardinalityType DEF IsEvents
<1>2. ranks \in [events -> 1..n]
  BY RanksRise
<1>3. \A e, f \in events : ranks[e] = ranks[f] => e = f
  <2> SUFFICES ASSUME NEW e \in events, NEW f \in events, e # f, ranks[e] = ranks[f]
               PROVE  FALSE
    OBVIOUS
  <2>1. Rank(events, e) = Rank(events, f) /\ Rank(events, e) \in Int
    BY RanksRise
  <2>2. Rank(events, e) < Rank(events, f) \/ Rank(events, f) < Rank(events, e)
    BY RanksRise
  <2> QED BY <2>1, <2>2
<1>4. ranks \in Injection(events, 1..n)
  BY <1>2, <1>3 DEF Injection, IsInjective
<1>5. IsFiniteSet(1..n) /\ Cardinality(1..n) = n
  BY <1>1, FS_Interval
<1>6. ranks \in Surjection(events, 1..n)
  BY <1>4, <1>5, FS_Injection
<1>7. \A i \in 1..n : \E e \in events : ranks[e] = i
  BY <1>6 DEF Surjection
<1>8. \A e \in events : ranks[e] = Rank(events, e) /\ ranks[e] \in 1..n
  BY <1>2
<1> HIDE DEF n, ranks
<1>9. {Rank(events, e) : e \in events} = 1..n
  BY <1>7, <1>8
<1> QED BY <1>9 DEF n

(* The backfill of v0.7 keeps the events of a case and their order, and    *)
(* leaves no gap in their numbers.                                         *)
LEMMA NumberedKeeps ==
  ASSUME NEW events, IsEvents(events)
  PROVE  EventsNumbered(events, Numbered(events))
<1> DEFINE With(e) == [e EXCEPT !.seq = Rank(events, e)]
           new == Numbered(events)
<1>1. new = {With(e) : e \in events}
  BY DEF Numbered, Rank, Before
<1>2. \A e \in events : /\ With(e).seq = Rank(events, e) /\ With(e).step = e.step
                        /\ [With(e) EXCEPT !.seq = NoSeq] = e /\ [e EXCEPT !.seq = NoSeq] = e
  <2> TAKE e \in events
  <2>1. /\ DOMAIN e = {"id", "step", "at", "seq"} /\ e.seq = NoSeq
        /\ e = [x \in DOMAIN e |-> e[x]]
    BY DEF IsEvents
  <2>2. With(e).seq = Rank(events, e) /\ With(e).step = e.step
    BY <2>1
  <2>3. [With(e) EXCEPT !.seq = NoSeq] = e /\ [e EXCEPT !.seq = NoSeq] = e
    BY <2>1
  <2> QED BY <2>2, <2>3
<1> HIDE DEF With, new
<1>3. {[e EXCEPT !.seq = NoSeq] : e \in new} = {[e EXCEPT !.seq = NoSeq] : e \in events}
  BY <1>1, <1>2
<1>4. {e.seq : e \in new} = 1..Cardinality(events)
  <2>1. {e.seq : e \in new} = {Rank(events, e) : e \in events}
    BY <1>1, <1>2
  <2> QED BY <2>1, RanksAreAll
<1>5. ASSUME NEW e \in new, NEW f \in new, e.step < f.step
      PROVE  e.seq < f.seq
  <2>1. PICK d \in events : e = With(d)
    BY <1>1
  <2>2. PICK g \in events : f = With(g)
    BY <1>1
  <2>3. ComesBefore(d, g)
    BY <1>2, <1>5, <2>1, <2>2 DEF ComesBefore
  <2>4. Rank(events, d) < Rank(events, g)
    BY <2>3, RanksRise
  <2> QED BY <1>2, <2>1, <2>2, <2>4
<1> QED BY <1>3, <1>4, <1>5 DEF EventsNumbered, new

Newer(c, t) == {u \in Bound(c) : c[u].order = c[t].order /\ IsNewer(c, u, t)}

(* The tasks of an order are in a total order, newest first, and their     *)
(* positions follow it.                                                    *)
LEMMA PositionsFall ==
  ASSUME NEW c, IsConversations(c), NEW t \in Bound(c), NEW u \in Bound(c),
         c[t].order = c[u].order
  PROVE  /\ Position(c, t) \in Nat \ {0}
         /\ Position(c, t) = 1 <=> Newer(c, t) = {}
         /\ IsNewer(c, t, u) => Position(c, t) < Position(c, u)
         /\ t # u => IsNewer(c, t, u) \/ IsNewer(c, u, t)
<1>1. \A v \in Bound(c) : v \in Int /\ c[v].at \in Int /\ v \in DOMAIN c
  BY DEF IsConversations, Bound
<1>2. IsFiniteSet(Bound(c))
  BY FS_Subset DEF IsConversations, Bound
<1>3. \A v \in Bound(c) : IsFiniteSet(Newer(c, v)) /\ Cardinality(Newer(c, v)) \in Nat
  <2> TAKE v \in Bound(c)
  <2>1. Newer(c, v) \in SUBSET Bound(c)
    BY DEF Newer
  <2>2. IsFiniteSet(Newer(c, v))
    BY <1>2, <2>1, FS_Subset
  <2> QED BY <2>2, FS_CardinalityType
<1>4. \A v \in Bound(c) : Position(c, v) = 1 + Cardinality(Newer(c, v))
  BY DEF Position, Newer
<1>5. Position(c, t) = 1 <=> Newer(c, t) = {}
  BY <1>3, <1>4, FS_EmptySet
<1>6. ASSUME IsNewer(c, t, u)
      PROVE  Position(c, t) < Position(c, u)
  <2>1. Newer(c, t) \subseteq Newer(c, u)
    BY <1>1, <1>6 DEF Newer, IsNewer
  <2>2. t \in Newer(c, u) /\ t \notin Newer(c, t)
    BY <1>1, <1>6 DEF Newer, IsNewer
  <2>3. Cardinality(Newer(c, t)) < Cardinality(Newer(c, u))
    BY <1>3, <2>1, <2>2, StrictlySmaller
  <2> QED BY <1>3, <1>4, <2>3
<1>7. t # u => IsNewer(c, t, u) \/ IsNewer(c, u, t)
  BY <1>1 DEF IsNewer
<1> QED BY <1>3, <1>4, <1>5, <1>6, <1>7

(* Every order with a task has one that no other is newer than.            *)
LEMMA NewestExists ==
  ASSUME NEW c, IsConversations(c), NEW u \in Bound(c)
  PROVE  \E t \in Bound(c) : c[t].order = c[u].order /\ Position(c, t) = 1
<1> DEFINE Tasks == {t \in Bound(c) : c[t].order = c[u].order}
           Positions == {Position(c, t) : t \in Tasks}
<1>1. \A t \in Tasks : Position(c, t) \in Nat
  BY PositionsFall
<1>2. Position(c, u) \in Positions /\ Positions \subseteq Nat
  BY <1>1
<1>3. PICK n \in Positions : \A k \in Positions : ~ (<<k, n>> \in OpToRel(<, Nat))
  <2> HIDE DEF Positions
  <2>1. Positions # {}
    BY <1>2
  <2> QED BY <1>2, <2>1, NatLessThanWellFounded, WFMin
<1>4. \A k \in Positions : ~ (k < n)
  BY <1>2, <1>3 DEF OpToRel
<1>5. PICK t \in Tasks : n = Position(c, t)
  OBVIOUS
<1>6. Newer(c, t) = {}
  <2> SUFFICES ASSUME NEW v \in Newer(c, t) PROVE FALSE
    OBVIOUS
  <2>1. v \in Bound(c) /\ c[v].order = c[t].order /\ IsNewer(c, v, t)
    BY DEF Newer
  <2>2. Position(c, v) < Position(c, t)
    BY <2>1, PositionsFall
  <2>3. Position(c, v) \in Positions
    BY <2>1
  <2> QED BY <1>4, <1>5, <2>2, <2>3
<1>7. Position(c, t) = 1
  BY <1>6, PositionsFall
<1> QED BY <1>7

(* v2.0 archives registered tasks only: those without an order and those   *)
(* beside a newer one of the same order.                                   *)
LEMMA OneTaskKeeps ==
  ASSUME NEW c, IsConversations(c)
  PROVE  ConversationsKept(c, OneTask(c))
<1> DEFINE new == OneTask(c)
<1>1. DOMAIN new = DOMAIN c
  BY DEF OneTask
<1>2. \A t \in DOMAIN c :
        /\ new[t].active = (c[t].active /\ KeptActive(c, t))
        /\ new[t].guest = c[t].guest /\ new[t].order = c[t].order /\ new[t].at = c[t].at
        /\ [new[t] EXCEPT !.active = c[t].active] = c[t]
  <2> TAKE t \in DOMAIN c
  <2>1. /\ DOMAIN c[t] = {"guest", "order", "active", "at"}
        /\ c[t] = [x \in DOMAIN c[t] |-> c[t][x]]
    BY DEF IsConversations
  <2>2. new[t] = [c[t] EXCEPT !.active = c[t].active /\ KeptActive(c, t)]
    BY DEF OneTask
  <2> HIDE DEF new
  <2>3. PICK kept : kept = (c[t].active /\ KeptActive(c, t))
    OBVIOUS
  <2>4. new[t] = [c[t] EXCEPT !.active = kept]
    BY <2>2, <2>3
  <2>5. /\ new[t].active = kept
        /\ new[t].guest = c[t].guest /\ new[t].order = c[t].order /\ new[t].at = c[t].at
    BY <2>1, <2>4
  <2>6. [new[t] EXCEPT !.active = c[t].active] = c[t]
    BY <2>1, <2>4
  <2> QED BY <2>3, <2>5, <2>6
<1>3. \A t \in DOMAIN c : c[t].guest \in BOOLEAN /\ c[t].active \in BOOLEAN
  BY DEF IsConversations
<1>4. \A t : t \in Bound(new) <=>
               /\ t \in DOMAIN c /\ ~c[t].guest /\ c[t].active /\ c[t].order # NoOrder
               /\ Position(c, t) = 1
  BY <1>1, <1>2, <1>3 DEF Bound, KeptActive
<1>5. \A t : t \in Bound(new) <=> t \in Bound(c) /\ Position(c, t) = 1
  BY <1>4 DEF Bound
<1> HIDE DEF new
<1>6. \A t \in DOMAIN c : c[t].guest => new[t].active = c[t].active
  BY <1>2, <1>3 DEF KeptActive
<1>7. ASSUME NEW t \in Bound(new), NEW u \in Bound(c) \ {t}, c[u].order = c[t].order
      PROVE  ~new[u].active /\ t \in Bound(c) /\ c[u].at <= c[t].at
  <2>1. t \in Bound(c) /\ Position(c, t) = 1
    BY <1>5
  <2>2. Newer(c, t) = {}
    BY <2>1, PositionsFall
  <2>3. ~IsNewer(c, u, t)
    BY <1>7, <2>2 DEF Newer
  <2>4. IsNewer(c, t, u)
    BY <1>7, <2>1, <2>3, PositionsFall
  <2>5. Position(c, u) # 1
    BY <1>7, <2>1, <2>4, PositionsFall
  <2>6. ~new[u].active
    BY <1>2, <2>5 DEF KeptActive, Bound
  <2>7. c[u].at <= c[t].at
    BY <2>1, <2>3 DEF IsNewer, IsConversations, Bound
  <2> QED BY <2>1, <2>6, <2>7
<1>8. \A u \in Bound(c) : \E t \in Bound(new) : c[t].order = c[u].order
  BY <1>5, NewestExists
<1>9. \A t \in DOMAIN new : new[t].active /\ ~new[t].guest => new[t].order # NoOrder
  BY <1>1, <1>2, <1>3 DEF KeptActive
<1> QED BY <1>1, <1>2, <1>6, <1>7, <1>8, <1>9 DEF ConversationsKept, new

-----------------------------------------------------------------------------
(* The rows of an older release, through every migration                   *)

\* The events with the numbers revision 5 gives them.
Backfilled == [k \in DOMAIN OldRows.events |-> Numbered(OldRows.events[k])]

\* The conversations of an older release, some of which ops reconcile has renewed.
Renewals(start, late) ==
  [t \in DOMAIN RowsAt(start).conversations |->
     IF t \in late THEN [RowsAt(start).conversations[t] EXCEPT !.at = Today]
     ELSE RowsAt(start).conversations[t]]

\* What a database that began at a release holds at a version.
RowsFrom(start, late, version) ==
  [conversations |-> IF version = 9 THEN OneTask(Renewals(start, late)) ELSE Renewals(start, late),
   events |-> IF version >= 5 THEN Backfilled ELSE OldRows.events]

Kept(rows, version) ==
  rows = NoRows \/ \E start \in {4, 8}, late \in SUBSET OldRuns : rows = RowsFrom(start, late, version)

Holds(c) ==
  /\ DOMAIN c.schema = {"version", "left"}
  /\ c.schema.version \in 0..9 /\ c.schema.left \in Nat
  /\ Kept(c.rows, c.schema.version)

StoreHolds(d) == Holds(d.file) /\ \A w \in d.wal : Holds(w.as) /\ Holds(w.now)

\* Whatever a connection or a restore may find in the business store.
FilesHold ==
  /\ StoreHolds(disk["business"])
  /\ \A b \in DOMAIN backups : Holds(backups[b]["business"])

\* Whatever a backup that is not yet published may hold of it.
HeldOK(t) == t # Idle /\ t.step = "snapshot" /\ Len(t.copy) > 0 => Holds(t.held["business"])

RowsInv == FilesHold /\ \A p \in Procs : HeldOK(proc[p])

(* The databases that no migration has touched, and the mixed ones.        *)
LEMMA PlainHolds ==
  /\ Holds(Missing) /\ Holds(Malformed)
  /\ \A at : Holds(Empty(at))
  /\ \A c : Holds(c) => Holds(Mixture(c.schema))
BY DEF Holds, Kept, Missing, Malformed, Mixture, Empty, Content, Schema, HeadRevision, Revisions

(* What a table of conversations is made of.                               *)
LEMMA ConversationsAre ==
  ASSUME NEW c, IsConversations(c)
  PROVE  /\ IsFiniteSet(DOMAIN c) /\ DOMAIN c \subseteq Int /\ c = [t \in DOMAIN c |-> c[t]]
         /\ \A t \in DOMAIN c :
              /\ DOMAIN c[t] = {"guest", "order", "active", "at"}
              /\ c[t] = [x \in DOMAIN c[t] |-> c[t][x]]
              /\ c[t].guest \in BOOLEAN /\ c[t].active \in BOOLEAN /\ c[t].at \in Int
<1>1. c \in [DOMAIN c -> [guest : BOOLEAN, order : {c[t].order : t \in DOMAIN c},
                         active : BOOLEAN, at : Int]]
  BY DEF IsConversations
<1>2. \A t \in DOMAIN c : c[t] \in [guest : BOOLEAN, order : {c[u].order : u \in DOMAIN c},
                                   active : BOOLEAN, at : Int]
  BY <1>1
<1>3. \A t \in DOMAIN c :
        /\ DOMAIN c[t] = {"guest", "order", "active", "at"}
        /\ c[t] = [x \in DOMAIN c[t] |-> c[t][x]]
        /\ c[t].guest \in BOOLEAN /\ c[t].active \in BOOLEAN /\ c[t].at \in Int
  BY <1>2
<1>4. c = [t \in DOMAIN c |-> c[t]]
  BY <1>1
<1> QED BY <1>3, <1>4 DEF IsConversations

LEMMA AreConversations ==
  ASSUME NEW c, IsFiniteSet(DOMAIN c), DOMAIN c \subseteq Int, c = [t \in DOMAIN c |-> c[t]],
         \A t \in DOMAIN c :
           /\ DOMAIN c[t] = {"guest", "order", "active", "at"}
           /\ c[t] = [x \in DOMAIN c[t] |-> c[t][x]]
           /\ c[t].guest \in BOOLEAN /\ c[t].active \in BOOLEAN /\ c[t].at \in Int
  PROVE  IsConversations(c)
<1> DEFINE orders == {c[t].order : t \in DOMAIN c}
<1>1. \A t \in DOMAIN c : c[t].order \in orders
  OBVIOUS
<1> HIDE DEF orders
<1>2. \A t \in DOMAIN c : c[t] \in [guest : BOOLEAN, order : orders, active : BOOLEAN, at : Int]
  <2> SUFFICES ASSUME NEW t \in DOMAIN c
               PROVE  c[t] \in [guest : BOOLEAN, order : orders, active : BOOLEAN, at : Int]
    OBVIOUS
  <2> PICK r : r = c[t]
    OBVIOUS
  <2>1. /\ DOMAIN r = {"guest", "order", "active", "at"} /\ r = [x \in DOMAIN r |-> r[x]]
        /\ r.guest \in BOOLEAN /\ r.active \in BOOLEAN /\ r.at \in Int /\ r.order \in orders
    BY <1>1
  <2>2. r = [guest |-> r.guest, order |-> r.order, active |-> r.active, at |-> r.at]
    BY ONLY <2>1
  <2>3. r \in [guest : BOOLEAN, order : orders, active : BOOLEAN, at : Int]
    BY ONLY <2>1, <2>2
  <2> QED BY <2>3
<1>3. c \in [DOMAIN c -> [guest : BOOLEAN, order : orders, active : BOOLEAN, at : Int]]
  BY ONLY <1>2, c = [t \in DOMAIN c |-> c[t]]
<1> QED BY <1>3 DEF IsConversations, orders

(* Before revision 6 no conversation has an order.                         *)
LEMMA OldRowsAre ==
  /\ RowsAt(5).conversations = RowsAt(4).conversations
  /\ \A start \in {4, 8} :
       LET c == RowsAt(start).conversations
       IN IsConversations(c) /\ c = [t \in DOMAIN c |-> c[t]]
<1> PICK c : c = OldRows.conversations
  OBVIOUS
<1> PICK d : d = [t \in DOMAIN c |-> [c[t] EXCEPT !.order = NoOrder]]
  OBVIOUS
<1>1. IsConversations(c)
  BY RowsAssumption DEF IsRows
<1>2. /\ RowsAt(4).conversations = d /\ RowsAt(5).conversations = d
      /\ RowsAt(8).conversations = c
  BY DEF RowsAt
<1>3. /\ IsFiniteSet(DOMAIN c) /\ DOMAIN c \subseteq Int /\ c = [t \in DOMAIN c |-> c[t]]
      /\ \A t \in DOMAIN c :
           /\ DOMAIN c[t] = {"guest", "order", "active", "at"}
           /\ c[t] = [x \in DOMAIN c[t] |-> c[t][x]]
           /\ c[t].guest \in BOOLEAN /\ c[t].active \in BOOLEAN /\ c[t].at \in Int
  BY <1>1, ConversationsAre
<1>4. IsConversations(d) /\ d = [t \in DOMAIN d |-> d[t]]
  <2>1. DOMAIN d = DOMAIN c /\ d = [t \in DOMAIN d |-> d[t]]
    OBVIOUS
  <2>2. \A t \in DOMAIN d : d[t] = [c[t] EXCEPT !.order = NoOrder]
    OBVIOUS
  <2>3. \A t \in DOMAIN d :
          /\ DOMAIN d[t] = {"guest", "order", "active", "at"}
          /\ d[t] = [x \in DOMAIN d[t] |-> d[t][x]]
          /\ d[t].guest \in BOOLEAN /\ d[t].active \in BOOLEAN /\ d[t].at \in Int
    BY ONLY <1>3, <2>1, <2>2
  <2>4. IsConversations(d)
    BY ONLY <1>3, <2>1, <2>3, AreConversations
  <2> QED BY <2>1, <2>4
<1> QED BY <1>1, <1>2, <1>3, <1>4

(* Renewed conversations are those of the older release, at their times.   *)
LEMMA RenewalsAre ==
  ASSUME NEW start \in {4, 8}, NEW late, NEW c, NEW r,
         c = RowsAt(start).conversations, r = Renewals(start, late)
  PROVE  /\ IsConversations(r) /\ DOMAIN r = DOMAIN c /\ r = [t \in DOMAIN c |-> r[t]]
         /\ \A t \in DOMAIN c : /\ DOMAIN c[t] = {"guest", "order", "active", "at"}
                                /\ r[t] = IF t \in late THEN [c[t] EXCEPT !.at = Today] ELSE c[t]
                                /\ r[t] = [c[t] EXCEPT !.at = r[t].at]
<1>1. IsConversations(c)
  BY OldRowsAre
<1>2. \A t \in DOMAIN c :
        /\ DOMAIN c[t] = {"guest", "order", "active", "at"}
        /\ c[t] = [x \in DOMAIN c[t] |-> c[t][x]]
        /\ c[t].guest \in BOOLEAN /\ c[t].active \in BOOLEAN /\ c[t].at \in Int
  BY <1>1, ConversationsAre
<1>3. /\ DOMAIN r = DOMAIN c /\ r = [t \in DOMAIN c |-> r[t]]
      /\ \A t \in DOMAIN c : r[t] = IF t \in late THEN [c[t] EXCEPT !.at = Today] ELSE c[t]
  BY DEF Renewals
<1>4. \A t \in DOMAIN c :
        /\ DOMAIN r[t] = {"guest", "order", "active", "at"}
        /\ r[t] = [x \in DOMAIN r[t] |-> r[t][x]]
        /\ r[t].guest = c[t].guest /\ r[t].order = c[t].order /\ r[t].active = c[t].active
        /\ r[t].at = IF t \in late THEN Today ELSE c[t].at
        /\ r[t] = [c[t] EXCEPT !.at = r[t].at]
  <2> TAKE t \in DOMAIN c
  <2>1. CASE t \in late
    <3>1. r[t] = [c[t] EXCEPT !.at = Today]
      BY <1>3, <2>1
    <3> QED BY <1>2, <2>1, <3>1
  <2>2. CASE t \notin late
    <3>1. r[t] = c[t]
      BY <1>3, <2>2
    <3> QED BY <1>2, <2>2, <3>1
  <2> QED BY <2>1, <2>2
<1>5. IsConversations(r)
  <2>1. /\ IsFiniteSet(DOMAIN r) /\ DOMAIN r \subseteq Int /\ r = [t \in DOMAIN r |-> r[t]]
    BY <1>1, <1>3, ConversationsAre
  <2>2. \A t \in DOMAIN r :
          /\ DOMAIN r[t] = {"guest", "order", "active", "at"}
          /\ r[t] = [x \in DOMAIN r[t] |-> r[t][x]]
          /\ r[t].guest \in BOOLEAN /\ r[t].active \in BOOLEAN /\ r[t].at \in Int
    BY <1>2, <1>3, <1>4, RowsAssumption
  <2> QED BY <2>1, <2>2, AreConversations
<1> QED BY <1>2, <1>3, <1>4, <1>5

(* Without any that is renewed they are as they were.                      *)
LEMMA NotRenewed ==
  ASSUME NEW start \in {4, 8}
  PROVE  Renewals(start, {}) = RowsAt(start).conversations
<1> PICK c, r : c = RowsAt(start).conversations /\ r = Renewals(start, {})
  OBVIOUS
<1>0. /\ r = [t \in DOMAIN c |-> r[t]]
      /\ \A t \in DOMAIN c : r[t] = IF t \in {} THEN [c[t] EXCEPT !.at = Today] ELSE c[t]
  BY DEF Renewals
<1>1. r = [t \in DOMAIN c |-> r[t]] /\ \A t \in DOMAIN c : r[t] = c[t]
  BY <1>0
<1>2. c = [t \in DOMAIN c |-> c[t]]
  BY OldRowsAre
<1> QED BY <1>1, <1>2

(* ops reconcile renews one more, and nothing else.                        *)
LEMMA RenewedKeeps ==
  ASSUME NEW version \in 0..8, NEW rows, Kept(rows, version), NEW t \in OldRuns
  PROVE  Kept(Renewed(rows, t), version)
<1>1. CASE rows = NoRows
  <2>1. Renewed(rows, t) = NoRows
    BY <1>1 DEF Renewed, NoRows
  <2> QED BY <2>1 DEF Kept
<1>2. ASSUME NEW start \in {4, 8}, NEW late \in SUBSET OldRuns,
             rows = RowsFrom(start, late, version)
      PROVE  Kept(Renewed(rows, t), version)
  <2> PICK c, r, n, more : /\ c = RowsAt(start).conversations /\ r = Renewals(start, late)
                           /\ more = late \cup {t} /\ n = Renewals(start, more)
    OBVIOUS
  <2>1. /\ DOMAIN r = DOMAIN c
        /\ \A u \in DOMAIN c : DOMAIN c[u] = {"guest", "order", "active", "at"}
        /\ \A u \in DOMAIN c : r[u] = IF u \in late THEN [c[u] EXCEPT !.at = Today] ELSE c[u]
    BY OldRowsAre, ConversationsAre DEF Renewals
  <2>2. /\ n = [u \in DOMAIN c |-> n[u]]
        /\ \A u \in DOMAIN c : n[u] = IF u \in more THEN [c[u] EXCEPT !.at = Today] ELSE c[u]
    BY DEF Renewals
  <2> PICK m : m = [u \in DOMAIN r |-> IF u = t THEN [r[u] EXCEPT !.at = Today] ELSE r[u]]
    OBVIOUS
  <2>3. \A u \in DOMAIN c : m[u] = n[u]
    <3> TAKE u \in DOMAIN c
    <3>1. CASE u = t /\ t \in late
      <4>1. r[u] = [c[u] EXCEPT !.at = Today] /\ m[u] = [r[u] EXCEPT !.at = Today]
        BY <2>1, <3>1
      <4>2. [r[u] EXCEPT !.at = Today] = r[u]
        BY <2>1, <4>1
      <4> QED BY <2>2, <3>1, <4>1, <4>2
    <3>2. CASE u = t /\ t \notin late
      BY <2>1, <2>2, <3>2
    <3>3. CASE u # t
      BY <2>1, <2>2, <3>3
    <3> QED BY <3>1, <3>2, <3>3
  <2>4. m = n
    <3>1. m = [u \in DOMAIN c |-> m[u]]
      BY <2>1
    <3> QED BY ONLY <2>2, <2>3, <3>1
  <2>5. Renewed(rows, t) = RowsFrom(start, more, version)
    <3>1. DOMAIN rows = {"conversations", "events"} /\ rows.conversations = r
      BY <1>2 DEF RowsFrom
    <3>2. Renewed(rows, t) = [rows EXCEPT !.conversations = m]
      BY <3>1 DEF Renewed
    <3>3. [rows EXCEPT !.conversations = m] = [conversations |-> m, events |-> rows.events]
      BY <3>1, <1>2 DEF RowsFrom
    <3>4. RowsFrom(start, more, version) = [conversations |-> n, events |-> rows.events]
      BY <1>2 DEF RowsFrom
    <3> QED BY <2>4, <3>2, <3>3, <3>4
  <2>6. more \in SUBSET OldRuns
    OBVIOUS
  <2> QED BY <2>5, <2>6 DEF Kept
<1> QED BY <1>1, <1>2 DEF Kept

(* The two revisions that rewrite rows; empty tables stay empty.           *)
LEMMA RowsAfterIs ==
  ASSUME NEW version \in 0..8, NEW rows, Kept(rows, version)
  PROVE  Kept(RowsAfter(version + 1, rows), version + 1)
<1>1. CASE rows = NoRows
  <2>1. DOMAIN <<>> = {} /\ OneTask(<<>>) = <<>>
    BY DEF OneTask
  <2>2. [k \in DOMAIN <<>> |-> Numbered(<<>>[k])] = <<>>
    OBVIOUS
  <2>3. RowsAfter(version + 1, NoRows) = NoRows
    BY <2>1, <2>2 DEF RowsAfter, NoRows
  <2> QED BY <1>1, <2>3 DEF Kept
<1>2. ASSUME NEW start \in {4, 8}, NEW late \in SUBSET OldRuns,
             rows = RowsFrom(start, late, version)
      PROVE  Kept(RowsAfter(version + 1, rows), version + 1)
  <2>1. RowsAfter(version + 1, rows) = RowsFrom(start, late, version + 1)
    <3>1. CASE version + 1 = 5
      BY <1>2, <3>1 DEF RowsAfter, RowsFrom, Backfilled
    <3>2. CASE version + 1 = 9
      BY <1>2, <3>2 DEF RowsAfter, RowsFrom
    <3>3. CASE version + 1 # 5 /\ version + 1 # 9
      BY <1>2, <3>3 DEF RowsAfter, RowsFrom
    <3> QED BY <3>1, <3>2, <3>3
  <2> QED BY <2>1 DEF Kept
<1> QED BY <1>1, <1>2 DEF Kept

(* A connection finds what one of the files of the store holds.            *)
LEMMA ReadHolds ==
  ASSUME NEW d, IsStore(d), StoreHolds(d)
  PROVE  Holds(Read(d))
BY ReadOf DEF StoreHolds

LEMMA CleanHolds ==
  ASSUME NEW c, Holds(c)
  PROVE  StoreHolds(Clean(c))
BY DEF StoreHolds, Clean

LEMMA LoggedHolds ==
  ASSUME NEW d, IsStore(d), StoreHolds(d), NEW c, Present(c), Holds(c)
  PROVE  StoreHolds(Logged(d, c))
<1> PICK e, w : e = Logged(d, c) /\ w = [on |-> d.file, as |-> c, now |-> c]
  OBVIOUS
<1>1. e.file = d.file /\ e.wal = {w} /\ w.as = c /\ w.now = c
  BY DEF Logged, IsStore
<1> QED BY <1>1 DEF StoreHolds

(* What a host may start from.                                             *)
LEMMA RowsInit ==
  ASSUME InstInit
  PROVE  RowsInv
<1>1. Holds(Old(4)) /\ Holds(Old(8)) /\ Holds(Old(AtV08))
  <2>1. \A version \in {4, 5, 8} : /\ DOMAIN Old(version).schema = {"version", "left"}
                                   /\ Old(version).schema.version = version
                                   /\ Old(version).schema.left = 0
                                   /\ Old(version).rows = RowsAt(version)
    BY DEF Old, Content, Schema
  <2>2. RowsAfter(5, OldRows).events = Backfilled
    BY RowsAssumption DEF IsRows, RowsAfter, Backfilled
  <2>3. Renewals(4, {}) = RowsAt(4).conversations /\ Renewals(8, {}) = RowsAt(8).conversations
    BY NotRenewed
  <2>4. /\ RowsAt(4) = RowsFrom(4, {}, 4) /\ RowsAt(5) = RowsFrom(4, {}, 5)
        /\ RowsAt(8) = RowsFrom(8, {}, 8)
    BY <2>2, <2>3, OldRowsAre DEF RowsFrom, RowsAt
  <2>5. {} \in SUBSET OldRuns
    OBVIOUS
  <2>6. Kept(RowsAt(4), 4) /\ Kept(RowsAt(5), 5) /\ Kept(RowsAt(8), 8)
    BY <2>4, <2>5 DEF Kept
  <2> QED BY <2>1, <2>6 DEF Holds, AtV08
<1>2. PICK c : disk["business"] = Clean(c) /\ Holds(c)
  <2>1. CASE disk = [s \in Stores |-> Clean(Missing)]
    BY <2>1, StoreNames, PlainHolds
  <2>2. ASSUME NEW version \in {4, 8},
               disk = [s \in Stores |-> Clean(IF s = "business" THEN Old(version) ELSE Missing)]
        PROVE  \E c : disk["business"] = Clean(c) /\ Holds(c)
    <3>1. disk["business"] = Clean(Old(version)) /\ Holds(Old(version))
      BY <1>1, <2>2, StoreNames
    <3> QED BY <3>1
  <2>3. CASE disk = [s \in Stores |-> Clean(IF s = "business" THEN Old(AtV08) ELSE Empty(0))]
    BY <1>1, <2>3, StoreNames
  <2> QED BY <2>1, <2>2, <2>3 DEF InstInit
<1>3. \A b \in DOMAIN backups : Holds(backups[b]["business"])
  <2>1. CASE backups = <<>>
    BY <2>1
  <2>2. CASE backups = <<Foreign>>
    <3>1. \A b \in DOMAIN backups : backups[b] = Foreign
      BY <2>2
    <3> QED BY <3>1, StoreNames, PlainHolds DEF Foreign
  <2> QED BY <2>1, <2>2 DEF InstInit
<1>4. \A p \in Procs : HeldOK(proc[p])
  BY DEF InstInit, HeldOK
<1> QED BY <1>2, <1>3, <1>4, CleanHolds DEF RowsInv, FilesHold

(* The business store gets another file or log.                            *)
LEMMA BusinessHolds ==
  ASSUME HostInv, RowsInv, NEW c, Present(c), Holds(c),
         NEW e \in {Clean(c), Logged(disk["business"], c)},
         disk' = [disk EXCEPT !["business"] = e], backups' = backups
  PROVE  FilesHold'
<1>1. IsStore(disk["business"]) /\ StoreHolds(disk["business"]) /\ disk'["business"] = e
  BY StoreNames DEF HostInv, StoresOK, RowsInv, FilesHold
<1>2. StoreHolds(e)
  BY <1>1, CleanHolds, LoggedHolds
<1> QED BY <1>1, <1>2 DEF RowsInv, FilesHold, StoreHolds, Holds

(* A run that is interrupted may renew a conversation.                     *)
LEMMA ReconcileHolds ==
  ASSUME HostInv, RowsInv, Reconcile
  PROVE  FilesHold'
<1>1. PICK found, e :
        /\ found \in {Business} \cup Interrupted(Business)
        /\ e \in {Clean(found), Logged(disk["business"], found)}
        /\ disk' = [disk EXCEPT !["business"] = e]
        /\ Present(found) /\ Since(Business, found)
  BY ReconcileIs
<1> PICK c : c = Business
  OBVIOUS
<1>2. IsContent(c) /\ Holds(c)
  BY StoreNames, ReadOf, ReadHolds DEF Business, HostInv, StoresOK, RowsInv, FilesHold
<1>3. Holds(found)
  <2>1. CASE found = c
    BY <1>2, <2>1
  <2>2. CASE found \in Interrupted(c)
    <3>1. PICK rows \in {c.rows} \cup IF Current(c.schema) THEN {}
                                      ELSE {Renewed(c.rows, t) : t \in OldRuns} :
            found = [c EXCEPT !.swept = @ + 1, !.rows = rows]
      BY <2>2 DEF Interrupted
    <3>2. found.schema = c.schema /\ found.rows = rows
      BY <1>2, <3>1 DEF IsContent
    <3>3. Kept(rows, c.schema.version)
      <4>1. CASE rows = c.rows
        BY <1>2, <4>1 DEF Holds
      <4>2. ASSUME ~Current(c.schema), NEW t \in OldRuns, rows = Renewed(c.rows, t)
            PROVE  Kept(rows, c.schema.version)
        <5>1. c.schema.version \in 0..8
          BY <1>2, <4>2 DEF Holds, Current, HeadRevision, Revisions
        <5> QED BY <1>2, <4>2, <5>1, RenewedKeeps DEF Holds
      <4> QED BY <4>1, <4>2
    <3> QED BY <1>2, <3>2, <3>3 DEF Holds
  <2> QED BY <1>1, <2>1, <2>2
<1>4. backups' = backups
  BY DEF Reconcile
<1> QED BY <1>1, <1>3, <1>4, BusinessHolds

(* A migration takes the rows of one version to those of the next.         *)
LEMMA MigrateHolds ==
  ASSUME HostInv, RowsInv, NEW p \in Procs, MigrateStep(p)
  PROVE  FilesHold'
<1> PICK d, found : d = disk["business"] /\ found = Read(d)
  OBVIOUS
<1> PICK next : next = Advanced(found.schema)
  OBVIOUS
<1> PICK rows : rows = IF next.left = 0 THEN RowsAfter(next.version, found.rows) ELSE found.rows
  OBVIOUS
<1> PICK new : new = Content(IF found = Missing THEN 0 ELSE found.at, found.swept, next, rows)
  OBVIOUS
<1> PICK e : e = IF Current(next) \/ Unused(found) THEN Clean(new) ELSE Logged(d, new)
  OBVIOUS
<1>1. disk' = [disk EXCEPT !["business"] = e] /\ backups' = backups /\ ~Current(found.schema)
  <2>1. Business = found
    BY DEF Business
  <2> QED BY <2>1 DEF MigrateStep, HostInv, StoresOK
<1>2. IsContent(found) /\ Holds(found)
  BY StoreNames, ReadOf, ReadHolds DEF HostInv, StoresOK, RowsInv, FilesHold
<1> PICK v, left : v = found.schema.version /\ left = found.schema.left
  OBVIOUS
<1>3. v \in 0..8 /\ left \in Nat
  BY <1>1, <1>2 DEF Holds, Current, HeadRevision, Revisions
<1>4. /\ \/ next.version = v /\ next.left = left + 1
         \/ next.version = v + 1 /\ next.left = 0
      /\ DOMAIN next = {"version", "left"}
  BY <1>2 DEF Holds, Advanced, Schema
<1>5. Kept(rows, next.version)
  <2>1. CASE next.version = v /\ next.left = left + 1
    BY <1>2, <1>3, <2>1 DEF Holds
  <2>2. CASE next.version = v + 1 /\ next.left = 0
    BY <1>2, <1>3, <2>2, RowsAfterIs DEF Holds
  <2> QED BY <1>4, <2>1, <2>2
<1>6. Holds(new) /\ Present(new)
  <2>1. (IF found = Missing THEN 0 ELSE found.at) # -1 /\ found.swept \in Nat
    BY <1>2 DEF IsContent
  <2>2. new.schema = next /\ new.rows = rows
    BY DEF Content
  <2>3. Present(new)
    BY <2>1, Contents
  <2>4. next.version \in 0..9 /\ next.left \in Nat
    BY <1>3, <1>4
  <2> QED BY <1>4, <1>5, <2>2, <2>3, <2>4 DEF Holds
<1> QED BY <1>1, <1>6, BusinessHolds

(* The service writes beside the rows that are followed.                   *)
LEMMA WriteHolds ==
  ASSUME HostInv, RowsInv, NEW p \in Procs, NEW s \in Stores, NEW closes \in BOOLEAN,
         Write(p, s, closes)
  PROVE  FilesHold'
<1>1. CASE s = "business"
  <2> PICK old, d : old = Read(disk[s]) /\ d = disk[s]
    OBVIOUS
  <2> PICK new : new = IF IsMixed(old) THEN old ELSE [old EXCEPT !.at = writes']
    OBVIOUS
  <2>1. /\ disk' = [disk EXCEPT !["business"] = Logged(d, new)]
        /\ writes' \in Nat /\ backups' = backups
        /\ IsContent(old) /\ Holds(old)
    <3>1. disk' = [disk EXCEPT !["business"] = Logged(d, new)] /\ backups' = backups
      BY <1>1 DEF Write
    <3>2. IsStore(d) /\ StoreHolds(d) /\ writes' \in Nat
      BY <1>1 DEF Write, HostInv, StoresOK, RowsInv, FilesHold
    <3> QED BY <3>1, <3>2, ReadOf, ReadHolds
  <2>2. Holds(new) /\ Present(new)
    <3>1. CASE IsMixed(old)
      BY <2>1, <3>1, Contents DEF Present
    <3>2. CASE ~IsMixed(old)
      <4>1. new = [old EXCEPT !.at = writes']
        BY <3>2
      <4>2. /\ DOMAIN new = {"at", "swept", "schema", "rows"} /\ new.at = writes'
            /\ new.schema = old.schema /\ new.rows = old.rows /\ new.swept = old.swept
        BY <2>1, <4>1 DEF IsContent
      <4>3. new.at # -1 /\ Missing.at = -1
        BY <2>1, <4>2 DEF Missing, Content
      <4> QED BY <2>1, <4>2, <4>3 DEF Present, IsContent, Holds
    <3> QED BY <3>1, <3>2
  <2>3. Logged(d, new) \in {Clean(new), Logged(disk["business"], new)}
    BY <1>1
  <2> QED BY <2>1, <2>2, <2>3, BusinessHolds
<1>2. CASE s # "business"
  <2>1. disk'["business"] = disk["business"] /\ backups' = backups
    BY <1>2 DEF Write, HostInv, StoresOK
  <2> QED BY <2>1 DEF RowsInv, FilesHold, StoreHolds, Holds
<1> QED BY <1>1, <1>2

(* A file put beside the log of another one reads as the one or the other, *)
(* or as a mixture without rows to follow.                                 *)
LEMMA ReplacedHolds ==
  ASSUME NEW old, NEW file, StoreHolds(old), Holds(file), IsStore(old), NEW d \in Replaced(old, file)
  PROVE  StoreHolds(d)
<1>1. CASE old.wal = {}
  <2>1. d = Clean(file)
    BY <1>1 DEF Replaced
  <2> QED BY <2>1, CleanHolds
<1>2. CASE old.wal # {}
  <2>1. PICK w \in old.wal : \E c \in Beside(w, file) :
          d = [file |-> file, wal |-> {[w EXCEPT !.now = c]}]
    BY <1>2 DEF Replaced
  <2>2. PICK c \in Beside(w, file) : d = [file |-> file, wal |-> {[w EXCEPT !.now = c]}]
    BY <2>1
  <2> PICK v : v = [w EXCEPT !.now = c]
    OBVIOUS
  <2>3. v.as = w.as /\ v.now = c /\ Holds(w.as)
    BY DEF IsStore, StoreHolds
  <2>4. Holds(c)
    <3>1. Holds(Mixture(w.as.schema)) /\ Holds(Mixture(file.schema)) /\ Holds(Malformed)
      BY <2>3, PlainHolds
    <3> QED BY <2>3, <3>1 DEF Beside
  <2>5. d.file = file /\ d.wal = {v}
    BY <2>2
  <2> QED BY <2>3, <2>4, <2>5 DEF StoreHolds
<1> QED BY <1>1, <1>2

(* A restore puts the rows of a backup in the place of others.             *)
LEMMA RestoreHolds ==
  ASSUME HostInv, RowsInv, NEW p \in Procs, RestoreStep(p)
  PROVE  FilesHold'
<1>1. CASE disk' = disk
  BY <1>1 DEF RestoreStep, RowsInv, FilesHold, StoreHolds, Holds
<1>2. CASE disk' # disk
  <2>1. PICK s \in Stores :
          /\ proc[p] # Idle /\ proc[p].op = "restore" /\ backups' = backups
          /\ \E d \in Replaced(disk[s], backups[proc[p].backup][s]) : disk' = [disk EXCEPT ![s] = d]
    BY <1>2 DEF RestoreStep, Does
  <2>2. PICK d \in Replaced(disk[s], backups[proc[p].backup][s]) : disk' = [disk EXCEPT ![s] = d]
    BY <2>1
  <2>3. CASE s # "business"
    <3>1. disk'["business"] = disk["business"]
      BY <2>2, <2>3 DEF HostInv, StoresOK
    <3> QED BY <2>1, <3>1 DEF RowsInv, FilesHold, StoreHolds, Holds
  <2>4. CASE s = "business"
    <3>1. proc[p].backup \in DOMAIN backups
      BY <2>1 DEF HostInv, ProcsOK, Progress, RolledBack
    <3>2. StoreHolds(d)
      BY <2>4, <3>1, ReplacedHolds DEF HostInv, StoresOK, RowsInv, FilesHold
    <3>3. disk'["business"] = d
      BY <2>2, <2>4 DEF HostInv, StoresOK
    <3> QED BY <2>1, <3>2, <3>3 DEF RowsInv, FilesHold, StoreHolds, Holds
  <2> QED BY <2>3, <2>4
<1> QED BY <1>1, <1>2

(* What takes the WAL into the file, or writes files without rows.         *)
LEMMA FileHolds ==
  ASSUME HostInv, RowsInv, backups' = backups,
         \/ disk'["business"] = Settle(disk["business"])
         \/ disk'["business"] = Clean(Empty(0))
         \/ disk'["business"] = Clean(Missing)
  PROVE  FilesHold'
<1>1. IsStore(disk["business"])
  BY StoreNames DEF HostInv, StoresOK
<1>2. Holds(Read(disk["business"]))
  BY <1>1, ReadHolds DEF RowsInv, FilesHold
<1>3. StoreHolds(disk'["business"])
  BY <1>2, PlainHolds, CleanHolds DEF Settle
<1> QED BY <1>3 DEF RowsInv, FilesHold, StoreHolds, Holds

(* No step of the host loses or mixes the rows.                            *)
LEMMA FilesNext ==
  ASSUME HostInv, RowsInv, [InstNext]_instvars
  PROVE  FilesHold'
<1>1. CASE UNCHANGED <<disk["business"], backups>>
  BY <1>1 DEF RowsInv, FilesHold, StoreHolds, Holds
<1>2. CASE Reconcile
  BY <1>2, ReconcileHolds
<1>3. ASSUME NEW p \in Procs, Service(p)
      PROVE  FilesHold'
  <2>1. CASE StartService(p)
    BY <1>1, <2>1 DEF StartService
  <2>2. CASE StopService(p)
    <3>1. disk'["business"] = Settle(disk["business"]) /\ backups' = backups
      BY <2>2, StoreNames DEF StopService
    <3> QED BY <3>1, FileHolds
  <2> QED BY <1>3, <2>1, <2>2, WriteHolds DEF Service
<1>4. ASSUME NEW p \in Procs, Begin(p) \/ Fail(p)
      PROVE  FilesHold'
  BY <1>1, <1>4 DEF Begin, BeginInit, BeginBackup, BeginUpgrade, DbUpgrade, BeginRestore, Fail
<1>5. ASSUME NEW p \in Procs, FailInit(p)
      PROVE  FilesHold'
  <2>1. disk'["business"] = Clean(Missing) /\ backups' = backups
    BY <1>5, StoreNames DEF FailInit
  <2> QED BY <2>1, FileHolds
<1>6. ASSUME NEW p \in Procs, InitStep(p)
      PROVE  FilesHold'
  <2>1. \/ disk'["business"] = disk["business"]
        \/ disk'["business"] = Clean(Empty(0))
    BY <1>6, StoreNames DEF InitStep, Install, HostInv, StoresOK
  <2>2. backups' = backups
    BY <1>6 DEF InitStep
  <2> QED BY <1>1, <2>1, <2>2, FileHolds
<1>7. ASSUME NEW p \in Procs, Publish(p)
      PROVE  FilesHold'
  <2>1. disk' = disk /\ backups' # <<>> /\ IsSeq(backups) /\ Len(proc[p].copy) > 0
    BY <1>7 DEF Publish, HostInv, BackupsOK
  <2>2. Holds(proc[p].held["business"])
    BY <1>7, <2>1, PublishStep DEF RowsInv, HeldOK
  <2>3. \A b \in DOMAIN backups' \ DOMAIN backups : backups'[b] = proc[p].held
    BY <1>7, PublishStep
  <2>4. \A b \in DOMAIN backups : b \in DOMAIN backups' => backups'[b] = backups[b]
    BY <1>7, <2>1, AppendTo DEF Publish
  <2>5. \A b \in DOMAIN backups' : Holds(backups'[b]["business"])
    BY <2>2, <2>3, <2>4 DEF RowsInv, FilesHold
  <2> QED BY <2>1, <2>5 DEF RowsInv, FilesHold, StoreHolds, Holds
<1>8. ASSUME NEW p \in Procs, Step(p)
      PROVE  FilesHold'
  <2>1. CASE Snapshot(p) \/ EndMigrate(p) \/ UpgradeStep(p)
    BY <1>1, <2>1 DEF Snapshot, EndMigrate, UpgradeStep
  <2> QED BY <1>6, <1>7, <1>8, <2>1, RestoreHolds, MigrateHolds DEF Step
<1>9. CASE UNCHANGED instvars
  BY <1>1, <1>9 DEF instvars
<1> QED BY <1>2, <1>3, <1>4, <1>5, <1>8, <1>9 DEF InstNext

(* A process that copies nothing holds nothing more.                       *)
LEMMA HeldStep ==
  ASSUME HostInv, RowsInv, NEW p \in Procs, NEW t, proc' = [proc EXCEPT ![p] = t], HeldOK(t)
  PROVE  \A q \in Procs : HeldOK(proc'[q])
<1>1. \A q \in Procs : proc'[q] = IF q = p THEN t ELSE proc[q]
  BY DEF HostInv, ProcsOK
<1> QED BY <1>1 DEF RowsInv, HeldOK

(* The first snapshot is of the rows that are there.                       *)
LEMMA SnapshotHolds ==
  ASSUME HostInv, RowsInv, NEW p \in Procs, Snapshot(p)
  PROVE  \A q \in Procs : HeldOK(proc'[q])
<1> PICK u, k, now : /\ u = proc[p] /\ k = Len(u.copy) + 1
                     /\ now = [s \in Stores |-> Read(disk[s])]
  OBVIOUS
<1> PICK c, held, t : /\ c = Append(u.copy, Read(disk[StoreOrder[k]]))
                      /\ held = IF k = 1 THEN now ELSE u.held
                      /\ t = [u EXCEPT !.copy = c, !.held = held]
  OBVIOUS
<1>1. u # Idle /\ u.step = "snapshot" /\ Shape(u)
  BY DEF Snapshot, HostInv, ProcsOK
<1>2. proc' = [proc EXCEPT ![p] = t]
  <2>1. proc' = [proc EXCEPT ![p] = [u EXCEPT !.copy = c, !.held = held]]
    BY DEF Snapshot, HostInv, ProcsOK
  <2> QED BY <2>1
<1>3. t.held = held
  BY <1>1 DEF Shape
<1>4. Holds(held["business"])
  <2>1. CASE k = 1
    <3>1. held["business"] = Read(disk["business"])
      BY <2>1, StoreNames
    <3> QED BY <3>1, StoreNames, ReadHolds DEF HostInv, StoresOK, RowsInv, FilesHold
  <2>2. CASE k # 1
    <3>1. Len(u.copy) > 0
      BY <1>1, <2>2, AppendTo DEF Shape
    <3> QED BY <1>1, <2>2, <3>1 DEF RowsInv, HeldOK
  <2> QED BY <2>1, <2>2
<1>5. HeldOK(t)
  BY <1>3, <1>4 DEF HeldOK
<1> QED BY <1>2, <1>5, HeldStep

(* The other steps copy nothing.                                           *)
LEMMA HeldNext ==
  ASSUME HostInv, RowsInv, [InstNext]_instvars
  PROVE  \A q \in Procs : HeldOK(proc'[q])
<1>1. CASE proc' = proc
  BY <1>1 DEF RowsInv, HeldOK
<1>2. ASSUME NEW p \in Procs, NEW t, proc' = [proc EXCEPT ![p] = t],
             t = Idle \/ t.step # "snapshot" \/ Len(t.copy) = 0
      PROVE  \A q \in Procs : HeldOK(proc'[q])
  <2>1. HeldOK(t)
    BY <1>2 DEF HeldOK
  <2> QED BY <1>2, <2>1, HeldStep
<1>3. ASSUME NEW p \in Procs, Releases(p)
      PROVE  \A q \in Procs : HeldOK(proc'[q])
  <2> PICK t : t = Idle
    OBVIOUS
  <2>1. proc' = [proc EXCEPT ![p] = t]
    BY <1>3 DEF Releases
  <2> QED BY <1>2, <2>1
<1>4. ASSUME NEW p \in Procs, proc[p] # Idle, NEW step, step # "snapshot", Goes(p, step)
      PROVE  \A q \in Procs : HeldOK(proc'[q])
  <2>1. \E t : proc' = [proc EXCEPT ![p] = t] /\ t.step = step
    BY <1>4, GoesIs DEF HostInv
  <2> QED BY <1>2, <1>4, <2>1
<1>5. CASE Reconcile
  BY <1>1, <1>5 DEF Reconcile
<1>6. ASSUME NEW p \in Procs, Service(p)
      PROVE  \A q \in Procs : HeldOK(proc'[q])
  <2>1. CASE StartService(p)
    <3> PICK t : t = Task("serve", "run", 0)
      OBVIOUS
    <3>1. proc' = [proc EXCEPT ![p] = t] /\ t.step # "snapshot"
      BY <2>1, TaskIs DEF StartService
    <3> QED BY <1>2, <3>1
  <2>2. CASE StopService(p)
    BY <1>3, <2>2 DEF StopService
  <2>3. CASE \E s \in Stores, closes \in BOOLEAN : Write(p, s, closes)
    BY <1>1, <2>3 DEF Write
  <2> QED BY <1>6, <2>1, <2>2, <2>3 DEF Service
<1>7. ASSUME NEW p \in Procs, Begin(p)
      PROVE  \A q \in Procs : HeldOK(proc'[q])
  <2>1. PICK op, step, b, at :
          \/ proc' = [proc EXCEPT ![p] = Task(op, step, b)]
          \/ proc' = [proc EXCEPT ![p] = [Task(op, step, b) EXCEPT !.at = at]]
    BY <1>7 DEF Begin, BeginInit, BeginBackup, BeginUpgrade, DbUpgrade, BeginRestore
  <2> PICK u, t : u = Task(op, step, b) /\ t = [u EXCEPT !.at = at]
    OBVIOUS
  <2>2. Len(u.copy) = 0 /\ DOMAIN u = {"op", "step", "copy", "held", "backup", "at"}
    BY TaskIs
  <2>3. Len(t.copy) = 0
    BY <2>2
  <2> QED BY <1>2, <2>1, <2>2, <2>3
<1>8. ASSUME NEW p \in Procs, FailInit(p) \/ Fail(p)
      PROVE  \A q \in Procs : HeldOK(proc'[q])
  BY <1>3, <1>8 DEF FailInit, Fail
<1>9. ASSUME NEW p \in Procs, Step(p)
      PROVE  \A q \in Procs : HeldOK(proc'[q])
  <2>1. CASE InitStep(p)
    <3>1. Releases(p) \/ \E step : proc[p] # Idle /\ step # "snapshot" /\ Goes(p, step)
      BY <2>1, StoreNames, BehindIs DEF InitStep, Does
    <3> QED BY <1>3, <1>4, <3>1
  <2>2. CASE RestoreStep(p)
    <3>1. Releases(p) \/ \E step : proc[p] # Idle /\ step # "snapshot" /\ Goes(p, step)
      BY <2>2, StoreNames, BehindIs DEF RestoreStep, Does
    <3> QED BY <1>3, <1>4, <3>1
  <2>3. CASE UpgradeStep(p) \/ EndMigrate(p)
    <3>1. Releases(p) \/ \E step : proc[p] # Idle /\ step # "snapshot" /\ Goes(p, step)
      BY <2>3 DEF UpgradeStep, EndMigrate, Does
    <3> QED BY <1>3, <1>4, <3>1
  <2>4. CASE Publish(p)
    <3>1. PICK t : /\ proc' = [proc EXCEPT ![p] = t]
                   /\ t = CASE proc[p].op = "backup"  -> Idle
                            [] proc[p].op = "restore" -> Task("restore", "business", proc[p].backup)
                            [] proc[p].op = "upgrade" -> Task("upgrade", "migrate", 0)
      BY <2>4 DEF Publish, HostInv, ProcsOK
    <3>2. proc[p].op \in {"backup", "restore", "upgrade"}
      BY <2>4, StoreNames DEF Publish, HostInv, ProcsOK, Shape
    <3>3. t = Idle \/ t.step # "snapshot"
      BY <3>1, <3>2, TaskIs
    <3> QED BY <1>2, <3>1, <3>3
  <2>5. CASE MigrateStep(p)
    <3> PICK next, t : next = Advanced(Business.schema) /\ t = [proc[p] EXCEPT !.at = next]
      OBVIOUS
    <3>1. proc' = [proc EXCEPT ![p] = t] /\ proc[p].step = "migrate" /\ Shape(proc[p])
      BY <2>5 DEF MigrateStep, HostInv, ProcsOK
    <3>2. t.step = "migrate"
      BY <3>1 DEF Shape
    <3> QED BY <1>2, <3>1, <3>2
  <2> QED BY <1>9, <2>1, <2>2, <2>3, <2>4, <2>5, SnapshotHolds DEF Step
<1>10. CASE UNCHANGED instvars
  BY <1>1, <1>10 DEF instvars
<1> QED BY <1>5, <1>6, <1>7, <1>8, <1>9, <1>10 DEF InstNext

(* A database of an older release that has arrived at the head has its     *)
(* conversations and its events, however often a migration was cut off,    *)
(* whoever went on with it, whatever was restored in between and whichever *)
(* conversations ops reconcile has renewed.                                *)
THEOREM RowsAreKept == InstSpec => []UpgradeKeepsRows
<1>1. InstInit => RowsInv
  BY RowsInit
<1>2. HostInv /\ RowsInv /\ [InstNext]_instvars => RowsInv'
  BY FilesNext, HeldNext DEF RowsInv, HeldOK
<1>3. HostInv /\ RowsInv => UpgradeKeepsRows
  <2> SUFFICES ASSUME HostInv, RowsInv,
                      NEW content \in {Business} \cup {backups[b]["business"] : b \in DOMAIN backups},
                      Current(content.schema), content.rows # NoRows
               PROVE  /\ \E version \in {4, 8} :
                           /\ ConversationsKept(WithTimesOf(RowsAt(version).conversations,
                                                            content.rows.conversations),
                                                content.rows.conversations)
                           /\ \A t \in DOMAIN RowsAt(version).conversations :
                                content.rows.conversations[t].at
                                  \in {RowsAt(version).conversations[t].at}
                                      \cup IF t \in OldRuns THEN {Today} ELSE {}
                      /\ DOMAIN content.rows.events = DOMAIN OldRows.events
                      /\ \A k \in DOMAIN OldRows.events :
                           EventsNumbered(OldRows.events[k], content.rows.events[k])
    BY DEF UpgradeKeepsRows
  <2>1. Holds(content)
    BY StoreNames, ReadHolds DEF RowsInv, FilesHold, Business, HostInv, StoresOK
  <2>2. content.schema.version = 9
    BY DEF Current, HeadRevision, Revisions
  <2>3. PICK start \in {4, 8}, late \in SUBSET OldRuns : content.rows = RowsFrom(start, late, 9)
    BY <2>1, <2>2 DEF Holds, Kept
  <2> PICK c, r, n : /\ c = RowsAt(start).conversations /\ r = Renewals(start, late)
                     /\ n = OneTask(r)
    OBVIOUS
  <2>4. content.rows.conversations = n /\ content.rows.events = Backfilled
    BY <2>3 DEF RowsFrom
  <2>5. /\ IsConversations(r) /\ DOMAIN r = DOMAIN c /\ r = [t \in DOMAIN c |-> r[t]]
        /\ \A t \in DOMAIN c : /\ DOMAIN c[t] = {"guest", "order", "active", "at"}
                               /\ r[t] = IF t \in late THEN [c[t] EXCEPT !.at = Today] ELSE c[t]
                               /\ r[t] = [c[t] EXCEPT !.at = r[t].at]
    BY RenewalsAre
  <2>6. DOMAIN n = DOMAIN r /\ \A t \in DOMAIN r : n[t].at = r[t].at
    <3>1. ConversationsKept(r, n)
      BY <2>5, OneTaskKeeps
    <3>2. DOMAIN n = DOMAIN r
      BY DEF OneTask
    <3>3. \A t \in DOMAIN r : n[t] = [r[t] EXCEPT !.active = @ /\ KeptActive(r, t)]
      BY DEF OneTask
    <3>4. \A t \in DOMAIN r : DOMAIN r[t] = {"guest", "order", "active", "at"}
      BY <2>5 DEF IsConversations
    <3> QED BY <3>2, <3>3, <3>4
  <2>7. WithTimesOf(c, n) = r
    <3> PICK w : w = WithTimesOf(c, n)
      OBVIOUS
    <3>1. w = [t \in DOMAIN c |-> w[t]] /\ \A t \in DOMAIN c : w[t] = [c[t] EXCEPT !.at = n[t].at]
      BY <2>5, <2>6 DEF WithTimesOf
    <3>2. \A t \in DOMAIN c : w[t] = r[t]
      <4> TAKE t \in DOMAIN c
      <4> PICK at : at = r[t].at
        OBVIOUS
      <4>1. n[t].at = at
        BY <2>5, <2>6
      <4>2. w[t] = [c[t] EXCEPT !.at = at]
        BY <3>1, <4>1
      <4>3. r[t] = [c[t] EXCEPT !.at = at]
        BY <2>5
      <4> QED BY <4>2, <4>3
    <3>3. w = r
      BY ONLY <2>5, <3>1, <3>2
    <3> QED BY <3>3
  <2>8. ConversationsKept(WithTimesOf(c, n), n)
    BY <2>5, <2>7, OneTaskKeeps
  <2>9. \A t \in DOMAIN c : n[t].at \in {c[t].at} \cup IF t \in OldRuns THEN {Today} ELSE {}
    <3> TAKE t \in DOMAIN c
    <3>1. CASE t \in late
      BY <2>5, <2>6, <3>1
    <3>2. CASE t \notin late
      BY <2>5, <2>6, <3>2
    <3> QED BY <3>1, <3>2
  <2>10. \A k \in DOMAIN OldRows.events : EventsNumbered(OldRows.events[k], content.rows.events[k])
    BY <2>4, RowsAssumption, NumberedKeeps DEF Backfilled, IsRows
  <2> QED BY <2>4, <2>8, <2>9, <2>10 DEF Backfilled
<1> QED BY <1>1, <1>2, <1>3, HostInvariant, PTL DEF InstSpec
=================================================================================
