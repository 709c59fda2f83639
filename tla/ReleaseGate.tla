------------------------------ MODULE ReleaseGate ------------------------------
(***************************************************************************)
(* Offline evaluation runs, the baseline and the release gate              *)
(* (eval_runtime.py, eval_release.py, the commands of cli.py) and what the *)
(* administrators' page says of a run (admin_services.py).                 *)
(*                                                                         *)
(* What a suite finds and how a command ends are inputs; metrics, digests  *)
(* and redaction are left out, and equal fingerprints are equal results.   *)
(* The other checks of the gate end in any order: none reads another.      *)
(***************************************************************************)
EXTENDS Naturals

CONSTANTS
  Suites, Scenarios,  \* suites, and scenarios with their global ids
  Kinds,              \* channel, profile and major version of the schema together
  Checks,             \* the checks of the gate beside the two evaluations
  MayLack             \* those that may report a missing tool: docker-compose-config

Partial(S, T) == UNION {[D -> T] : D \in SUBSET S}

Verdicts == {"passed", "failed", "incomplete"}
Repeats  == {1, 2}

\* How a command ends: it is not there, runs out of time, or its exit code is 0, 1, 3
\* or another.
Ends == {"unavailable", "timeout", "0", "1", "3", "other"}

-----------------------------------------------------------------------------
(* Runs and their comparison                                               *)

Outcomes == [kind : Kinds, suites : Partial(Suites, BOOLEAN),
             results : Partial(Scenarios, BOOLEAN), violations : BOOLEAN]

\* Every one of a function of booleans is true.
AllOf(f) == \A x \in DOMAIN f : f[x]

\* run_offline_evaluation and write_run_artifact: a suite passes when it says so and all its scenarios do.
ReportOf(o) ==
  [outcome |-> o,
   status  |-> IF DOMAIN o.suites # {} /\ AllOf(o.suites) /\ AllOf(o.results) /\ ~o.violations
               THEN "passed" ELSE "failed"]

Reports == {ReportOf(o) : o \in Outcomes}

Fingerprint(r) == <<r.outcome.suites, r.outcome.results, r.outcome.violations>>

\* What keeps a run from being compared: another kind, or a scenario it lacks.
Compatible(candidate, base) ==
  /\ candidate.outcome.kind = base.outcome.kind
  /\ DOMAIN base.outcome.results \subseteq DOMAIN candidate.outcome.results

\* A scenario that fails and is new, or passed before.
Regresses(candidate, base, s) ==
  /\ ~candidate.outcome.results[s]
  /\ s \in DOMAIN base.outcome.results => base.outcome.results[s]

compare_with_baseline(candidate, base) ==
  IF ~Compatible(candidate, base) THEN "incomparable"
  ELSE IF \/ candidate.status # "passed" \/ candidate.outcome.violations
          \/ \E s \in DOMAIN candidate.outcome.results : Regresses(candidate, base, s)
       THEN "failed"
       ELSE "passed"

\* accept_baseline
Acceptable(r) == r.status = "passed" /\ AllOf(r.outcome.suites) /\ ~r.outcome.violations

\* AdminEvalReader.read; bases is empty without a baseline file.
PageSays(r, bases) ==
  IF r.status # "passed" \/ r.outcome.violations THEN "failed"
  ELSE IF bases = {} THEN "incompatible"
  ELSE IF \E b \in bases : ~Compatible(r, b) THEN "incompatible"
  ELSE IF \E b \in bases : compare_with_baseline(r, b) # "passed" THEN "failed"
  ELSE "passed"

-----------------------------------------------------------------------------
(* The gate                                                                *)

\* SubprocessReleaseExecutor.execute
Verdict(end, lacks) ==
  IF end \in {"unavailable", "timeout"} \cup lacks THEN "incomplete"
  ELSE IF end = "0" THEN "passed" ELSE "failed"

VerdictOf(check, end) == Verdict(end, IF check \in MayLack THEN {"3"} ELSE {})
EvalVerdict(end)      == Verdict(end, {})

\* An evaluation ends by the status of its run; one that is killed may have written it.
RepeatEnds(found) ==
  {"timeout", "other"} \cup
    IF found = {} THEN {"unavailable"}
    ELSE {IF r.status = "passed" THEN "0" ELSE "1" : r \in found}

Overall(verdicts) ==
  IF "incomplete" \in verdicts THEN "incomplete"
  ELSE IF verdicts \subseteq {"passed"} THEN "passed" ELSE "failed"

\* _repeatability_check and _baseline_comparison_check
Repeatability(found) ==
  IF \E k \in Repeats : found[k] = {} THEN "incomplete"
  ELSE IF \A r \in found[1], q \in found[2] : Fingerprint(r) = Fingerprint(q)
       THEN "passed" ELSE "failed"

BaselineComparison(found, bases) ==
  IF bases = {} \/ found[1] = {} THEN "incomplete"
  ELSE IF \A r \in found[1], b \in bases : compare_with_baseline(r, b) = "passed"
       THEN "passed" ELSE "failed"

VARIABLES
  artifacts,  \* the reports in run directories, of single runs and of gates
  accepting,  \* reports accept_baseline has looked at and not written yet
  baseline,   \* {} or {report}: the baseline file
  gate,       \* {} or {[checks, found, ended]}: the gate that is running
  released    \* [status, checks, found, bases]: release directories with a report

vars == <<artifacts, accepting, baseline, gate, released>>

EvalRun(o) ==
  /\ artifacts' = artifacts \cup {ReportOf(o)}
  /\ UNCHANGED <<accepting, baseline, gate, released>>

AcceptLook(r, replace) ==
  /\ r \in artifacts /\ Acceptable(r)
  /\ baseline = {} \/ replace
  /\ accepting' = accepting \cup {r}
  /\ UNCHANGED <<artifacts, baseline, gate, released>>

AcceptWrite(r) ==
  /\ baseline' = {r} /\ accepting' = accepting \ {r}
  /\ UNCHANGED <<artifacts, gate, released>>

Open == [checks |-> [c \in {} |-> "passed"], found |-> [k \in Repeats |-> {}],
         ended |-> [k \in {} |-> "passed"]]

GateBegin ==
  /\ gate = {} /\ gate' = {Open}
  /\ UNCHANGED <<artifacts, accepting, baseline, released>>

Set(f, x, y) == [z \in DOMAIN f \cup {x} |-> IF z = x THEN y ELSE f[z]]

GateCheck(g, c, end) ==
  /\ c \notin DOMAIN g.checks
  /\ gate' = {[g EXCEPT !.checks = Set(@, c, VerdictOf(c, end))]}
  /\ UNCHANGED <<artifacts, accepting, baseline, released>>

\* offline-eval-repeat-k: the run it leaves, or none, and how it ended.
GateRepeat(g, k, found, end) ==
  /\ k \notin DOMAIN g.ended /\ \A j \in Repeats : j < k => j \in DOMAIN g.ended
  /\ end \in RepeatEnds(found)
  /\ gate' = {[g EXCEPT !.found[k] = found, !.ended = Set(@, k, EvalVerdict(end))]}
  /\ artifacts' = artifacts \cup found
  /\ UNCHANGED <<accepting, baseline, released>>

AllVerdicts(g, bases) ==
  {g.checks[c] : c \in DOMAIN g.checks} \cup {g.ended[k] : k \in DOMAIN g.ended}
    \cup {Repeatability(g.found), BaselineComparison(g.found, bases)}

\* The report, against the baseline as it is then; the option may be left out.
GateReport(g, bases) ==
  /\ DOMAIN g.checks = Checks /\ DOMAIN g.ended = Repeats
  /\ released' = released \cup
       {[status |-> Overall(AllVerdicts(g, bases)), checks |-> g.checks, found |-> g.found,
         bases |-> bases]}
  /\ gate' = {}
  /\ UNCHANGED <<artifacts, accepting, baseline>>

\* The gate or an acceptance dies half way.
Abandon ==
  /\ gate' \in {{}, gate} /\ accepting' \in SUBSET accepting
  /\ UNCHANGED <<artifacts, baseline, released>>

-----------------------------------------------------------------------------
Init ==
  /\ artifacts = {} /\ accepting = {} /\ baseline = {} /\ gate = {} /\ released = {}

Next ==
  \/ \E o \in Outcomes : EvalRun(o)
  \/ \E r \in artifacts, replace \in BOOLEAN : AcceptLook(r, replace)
  \/ \E r \in accepting : AcceptWrite(r)
  \/ GateBegin
  \/ \E g \in gate :
       \/ \E c \in Checks, end \in Ends : GateCheck(g, c, end)
       \/ \E k \in Repeats, end \in Ends, found \in {{}} \cup {{r} : r \in Reports} :
            GateRepeat(g, k, found, end)
       \/ \E bases \in {{}, baseline} : GateReport(g, bases)
  \/ Abandon

Spec == Init /\ [][Next]_vars

-----------------------------------------------------------------------------
\* A baseline is a run that passed and in which no scenario failed, whoever replaced it
\* while it was looked at.
BaselineHolds == \A b \in baseline : b.status = "passed" /\ AllOf(b.outcome.results)

Whole(v) ==
  /\ DOMAIN v.checks = Checks /\ \A c \in Checks : v.checks[c] = "passed"
  /\ \E r \in v.found[1], q \in v.found[2], b \in v.bases :
       /\ r.status = "passed" /\ q.status = "passed" /\ Fingerprint(r) = Fingerprint(q)
       /\ AllOf(r.outcome.results) /\ AllOf(q.outcome.results)
       /\ \A s \in DOMAIN b.outcome.results :
            s \in DOMAIN r.outcome.results /\ s \in DOMAIN q.outcome.results

\* A gate that passed had every check pass, two evaluations that found the same, and a
\* baseline of which nothing was lost; evaluations that were killed, tools that were not
\* there and a baseline replaced meanwhile never make it pass.
GateIsWhole == \A v \in released : v.status = "passed" => Whole(v)
=============================================================================
