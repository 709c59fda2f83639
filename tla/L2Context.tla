------------------------------ MODULE L2Context ------------------------------
(***************************************************************************)
(* What the L2 support loop shows its model before a call: the             *)
(* observations of earlier steps are read again from their sources         *)
(* (adapters/l2_freshness.py) and build_l2_context (l2_context.py) selects *)
(* what fits the budget, or says why no context may be shown.              *)
(*                                                                         *)
(* An observation is a record [src, ref, fact, ver, at, ev]: the kind of   *)
(* source, its reference, whether it reports a fact (result_code found or  *)
(* insufficient_evidence), the version of the source, when it was          *)
(* observed and its evidence ids.  Version 0 is source_metadata = None.    *)
(* Every candidate costs one token; wording is left out.                   *)
(*                                                                         *)
(* The world gives every source its version.  The version of the policy is *)
(* that of its corpus; world.text is the text behind the policy facts,     *)
(* which a new corpus may leave as it was.  All facts have one text: a     *)
(* corpus that rewrites some of its sections only is left out.             *)
(***************************************************************************)
EXTENDS Integers, FiniteSets, FiniteSetsExt, Sequences

\* The sources an observation is read from again, and "other", the order of a
\* different conversation that a tool may read as well.
Sources == {"order", "other", "policy"}

\* What the world gives a version.
Things == Sources \cup {"text"}

\* The evidence ids of a source: policy facts are told apart by their text, by
\* the content hash their observation keeps.
EvidenceIn(src, world) == {IF src = "policy" THEN <<src, world.text>> ELSE <<src, world[src]>>}

\* A successful tool result.  A policy result names the corpus it came from.
Fact(src, world, at) ==
  [src |-> src, ref |-> IF src = "policy" THEN world[src] ELSE 0, fact |-> TRUE,
   ver |-> world[src], at |-> at, ev |-> EvidenceIn(src, world)]

\* search_policy that resolves no fact: insufficient_evidence, a fact, too.
NoPolicyFound(world, at) == [Fact("policy", world, at) EXCEPT !.ev = {}]

\* A result without a source version: a failed read, the end of a refund, a
\* decision on a preference.
Note(src, ref, at, ev) ==
  [src |-> src, ref |-> ref, fact |-> FALSE, ver |-> 0, at |-> at, ev |-> ev]

\* What _refresh_observations keeps of an observation that is stale, and the
\* observation that takes the place of one whose business fact has changed.
Unversioned(o) == [o EXCEPT !.ver = 0]
Replaced(o, world, now) ==
  [o EXCEPT !.ver = world[o.src], !.at = now, !.ev = EvidenceIn(o.src, world)]

\* _refresh_observations reads these again.
HasSource(o) == o.ver # 0 /\ o.src \in Sources

\* resolve_fact for every fact of an observation: its text is in the index.
Resolves(o, world) == o.ev \subseteq EvidenceIn("policy", world)

\* mutant: a source that cannot be read leaves the observation as it was.
Refresh_KeepsLost(o, world, lost, now) ==
  IF ~HasSource(o) \/ lost THEN o
  ELSE IF o.src # "policy" THEN Replaced(o, world, now)
  ELSE IF Resolves(o, world) THEN o ELSE Unversioned(o)

\* GatewayL2FreshnessReader.refresh, with the loop around it: a changed business
\* fact is replaced; a policy observation is carried over as it is, at the
\* corpus it came from, as long as the present index has the text of its facts,
\* so that one without facts always is; lost says the source cannot be read.
Refresh(o, world, lost, now) ==
  IF ~HasSource(o) THEN o
  ELSE IF o.src = "policy"
  THEN IF o.ev = {} \/ (~lost /\ Resolves(o, world)) THEN o ELSE Unversioned(o)
  ELSE IF lost THEN Unversioned(o)
  ELSE IF world[o.src] = o.ver THEN o
  ELSE Replaced(o, world, now)

Key(o) == <<o.src, o.ref>>

\* Observations of preferences are always left to the preferences themselves,
\* and another order is irrelevant as long as its metadata names it.
Counts(o) == /\ o.src # "prefs"
             /\ ~(o.src = "other" /\ o.ver # 0)

\* _observation_candidates looks at the latest observation of a source first.
Superseded(obs, i) ==
  \E j \in DOMAIN obs : /\ Counts(obs[j]) /\ Key(obs[j]) = Key(obs[i])
                        /\ \/ obs[j].at > obs[i].at
                           \/ obs[j].at = obs[i].at /\ j < i

Latest(obs) == {i \in DOMAIN obs : Counts(obs[i]) /\ ~Superseded(obs, i)}

\* Facts whose source could not be verified may not be shown.
Verified(obs) == {i \in Latest(obs) : obs[i].fact => obs[i].ver # 0}

\* Policy facts of one rule with more than one value; torn is the set of texts
\* that contradict themselves.
Conflicting(obs, torn) ==
  {i \in Verified(obs) : obs[i].src = "policy" /\ \E e \in obs[i].ev : e[2] \in torn}

Selected(obs, torn) == Verified(obs) \ Conflicting(obs, torn)

\* A fact of which no current version is shown.
IsStale(obs, shown) ==
  \E i \in DOMAIN obs :
    /\ Counts(obs[i]) /\ obs[i].fact
    /\ \A j \in shown : Key(obs[j]) # Key(obs[i])

\* What is left after the optional candidates were dropped: preferences and
\* messages first, then notes on policies, then the others, the oldest first;
\* facts are never dropped.
Outlasts(o, p) == \/ o.src # "policy" /\ p.src = "policy"
                  \/ (o.src = "policy" <=> p.src = "policy") /\ o.at > p.at

KeptNotes(obs, notes, room) ==
  {i \in notes : Cardinality({j \in notes : Outlasts(obs[j], obs[i])}) < room}

\* build_l2_context: chat counts the relevant messages and preferences, budget
\* is _context_input_budget, base the control and goal candidates.
Build(obs, chat, torn, budget, base) ==
  LET chosen == Selected(obs, torn)
      facts  == {i \in chosen : obs[i].fact}
      room   == budget - base - Cardinality(facts)
      notes  == KeptNotes(obs, chosen \ facts, room)
      shown  == facts \cup notes
      spare  == room - Cardinality(notes)
      why    == IF Conflicting(obs, torn) # {} THEN "context_conflict"
                ELSE IF IsStale(obs, shown) THEN "context_stale"
                ELSE IF budget <= 0 \/ room < 0 THEN "context_missing"
                ELSE "ready"
  IN IF why # "ready" THEN [why |-> why, shown |-> {}, cost |-> 0]
     ELSE [why |-> why, shown |-> {obs[i] : i \in shown},
           cost |-> base + Cardinality(shown) + (IF chat < spare THEN chat ELSE spare)]

\* The evidence ids the model may cite.
EvidenceOf(pack) == UNION {o.ev : o \in pack.shown}
=============================================================================
