----------------------------- MODULE L2CaseProofs -----------------------------
(***************************************************************************)
(* What the L2 support loop keeps, for every number of previews, every     *)
(* limit and every order of failed runs, restarts and late decisions.      *)
(*                                                                         *)
(* The invariant relates three kinds of state that no transaction joins:   *)
(* the rows (RowsOK), what the rows say was charged (MetersOK), and the    *)
(* graphs a run executes or a checkpoint holds (FlowOK).  A graph may be   *)
(* older than the rows, because a node that did not end is executed again; *)
(* it is never ahead of them.  PrepOK says what a decide node has that is  *)
(* still preparing its call, while its sources change under it.            *)
(***************************************************************************)
EXTENDS L2Case, FiniteSetTheorems, WellFoundedInduction, TLAPS

-----------------------------------------------------------------------------
(* The invariant                                                           *)

\* What the calls of S were charged, and the first k calls of case c.
Total(m, S) == MapThenSumSet(LAMBDA x : m[x], S)
Numbers(c, k) == {<<c, j>> : j \in 1..k}
Spent(mt, c, k) == Total(mt, Numbers(c, k))

\* What a call costs follows from its saved context and from what its case
\* had spent: a call made again costs the same.
Small(a, b) == IF a < b THEN a ELSE b
ChargeOf(m, spent) ==
  Small(Base + Cardinality(m.shown) + Chat + Cardinality(m.prefs),
        InputBudget([tokens |-> spent])) + Envelope + Reserve

IsObservation(o) ==
  /\ DOMAIN o = {"src", "ref", "fact", "ver", "at", "ev"}
  /\ o.fact \in BOOLEAN /\ o.ver \in Nat /\ o.at \in Nat
  /\ o.fact => o.src \in Sources

IsContext(obs) ==
  /\ Len(obs) \in Nat /\ DOMAIN obs = 1..Len(obs)
  /\ obs = [i \in 1..Len(obs) |-> obs[i]]
  /\ \A i \in DOMAIN obs : IsObservation(obs[i])

IsRuntime(rt) ==
  /\ DOMAIN rt = {"preview", "phase", "calls", "tokens", "tools", "fails", "last",
                  "rep", "decision", "heard", "obs", "evid"}
  /\ rt.preview \in Nat /\ rt.calls \in Nat /\ rt.tokens \in Nat /\ rt.tools \in Nat
  /\ IsContext(rt.obs)

IsState(s) ==
  /\ DOMAIN s = {"node", "rt", "quota", "input", "paused", "work"}
  /\ IsRuntime(s.rt)

\* Nodes a graph may be at without a preview, and without a case.
BeforePreview == {"bind_and_interpret", "prepare_upgrade", "end"}
BeforeCase == BeforePreview \cup {"await_upgrade_confirmation", "create_case", "cancel_upgrade"}

\* A decision the customer made, and an input that is one.
Consent(id, dc) == <<id, "confirm">> \in dc
Told(input, dc) == input.kind = "decision" => <<input.id, input.answer>> \in dc

\* A graph knows of no call or tool its case row does not know of, and its
\* tokens are those of its calls.
UseOK(node, rt, cs, mt) ==
  IF rt.preview \in DOMAIN cs
  THEN /\ rt.calls <= cs[rt.preview].calls
       /\ rt.tools <= cs[rt.preview].tools
       /\ rt.tokens = Spent(mt, rt.preview, rt.calls)
  ELSE /\ rt.calls = 0 /\ rt.tokens = 0 /\ rt.tools = 0
       /\ node \in BeforeCase

\* A decide node that called the model: the call is registered, its charge
\* and context are the ones the node goes on with.
WorkOK(s, mt, mf) ==
  LET id == <<s.rt.preview, s.rt.calls + 1>>
  IN s.work.done = "charged" =>
     /\ s.node = "decide"
     /\ IsRuntime(s.work.rt)
     /\ id \in DOMAIN mt /\ s.work.charge = mt[id]
     /\ s.work.rt.preview = s.rt.preview /\ s.work.rt.calls = s.rt.calls
     /\ s.work.rt.tokens = s.rt.tokens /\ s.work.rt.tools = s.rt.tools
     /\ s.work.rt.evid = EvidenceOf(mf[id])

\* What reaching a node says.
NodeOK(node, rt, mf, dc) ==
  /\ node \notin BeforePreview => rt.preview # 0
  /\ node = "create_case" => Consent(<<"upgrade", <<rt.preview, 0>>>>, dc)
  /\ node = "execute_tool" => rt.tools < MaxToolCalls /\ rt.decision.tool \in Tools
  /\ node = "finalize_resolved" =>
       /\ rt.decision.ev # {}
       /\ rt.calls # 0
       /\ rt.decision.ev \subseteq EvidenceOf(mf[<<rt.preview, rt.calls>>])

StateOK(s, sh, cs, mt, mf, dc) ==
  /\ IsState(s)
  /\ s.rt.preview <= sh
  /\ \A i \in s.input : Told(i, dc)
  /\ UseOK(s.node, s.rt, cs, mt)
  /\ WorkOK(s, mt, mf)
  /\ NodeOK(s.node, s.rt, mf, dc)

\* A graph about to resolve a case that is resolved would say the same again.
SettledOK(s, cs) ==
  s.node = "finalize_resolved" /\ cs[s.rt.preview].status = "l2_resolved"
    => cs[s.rt.preview].answer = s.rt.decision.ev

\* A checkpoint about to resolve a case is not behind the graph of that case.
Paired(g, s) ==
  s.node = "finalize_resolved" /\ g.rt.preview = s.rt.preview
    => g.node = "finalize_resolved" /\ g.rt = s.rt

FlowOK ==
  /\ shown \in Nat
  /\ \A d \in asked : d = <<d[1], d[2]>>
  /\ Told(run, decided)
  /\ StateOK(saved, shown, cases, metered, manifest, decided)
  /\ SettledOK(saved, cases)
  /\ \/ graph = NoGraph
     \/ /\ StateOK(graph, shown, cases, metered, manifest, decided)
        /\ SettledOK(graph, cases)
        /\ Paired(graph, saved)

\* A case row.
RowOK(c, row, mf, dc) ==
  /\ row = [status |-> row.status, answer |-> row.answer, calls |-> row.calls,
            tokens |-> row.tokens, tools |-> row.tools]
  /\ row.status \in Open \cup Closed
  /\ row.calls \in 0..MaxModelCalls /\ row.tokens \in 0..MaxTokens
  /\ row.tools \in 0..MaxToolCalls
  /\ Consent(<<"upgrade", <<c, 0>>>>, dc)
  /\ IF row.status = "l2_resolved"
     THEN row.answer # {} /\ \E k \in 1..row.calls : row.answer \subseteq EvidenceOf(mf[<<c, k>>])
     ELSE row.answer = {}

RowsOK ==
  /\ world \in [Things -> Nat]
  /\ IsFiniteSet(pref) /\ \A p \in pref : Consent(p.id, decided)
  /\ daily \in 0..DailyLimit
  /\ \A c \in DOMAIN cases : RowOK(c, cases[c], manifest, decided)

\* The calls of a case are numbered without gaps up to the count in its row.
NumbersMatch(cs, mt) ==
  /\ \A id \in DOMAIN mt : /\ id = <<id[1], id[2]>> /\ id[1] \in DOMAIN cs
                           /\ id[2] \in 1..cs[id[1]].calls
  /\ \A c \in DOMAIN cs : \A k \in 1..cs[c].calls : <<c, k>> \in DOMAIN mt

MetersOK ==
  /\ IsFiniteSet(DOMAIN metered) /\ Cardinality(DOMAIN metered) <= daily
  /\ NumbersMatch(cases, metered)
  /\ DOMAIN metered \subseteq DOMAIN manifest
  /\ \A id \in DOMAIN metered :
       /\ metered[id] \in Nat
       /\ metered[id] = ChargeOf(manifest[id], Spent(metered, id[1], id[2] - 1))
  /\ \A c \in DOMAIN cases : cases[c].tokens = Spent(metered, c, cases[c].calls)

IInv == RowsOK /\ MetersOK /\ FlowOK

\* The runtime of the same point of the same case.
Like(rt, other) ==
  /\ IsRuntime(rt) /\ rt.preview = other.preview /\ rt.calls = other.calls
  /\ rt.tokens = other.tokens /\ rt.tools = other.tools

NotAfter(v, w) == \A t \in Things : v[t] <= w[t]

\* The sources have been read up to the next: what was read was so since.
ReadingOK(work, w) ==
  /\ DOMAIN work = {"done", "obs", "next", "since"}
  /\ IsContext(work.obs) /\ work.next \in Nat \ {0}
  /\ work.since \in [Things -> Nat] /\ NotAfter(work.since, w)
  /\ \A i \in DOMAIN work.obs : i < work.next /\ work.obs[i].fact /\ work.obs[i].ver # 0 =>
       WasSo(work.obs[i], work.since, w)

\* The context is built and not yet saved.
BuiltOK(work, rt, w) ==
  LET m == work.context
  IN /\ Like(work.rt, rt)
     /\ work.since \in [Things -> Nat] /\ NotAfter(work.since, w)
     /\ IsFiniteSet(m.shown) /\ IsFiniteSet(m.prefs)
     /\ \A o \in m.shown : o.fact => o.src \in Sources /\ WasSo(o, work.since, w)
     /\ m.why = "ready" =>
          /\ work.cost \in Nat
          /\ work.cost = Small(Base + Cardinality(m.shown) + Chat + Cardinality(m.prefs),
                               InputBudget([tokens |-> rt.tokens]))

\* The context is saved and its call not yet registered.
SavedOK(work, rt, mf) ==
  LET id == <<rt.preview, rt.calls + 1>>
  IN /\ DOMAIN work = {"done", "rt", "charge"}
     /\ Like(work.rt, rt)
     /\ id \in DOMAIN mf /\ work.rt.evid = EvidenceOf(mf[id])
     /\ work.charge \in Nat /\ work.charge = ChargeOf(mf[id], rt.tokens)

Preparing == {"reading", "built", "saved"}

Prepared(g, mf, w) ==
  /\ g.work.done \in Preparing => g.node = "decide"
  /\ g.work.done = "reading" => ReadingOK(g.work, w)
  /\ g.work.done = "built" => BuiltOK(g.work, g.rt, w)
  /\ g.work.done = "saved" => SavedOK(g.work, g.rt, mf)

PrepOK ==
  /\ saved.work.done = "nothing"
  /\ graph # NoGraph => Prepared(graph, manifest, world)

L2Inv == IInv /\ PrepOK

-----------------------------------------------------------------------------
(* Sums over finite sets                                                   *)

\* Induction over Nat for a property given as a set.
LEMMA Induction ==
  ASSUME NEW A, 0 \in A, \A n \in Nat : n \in A => n + 1 \in A
  PROVE  Nat \subseteq A
<1> SUFFICES ASSUME Nat \ A # {} PROVE FALSE
  OBVIOUS
<1>1. PICK n \in Nat \ A : \A k \in Nat \ A : ~ (<<k, n>> \in OpToRel(<, Nat))
  BY NatLessThanWellFounded, WFMin
<1>2. \A k \in Nat \ A : ~ (k < n)
  BY <1>1 DEF OpToRel
<1>3. n # 0 /\ n - 1 \in Nat
  OBVIOUS
<1> QED BY <1>2, <1>3

\* One step of the recursion behind Total.
Pick(s) == CHOOSE x \in s : TRUE
Unfold(m, g, s) == IF s = {} THEN 0 ELSE m[Pick(s)] + g[s \ {Pick(s)}]
Sums(m, S) == CHOOSE g : g = [s \in SUBSET S |-> Unfold(m, g, s)]

\* The sum unfolds to the recursive function it is defined with.
LEMMA TotalIs ==
  ASSUME NEW m, NEW S
  PROVE  Total(m, S) = Sums(m, S)[S]
BY DEF Total, MapThenSumSet, MapThenFoldSet, Sums, Unfold, Pick

\* The recursion has a solution: one that is right up to n elements is extended by one.
LEMMA SumsExist ==
  ASSUME NEW m, NEW S, IsFiniteSet(S)
  PROVE  \A s \in SUBSET S : Sums(m, S)[s] = Unfold(m, Sums(m, S), s)
<1> DEFINE Right(g, n) == \A s \in SUBSET S : Cardinality(s) <= n => g[s] = Unfold(m, g, s)
           A == {n \in Nat : \E g : DOMAIN g = SUBSET S /\ Right(g, n)}
<1>0. \A s \in SUBSET S : /\ IsFiniteSet(s) /\ Cardinality(s) \in Nat /\ Cardinality(s) <= Cardinality(S)
                          /\ (Cardinality(s) = 0 <=> s = {})
                          /\ s # {} => /\ s \ {Pick(s)} \in SUBSET S
                                       /\ Cardinality(s \ {Pick(s)}) = Cardinality(s) - 1
  <2> TAKE s \in SUBSET S
  <2>1. IsFiniteSet(s) /\ Cardinality(s) \in Nat /\ Cardinality(s) <= Cardinality(S)
    BY FS_Subset, FS_CardinalityType
  <2>2. Cardinality(s) = 0 <=> s = {}
    BY <2>1, FS_EmptySet
  <2>3. s # {} => Pick(s) \in s
    BY DEF Pick
  <2>4. s # {} => Cardinality(s \ {Pick(s)}) = Cardinality(s) - 1
    BY <2>1, <2>3, FS_RemoveElement
  <2> QED BY <2>1, <2>2, <2>4
<1>1. 0 \in A
  <2> DEFINE g == [s \in SUBSET S |-> 0]
  <2>1. Right(g, 0)
    <3> SUFFICES ASSUME NEW s \in SUBSET S, Cardinality(s) <= 0 PROVE g[s] = Unfold(m, g, s)
      OBVIOUS
    <3>1. Cardinality(s) \in Nat /\ (Cardinality(s) = 0 => s = {})
      BY <1>0
    <3>2. s = {}
      BY <3>1
    <3> QED BY <3>2 DEF Unfold
  <2> QED BY <2>1
<1>2. ASSUME NEW n \in Nat, n \in A PROVE n + 1 \in A
  <2>1. PICK g : DOMAIN g = SUBSET S /\ Right(g, n)
    BY <1>2
  <2> DEFINE h == [s \in SUBSET S |-> Unfold(m, g, s)]
  <2>2. \A s \in SUBSET S : Cardinality(s) <= n => h[s] = g[s]
    BY <2>1
  <2>3. ASSUME NEW s \in SUBSET S, Cardinality(s) <= n + 1
        PROVE  h[s] = Unfold(m, h, s)
    <3>1. CASE s = {}
      BY <3>1 DEF Unfold
    <3>2. CASE s # {}
      <4>1. s \ {Pick(s)} \in SUBSET S /\ Cardinality(s \ {Pick(s)}) <= n
        BY <1>0, <2>3, <3>2
      <4>2. h[s \ {Pick(s)}] = g[s \ {Pick(s)}]
        BY <2>2, <4>1
      <4> HIDE DEF h
      <4>3. h[s] = Unfold(m, g, s)
        BY DEF h
      <4> QED BY <3>2, <4>2, <4>3 DEF Unfold
    <3> QED BY <3>1, <3>2
  <2>4. DOMAIN h = SUBSET S /\ Right(h, n + 1)
    BY <2>3
  <2> HIDE DEF h
  <2> QED BY <2>4
<1>3. Cardinality(S) \in A
  <2> HIDE DEF A
  <2>1. Nat \subseteq A
    BY <1>1, <1>2, Induction
  <2> QED BY <2>1, FS_CardinalityType
<1>4. PICK g : DOMAIN g = SUBSET S /\ Right(g, Cardinality(S))
  BY <1>3
<1> DEFINE f == [s \in SUBSET S |-> g[s]]
<1>5. f = [s \in SUBSET S |-> Unfold(m, f, s)]
  <2>1. \A s \in SUBSET S : f[s] = Unfold(m, g, s)
    BY <1>0, <1>4
  <2>2. \A s \in SUBSET S : Unfold(m, g, s) = Unfold(m, f, s)
    BY <1>0 DEF Unfold
  <2> QED BY <2>1, <2>2
<1> HIDE DEF f
<1>6. Sums(m, S) = [s \in SUBSET S |-> Unfold(m, Sums(m, S), s)]
  BY <1>5 DEF Sums
<1> DEFINE g0 == Sums(m, S)
<1>7. g0 = [s \in SUBSET S |-> Unfold(m, g0, s)]
  BY <1>6
<1> HIDE DEF g0
<1>8. \A s \in SUBSET S : g0[s] = Unfold(m, g0, s)
  BY <1>7
<1> QED BY <1>8 DEF g0

\* What it says of a set depends on the set and its entries alone.
LEMMA SumsAgree ==
  ASSUME NEW m, NEW w, NEW S, IsFiniteSet(S), NEW T, IsFiniteSet(T),
         \A x \in S \cap T : m[x] = w[x]
  PROVE  \A s \in SUBSET (S \cap T) : Sums(m, S)[s] = Sums(w, T)[s]
<1> DEFINE B == SUBSET (S \cap T)
           A == {n \in Nat : \A s \in B : Cardinality(s) = n => Sums(m, S)[s] = Sums(w, T)[s]}
<1>0. ASSUME NEW s \in SUBSET (S \cap T)
      PROVE  /\ IsFiniteSet(s) /\ Cardinality(s) \in Nat /\ (Cardinality(s) = 0 <=> s = {})
             /\ Sums(m, S)[s] = Unfold(m, Sums(m, S), s)
             /\ Sums(w, T)[s] = Unfold(w, Sums(w, T), s)
             /\ s # {} => /\ Pick(s) \in s
                           /\ s \ {Pick(s)} \in SUBSET (S \cap T)
                           /\ Cardinality(s \ {Pick(s)}) = Cardinality(s) - 1
  <2>0. s \in SUBSET S /\ s \in SUBSET T
    OBVIOUS
  <2>1. IsFiniteSet(s) /\ Cardinality(s) \in Nat
    BY <2>0, FS_Subset, FS_CardinalityType
  <2>2. Cardinality(s) = 0 <=> s = {}
    BY <2>1, FS_EmptySet
  <2>3. Sums(m, S)[s] = Unfold(m, Sums(m, S), s)
    BY <2>0, SumsExist
  <2>4. Sums(w, T)[s] = Unfold(w, Sums(w, T), s)
    BY <2>0, SumsExist
  <2>5. s # {} => Pick(s) \in s
    BY DEF Pick
  <2>6. s # {} => Cardinality(s \ {Pick(s)}) = Cardinality(s) - 1
    BY <2>1, <2>5, FS_RemoveElement
  <2> QED BY <2>1, <2>2, <2>3, <2>4, <2>5, <2>6
<1>1. 0 \in A
  <2> SUFFICES ASSUME NEW s \in B, Cardinality(s) = 0 PROVE Sums(m, S)[s] = Sums(w, T)[s]
    OBVIOUS
  <2>1. s = {}
    BY <1>0
  <2> QED BY <1>0, <2>1 DEF Unfold
<1>2. ASSUME NEW n \in Nat, n \in A PROVE n + 1 \in A
  <2> SUFFICES ASSUME NEW s \in B, Cardinality(s) = n + 1
               PROVE  Sums(m, S)[s] = Sums(w, T)[s]
    OBVIOUS
  <2>1. s # {} /\ Pick(s) \in s
    BY <1>0
  <2>2. Cardinality(s \ {Pick(s)}) = n /\ s \ {Pick(s)} \in B
    BY <1>0, <2>1
  <2>3. Sums(m, S)[s \ {Pick(s)}] = Sums(w, T)[s \ {Pick(s)}] /\ m[Pick(s)] = w[Pick(s)]
    BY <1>2, <2>1, <2>2
  <2>4. /\ Sums(m, S)[s] = Unfold(m, Sums(m, S), s)
        /\ Sums(w, T)[s] = Unfold(w, Sums(w, T), s)
    BY <1>0
  <2> QED BY <2>1, <2>3, <2>4 DEF Unfold
<1>3. Nat \subseteq A
  <2> HIDE DEF A
  <2> QED BY <1>1, <1>2, Induction
<1> QED BY <1>0, <1>3

LEMMA TotalSame ==
  ASSUME NEW m, NEW w, NEW S, IsFiniteSet(S), \A x \in S : m[x] = w[x]
  PROVE  Total(m, S) = Total(w, S)
<1>1. Sums(m, S)[S] = Sums(w, S)[S]
  BY SumsAgree
<1> QED BY <1>1, TotalIs

LEMMA TotalEmpty == ASSUME NEW m PROVE Total(m, {}) = 0
<1>1. {} \in SUBSET {} /\ Sums(m, {})[{}] = Unfold(m, Sums(m, {}), {})
  BY FS_EmptySet, SumsExist
<1>2. Sums(m, {})[{}] = 0
  BY <1>1 DEF Unfold
<1> QED BY <1>2, TotalIs

LEMMA TotalUnfolds ==
  ASSUME NEW m, NEW S, IsFiniteSet(S), S # {}
  PROVE  Total(m, S) = m[Pick(S)] + Total(m, S \ {Pick(S)})
<1> DEFINE T == S \ {Pick(S)}
<1>1. IsFiniteSet(T) /\ T \in SUBSET (S \cap T)
  BY FS_RemoveElement
<1>2. Sums(m, S)[T] = Sums(m, T)[T]
  BY <1>1, SumsAgree
<1>3. S \in SUBSET S /\ Sums(m, S)[S] = Unfold(m, Sums(m, S), S)
  BY SumsExist
<1> QED BY <1>2, <1>3, TotalIs DEF Unfold

\* The sum in the order of the recursion is the sum in any order.
LEMMA TotalAdds ==
  ASSUME NEW m, NEW U, IsFiniteSet(U), \A x \in U : m[x] \in Int
  PROVE  \A S \in SUBSET U, y \in U :
           y \notin S => Total(m, S) \in Int /\ Total(m, S \cup {y}) = Total(m, S) + m[y]
<1> DEFINE Adds(S) == \A y \in U \ S : Total(m, S \cup {y}) = Total(m, S) + m[y]
           A == {n \in Nat : \A S \in SUBSET U :
                   Cardinality(S) = n => Total(m, S) \in Int /\ Adds(S)}
<1>0. ASSUME NEW S \in SUBSET U
      PROVE  IsFiniteSet(S) /\ Cardinality(S) \in Nat /\ (Cardinality(S) = 0 <=> S = {})
  <2>1. IsFiniteSet(S) /\ Cardinality(S) \in Nat
    BY FS_Subset, FS_CardinalityType
  <2> QED BY <2>1, FS_EmptySet
<1>1. 0 \in A
  <2>1. ASSUME NEW y \in U PROVE Total(m, {y}) = m[y]
    <3>1. IsFiniteSet({y}) /\ Pick({y}) = y
      BY FS_Singleton DEF Pick
    <3>2. Total(m, {y}) = m[y] + Total(m, {y} \ {y})
      <4>1. {y} # {}
        OBVIOUS
      <4> QED BY <3>1, <4>1, TotalUnfolds
    <3>3. {y} \ {y} = {} /\ Total(m, {}) = 0 /\ m[y] \in Int
      BY TotalEmpty
    <3> QED BY <3>2, <3>3
  <2>2. ASSUME NEW S \in SUBSET U, Cardinality(S) = 0 PROVE Total(m, S) \in Int /\ Adds(S)
    <3>1. S = {} /\ Total(m, S) = 0
      BY <1>0, <2>2, TotalEmpty
    <3>2. ASSUME NEW y \in U PROVE Total(m, S \cup {y}) = Total(m, S) + m[y]
      <4>1. S \cup {y} = {y} /\ m[y] \in Int
        BY <3>1
      <4> QED BY <2>1, <3>1, <4>1
    <3> QED BY <3>1, <3>2
  <2> QED BY <2>2
<1>2. ASSUME NEW n \in Nat, n \in A PROVE n + 1 \in A
  <2>0. ASSUME NEW S \in SUBSET U, Cardinality(S) = n PROVE Total(m, S) \in Int /\ Adds(S)
    BY <1>2, <2>0
  <2>1. ASSUME NEW S \in SUBSET U, Cardinality(S) = n + 1, NEW x \in S
        PROVE  /\ Total(m, S \ {x}) \in Int /\ Adds(S \ {x})
               /\ Total(m, S) = Total(m, S \ {x}) + m[x]
    <3>1. S \ {x} \in SUBSET U /\ Cardinality(S \ {x}) = n /\ x \in U \ (S \ {x})
      <4>1. Cardinality(S \ {x}) = Cardinality(S) - 1
        BY <1>0, FS_RemoveElement
      <4> QED BY <2>1, <4>1
    <3>2. Total(m, S \ {x}) \in Int /\ Adds(S \ {x})
      BY <2>0, <3>1
    <3>3. (S \ {x}) \cup {x} = S
      OBVIOUS
    <3>4. Total(m, (S \ {x}) \cup {x}) = Total(m, S \ {x}) + m[x]
      BY <3>1, <3>2
    <3> QED BY <3>2, <3>3, <3>4
  <2> SUFFICES ASSUME NEW S \in SUBSET U, Cardinality(S) = n + 1
               PROVE  Total(m, S) \in Int /\ Adds(S)
    OBVIOUS
  <2>2. Total(m, S) \in Int
    <3>0. S # {}
      BY <1>0
    <3>1. PICK x \in S : TRUE
      BY <3>0
    <3>2. Total(m, S) = Total(m, S \ {x}) + m[x] /\ Total(m, S \ {x}) \in Int /\ m[x] \in Int
      BY <2>1
    <3> QED BY <3>2
  <2>3. ASSUME NEW y \in U \ S PROVE Total(m, S \cup {y}) = Total(m, S) + m[y]
    <3> DEFINE W == S \cup {y}
               x == Pick(W)
    <3>1. IsFiniteSet(W) /\ x \in W /\ W # {}
      <4>1. y \in W
        OBVIOUS
      <4>2. IsFiniteSet(W)
        BY <1>0, FS_AddElement
      <4> QED BY <4>1, <4>2 DEF Pick
    <3>2. Total(m, W) = m[x] + Total(m, W \ {x})
      <4> HIDE DEF W
      <4> QED BY <3>1, TotalUnfolds
    <3> HIDE DEF x
    <3>3. CASE x = y
      <4>1. W \ {x} = S /\ m[y] \in Int
        BY <3>3
      <4>2. Total(m, W) = m[y] + Total(m, S)
        BY <3>2, <3>3, <4>1
      <4> QED BY <2>2, <4>1, <4>2
    <3>4. CASE x # y
      <4>1. x \in S /\ W \ {x} = (S \ {x}) \cup {y} /\ y \in U \ (S \ {x})
        BY <3>1, <3>4
      <4>0. Adds(S \ {x})
        BY <2>1, <4>1
      <4>2. Total(m, (S \ {x}) \cup {y}) = Total(m, S \ {x}) + m[y]
        BY <4>0, <4>1
      <4>3. Total(m, S) = Total(m, S \ {x}) + m[x] /\ Total(m, S \ {x}) \in Int
        BY <2>1, <4>1
      <4>4. m[x] \in Int /\ m[y] \in Int
        BY <4>1
      <4>5. Total(m, W) = m[x] + (Total(m, S \ {x}) + m[y])
        BY <3>2, <4>1, <4>2
      <4> QED BY <4>3, <4>4, <4>5
    <3> QED BY <3>3, <3>4
  <2> QED BY <2>2, <2>3
<1>3. Nat \subseteq A
  <2> HIDE DEF A
  <2> QED BY <1>1, <1>2, Induction
<1>4. ASSUME NEW S \in SUBSET U PROVE Total(m, S) \in Int /\ Adds(S)
  BY <1>0, <1>3
<1> QED BY <1>4

-----------------------------------------------------------------------------
(* The context of a call                                                   *)

\* Two of the latest observations are never equal: the sources or the times differ.
LEMMA LatestDiffer ==
  ASSUME NEW obs, IsContext(obs)
  PROVE  \A i, j \in Latest(obs) : obs[i] = obs[j] => i = j
BY DEF Latest, Superseded, IsContext, IsObservation

\* The image of a set under an injection is as large as the set.
LEMMA ImageSize ==
  ASSUME NEW f, NEW S, IsFiniteSet(S), \A i, j \in S : f[i] = f[j] => i = j,
         NEW T, T = {f[i] : i \in S}
  PROVE  IsFiniteSet(T) /\ Cardinality(T) = Cardinality(S)
<1> DEFINE g == [i \in S |-> f[i]]
<1>1. g \in Bijection(S, T)
  BY DEF Bijection, Injection, Surjection, IsInjective
<1>2. ExistsBijection(S, T)
  BY <1>1 DEF ExistsBijection
<1> QED BY <1>2, FS_Bijection

\* An observation read again has no version, or tells what its source says now.
LEMMA RefreshKeeps ==
  ASSUME NEW o, IsObservation(o), NEW w \in [Things -> Nat], NEW lost \in BOOLEAN, NEW now \in Nat,
         NEW since \in [Things -> Nat], NotAfter(since, w)
  PROVE  LET p == Refresh(o, w, lost, now)
         IN IsObservation(p) /\ (p.fact /\ p.ver # 0 => WasSo(p, since, w))
<1> DEFINE p == Refresh(o, w, lost, now)
<1>0. \A t \in Things : since[t] \in Nat /\ w[t] \in Nat /\ w[t] \in since[t]..w[t]
  BY DEF NotAfter
<1>1. IsObservation(Unversioned(o)) /\ Unversioned(o).ver = 0
  BY DEF IsObservation, Unversioned
<1>2. CASE ~HasSource(o)
  <2>1. p = o
    BY <1>2 DEF Refresh
  <2>2. ~(o.fact /\ o.ver # 0)
    BY <1>2 DEF HasSource, IsObservation
  <2> QED BY <2>1, <2>2
<1>3. CASE HasSource(o) /\ o.src = "policy"
  <2>1. \/ p = Unversioned(o)
        \/ p = o /\ (o.ev = {} \/ Resolves(o, w))
    BY <1>3 DEF Refresh
  <2>2. CASE p = Unversioned(o)
    BY <1>1, <2>2
  <2>3. CASE p = o /\ (o.ev = {} \/ Resolves(o, w))
    <3>1. w.text \in since.text..w.text
      BY <1>0 DEF Things
    <3>2. \A e \in o.ev : e[2] = w.text
      BY <2>3 DEF Resolves, EvidenceIn
    <3>3. WasSo(o, since, w)
      BY <1>3, <3>1, <3>2 DEF WasSo
    <3> QED BY <2>3, <3>3
  <2> QED BY <2>1, <2>2, <2>3
<1>4. CASE HasSource(o) /\ o.src # "policy"
  <2>0. o.src \in Things /\ w[o.src] \in Nat /\ w[o.src] \in since[o.src]..w[o.src]
    BY <1>0, <1>4 DEF HasSource, Things
  <2>1. \/ p = Unversioned(o)
        \/ p = o /\ o.ver = w[o.src]
        \/ p = Replaced(o, w, now)
    BY <1>4 DEF Refresh
  <2>2. CASE p = Unversioned(o)
    BY <1>1, <2>2
  <2>3. CASE p = o /\ o.ver = w[o.src]
    BY <1>4, <2>0, <2>3 DEF WasSo
  <2>4. CASE p = Replaced(o, w, now)
    <3> DEFINE r == Replaced(o, w, now)
    <3>1. IsObservation(r) /\ r.src = o.src /\ r.ver = w[o.src]
      BY <2>0 DEF IsObservation, Replaced
    <3> HIDE DEF r
    <3>2. WasSo(r, since, w)
      BY <1>4, <2>0, <3>1 DEF WasSo
    <3> QED BY <2>4, <3>1, <3>2 DEF r
  <2> QED BY <2>1, <2>2, <2>3, <2>4
<1> QED BY <1>2, <1>3, <1>4

\* The context with one observation read again is a context.
LEMMA ContextWith ==
  ASSUME NEW obs, IsContext(obs), NEW k \in DOMAIN obs, NEW o, IsObservation(o)
  PROVE  LET new == [obs EXCEPT ![k] = o]
         IN /\ IsContext(new) /\ DOMAIN new = DOMAIN obs
            /\ new[k] = o /\ \A i \in DOMAIN obs : i # k => new[i] = obs[i]
<1> DEFINE new == [obs EXCEPT ![k] = o]
<1>1. /\ DOMAIN new = 1..Len(obs) /\ new[k] = o
      /\ \A i \in 1..Len(obs) : i # k => new[i] = obs[i]
  BY DEF IsContext
<1>2. new = [i \in 1..Len(obs) |-> new[i]]
  BY DEF IsContext
<1> HIDE DEF new
<1>3. Len(new) = Len(obs) /\ Len(obs) \in Nat
  <2> DEFINE S == {new[i] : i \in 1..Len(obs)}
  <2>1. new \in [1..Len(obs) -> S] /\ Len(obs) \in Nat
    BY <1>1, <1>2 DEF IsContext
  <2> HIDE DEF S
  <2> QED BY <2>1
<1>4. \A i \in DOMAIN new : IsObservation(new[i])
  BY <1>1 DEF IsContext
<1>5. IsContext(new)
  BY <1>1, <1>2, <1>3, <1>4 DEF IsContext
<1> QED BY <1>1, <1>5 DEF new, IsContext

\* What was so stays so while the sources go on changing.
LEMMA WasSoStays ==
  ASSUME NEW o, NEW since \in [Things -> Nat], NEW w \in [Things -> Nat], NEW w1 \in [Things -> Nat],
         NotAfter(w, w1), o.src \in Sources, WasSo(o, since, w)
  PROVE  WasSo(o, since, w1)
BY DEF WasSo, NotAfter, Things

\* A context that is shown costs what its items and the messages cost, up to
\* the budget, and its facts have versions.
LEMMA ContextCost ==
  ASSUME NEW obs, IsContext(obs), NEW chat \in Nat, NEW torn, NEW budget \in Int, NEW base \in Nat
  PROVE  LET pack == Build(obs, chat, torn, budget, base)
         IN /\ IsFiniteSet(pack.shown)
            /\ \A o \in pack.shown : o.fact => \E i \in DOMAIN obs : o = obs[i] /\ o.ver # 0
            /\ pack.why = "ready" =>
                 /\ pack.cost = Small(base + Cardinality(pack.shown) + chat, budget)
                 /\ pack.cost \in Nat
<1> DEFINE chosen == Selected(obs, torn)
           facts  == {i \in chosen : obs[i].fact}
           room   == budget - base - Cardinality(facts)
           notes  == KeptNotes(obs, chosen \ facts, room)
           shn    == facts \cup notes
           spare  == room - Cardinality(notes)
           why    == IF Conflicting(obs, torn) # {} THEN "context_conflict"
                     ELSE IF IsStale(obs, shn) THEN "context_stale"
                     ELSE IF budget <= 0 \/ room < 0 THEN "context_missing"
                     ELSE "ready"
           items  == {obs[i] : i \in shn}
           pack   == Build(obs, chat, torn, budget, base)
<1>1. pack = IF why # "ready" THEN [why |-> why, shown |-> {}, cost |-> 0]
             ELSE [why |-> why, shown |-> items,
                   cost |-> base + Cardinality(shn) + (IF chat < spare THEN chat ELSE spare)]
  BY DEF Build
<1>2. chosen \subseteq Verified(obs) /\ Verified(obs) \subseteq Latest(obs) /\ Latest(obs) \subseteq 1..Len(obs)
  BY DEF Selected, Verified, Latest, IsContext
<1>3. facts \subseteq chosen /\ notes \subseteq chosen \ facts /\ shn \subseteq Latest(obs)
  BY <1>2 DEF KeptNotes
<1>4. IsFiniteSet(1..Len(obs)) /\ IsFiniteSet(facts) /\ IsFiniteSet(notes) /\ IsFiniteSet(shn)
  <2>1. IsFiniteSet(1..Len(obs))
    BY FS_Interval DEF IsContext
  <2> HIDE DEF facts, notes, shn
  <2>2. facts \in SUBSET (1..Len(obs)) /\ notes \in SUBSET (1..Len(obs)) /\ shn \in SUBSET (1..Len(obs))
    BY <1>2, <1>3
  <2> QED BY <2>1, <2>2, FS_Subset
<1>5. Cardinality(shn) = Cardinality(facts) + Cardinality(notes)
  <2> DEFINE F == facts
             N == notes
  <2>1. shn = F \cup N /\ F \cap N = {}
    <3>1. notes \subseteq chosen \ facts
      BY <1>3
    <3> HIDE DEF facts, notes
    <3> QED BY <3>1 DEF F, N
  <2>2. IsFiniteSet(F) /\ IsFiniteSet(N)
    BY <1>4
  <2> HIDE DEF F, N
  <2>3. Cardinality(F \cup N) = Cardinality(F) + Cardinality(N) - Cardinality(F \cap N)
    BY <2>2, FS_Union
  <2>4. Cardinality(F \cap N) = 0 /\ Cardinality(F) \in Nat /\ Cardinality(N) \in Nat
    BY <2>1, <2>2, FS_EmptySet, FS_CardinalityType
  <2>5. Cardinality(F \cup N) = Cardinality(F) + Cardinality(N)
    BY <2>3, <2>4
  <2>6. Cardinality(shn) = Cardinality(F \cup N)
    BY <2>1
  <2> QED BY <2>5, <2>6 DEF F, N
<1>6. IsFiniteSet(items) /\ Cardinality(items) = Cardinality(shn)
  <2> HIDE DEF shn
  <2>1. \A i, j \in shn : obs[i] = obs[j] => i = j
    BY <1>3, LatestDiffer
  <2>2. items = {obs[i] : i \in shn}
    OBVIOUS
  <2> HIDE DEF items
  <2> QED BY <2>1, <2>2, <1>4, ImageSize
<1>7. Cardinality(facts) \in Nat /\ Cardinality(notes) \in Nat /\ Cardinality(shn) \in Nat
  <2> HIDE DEF facts, notes, shn
  <2> QED BY <1>4, FS_CardinalityType
<1>8. IsFiniteSet(pack.shown)
  <2> HIDE DEF why, items
  <2> QED BY <1>1, <1>6, FS_EmptySet
<1>9. \A o \in pack.shown : o.fact => \E i \in DOMAIN obs : o = obs[i] /\ o.ver # 0
  <2>1. \A o \in pack.shown : \E i \in shn : o = obs[i]
    <3> HIDE DEF why
    <3> QED BY <1>1
  <2>2. \A i \in shn : i \in DOMAIN obs /\ (obs[i].fact => obs[i].ver # 0)
    BY <1>2, <1>3 DEF Verified, Latest
  <2> QED BY <2>1, <2>2
<1>10. ASSUME pack.why = "ready"
       PROVE  /\ pack.cost = Small(base + Cardinality(pack.shown) + chat, budget)
              /\ pack.cost \in Nat
  <2> HIDE DEF pack, items, shn, facts, notes
  <2>1. why = "ready" /\ budget > 0
    BY <1>1, <1>10
  <2>2. /\ Cardinality(pack.shown) = Cardinality(shn)
        /\ pack.cost = base + Cardinality(shn) + (IF chat < spare THEN chat ELSE spare)
    <3> HIDE DEF why, spare
    <3> QED BY <1>1, <1>6, <2>1
  <2>3. base + Cardinality(shn) + spare = budget
    BY <1>5, <1>7
  <2>4. spare \in Int
    BY <1>7
  <2> HIDE DEF spare
  <2> QED BY <1>7, <2>1, <2>2, <2>3, <2>4 DEF Small
<1> HIDE DEF pack
<1> QED BY <1>8, <1>9, <1>10 DEF pack

-----------------------------------------------------------------------------
(* What the calls of a case cost                                           *)

LEMMA NumbersFinite ==
  ASSUME NEW c, NEW k \in Nat
  PROVE  IsFiniteSet(Numbers(c, k)) /\ Cardinality(Numbers(c, k)) = k
<1> DEFINE f == [j \in 1..k |-> <<c, j>>]
<1>1. IsFiniteSet(1..k) /\ Cardinality(1..k) = k
  BY FS_Interval
<1>2. \A i, j \in 1..k : f[i] = f[j] => i = j
  OBVIOUS
<1>3. Numbers(c, k) = {f[j] : j \in 1..k}
  BY DEF Numbers
<1> HIDE DEF f
<1> QED BY <1>1, <1>2, <1>3, ImageSize

LEMMA SpentZero == ASSUME NEW mt, NEW c PROVE Spent(mt, c, 0) = 0
<1>1. Numbers(c, 0) = {}
  BY DEF Numbers
<1> QED BY <1>1, TotalEmpty DEF Spent

LEMMA SpentSame ==
  ASSUME NEW mt, NEW mu, NEW c, NEW k \in Nat, \A j \in 1..k : mt[<<c, j>>] = mu[<<c, j>>]
  PROVE  Spent(mt, c, k) = Spent(mu, c, k)
<1>1. \A x \in Numbers(c, k) : mt[x] = mu[x]
  BY DEF Numbers
<1> QED BY <1>1, NumbersFinite, TotalSame DEF Spent

LEMMA SpentNext ==
  ASSUME NEW mt, NEW c, NEW k \in Nat, \A j \in 1..(k + 1) : mt[<<c, j>>] \in Nat
  PROVE  Spent(mt, c, k) \in Int /\ Spent(mt, c, k + 1) = Spent(mt, c, k) + mt[<<c, k + 1>>]
<1> DEFINE S == Numbers(c, k)
           U == Numbers(c, k + 1)
           y == <<c, k + 1>>
<1>1. U = S \cup {y}
  <2>1. 1..(k + 1) = (1..k) \cup {k + 1}
    OBVIOUS
  <2> QED BY <2>1 DEF Numbers
<1>2. y \notin S /\ y \in U /\ S \in SUBSET U
  BY <1>1 DEF Numbers
<1>3. IsFiniteSet(U) /\ \A x \in U : mt[x] \in Int
  <2>1. IsFiniteSet(U)
    BY NumbersFinite
  <2>2. \A x \in U : mt[x] \in Int
    BY DEF Numbers
  <2> QED BY <2>1, <2>2
<1> HIDE DEF S, U, y
<1>4. Total(mt, S) \in Int /\ Total(mt, S \cup {y}) = Total(mt, S) + mt[y]
  BY <1>2, <1>3, TotalAdds
<1> QED BY <1>1, <1>4 DEF S, U, y, Spent

LEMMA SpentGrows ==
  ASSUME NEW mt, NEW c, NEW k \in Nat, \A j \in 1..k : mt[<<c, j>>] \in Nat
  PROVE  \A n \in 0..k : \A j \in 0..n : /\ Spent(mt, c, j) \in Nat /\ Spent(mt, c, n) \in Nat
                                         /\ Spent(mt, c, j) <= Spent(mt, c, n)
<1> DEFINE A == {n \in Nat : n <= k =>
                   /\ Spent(mt, c, n) \in Nat
                   /\ \A j \in 0..n : Spent(mt, c, j) \in Nat /\ Spent(mt, c, j) <= Spent(mt, c, n)}
<1>1. 0 \in A
  BY SpentZero
<1>2. ASSUME NEW n \in Nat, n \in A PROVE n + 1 \in A
  <2> SUFFICES ASSUME n + 1 <= k
               PROVE  /\ Spent(mt, c, n + 1) \in Nat
                      /\ \A j \in 0..(n + 1) : Spent(mt, c, j) \in Nat /\ Spent(mt, c, j) <= Spent(mt, c, n + 1)
    OBVIOUS
  <2>1. Spent(mt, c, n + 1) = Spent(mt, c, n) + mt[<<c, n + 1>>] /\ mt[<<c, n + 1>>] \in Nat
    BY SpentNext
  <2>2. Spent(mt, c, n) \in Nat /\ \A j \in 0..n : Spent(mt, c, j) \in Nat /\ Spent(mt, c, j) <= Spent(mt, c, n)
    BY <1>2
  <2>3. 0..(n + 1) = (0..n) \cup {n + 1}
    OBVIOUS
  <2> QED BY <2>1, <2>2, <2>3
<1>3. Nat \subseteq A
  <2> HIDE DEF A
  <2> QED BY <1>1, <1>2, Induction
<1> QED BY <1>3

LEMMA Max2 ==
  ASSUME NEW a \in Int, NEW b \in Int
  PROVE  Max({a, b}) = IF a >= b THEN a ELSE b
<1> DEFINE P(x) == \A y \in {a, b} : x >= y
<1>1. \E x \in {a, b} : P(x)
  OBVIOUS
<1> HIDE DEF P
<1>2. (CHOOSE x \in {a, b} : P(x)) \in {a, b} /\ P(CHOOSE x \in {a, b} : P(x))
  BY <1>1
<1> QED BY <1>2 DEF P, Max

LEMMA Min2 ==
  ASSUME NEW a \in Int, NEW b \in Int
  PROVE  Min({a, b}) = IF a <= b THEN a ELSE b
<1> DEFINE P(x) == \A y \in {a, b} : x <= y
<1>1. \E x \in {a, b} : P(x)
  OBVIOUS
<1> HIDE DEF P
<1>2. (CHOOSE x \in {a, b} : P(x)) \in {a, b} /\ P(CHOOSE x \in {a, b} : P(x))
  BY <1>1
<1> QED BY <1>2 DEF P, Min

LEMMA BudgetIsNat ==
  ASSUME NEW rt, rt.tokens \in Int
  PROVE  InputBudget(rt) \in Nat /\ InputBudget(rt) = InputBudget([tokens |-> rt.tokens])
<1>1. MaxInput \in Int /\ MaxTokens \in Int /\ Reserve \in Int
  BY L2Assumption DEF Limits
<1> DEFINE x == Min({MaxInput, MaxTokens - rt.tokens - Reserve})
<1>2. x \in Int
  BY <1>1, Min2
<1> HIDE DEF x
<1>3. Max({0, x}) \in Nat
  BY <1>2, Max2
<1> QED BY <1>3 DEF x, InputBudget

-----------------------------------------------------------------------------
(* A state of the graph, while the rows around it grow                     *)

Counted(cs) == \A c \in DOMAIN cs : cs[c].calls \in Nat /\ cs[c].tools \in Nat

\* Counts never go back, and what is registered or decided stays.
Grows(cs, mt, mf, dc, cs1, mt1, mf1, dc1) ==
  /\ Counted(cs) /\ Counted(cs1)
  /\ \A c \in DOMAIN cs : \A k \in 1..cs[c].calls : <<c, k>> \in DOMAIN mt
  /\ \A c \in DOMAIN cs : /\ c \in DOMAIN cs1 /\ cs[c].calls <= cs1[c].calls
                          /\ cs[c].tools <= cs1[c].tools
  /\ \A id \in DOMAIN mt : id \in DOMAIN mt1 /\ mt1[id] = mt[id] /\ mf1[id] = mf[id]
  /\ dc \subseteq dc1

\* What a graph in memory or a checkpoint relies on is never taken back.
LEMMA StateStays ==
  ASSUME NEW s, NEW sh \in Nat, NEW sh1 \in Nat, sh <= sh1,
         NEW cs, NEW mt, NEW mf, NEW dc, NEW cs1, NEW mt1, NEW mf1, NEW dc1,
         Grows(cs, mt, mf, dc, cs1, mt1, mf1, dc1),
         StateOK(s, sh, cs, mt, mf, dc)
  PROVE  StateOK(s, sh1, cs1, mt1, mf1, dc1)
<1> DEFINE rt == s.rt
           c  == rt.preview
<1>1. IsState(s) /\ IsRuntime(rt) /\ c \in Nat /\ rt.calls \in Nat /\ rt.tools \in Nat
  BY DEF StateOK, IsState, IsRuntime
<1>2. c <= sh1
  BY <1>1 DEF StateOK
<1>3. \A i \in s.input : Told(i, dc1)
  BY DEF StateOK, Told, Grows
<1>4. UseOK(s.node, rt, cs1, mt1)
  <2>0. UseOK(s.node, rt, cs, mt)
    BY DEF StateOK
  <2> HIDE DEF rt
  <2>1. CASE c \in DOMAIN cs
    <3>1. /\ rt.calls <= cs[c].calls /\ rt.tools <= cs[c].tools
          /\ rt.tokens = Spent(mt, c, rt.calls)
      BY <2>0, <2>1 DEF UseOK
    <3>2. /\ c \in DOMAIN cs1 /\ cs[c].calls <= cs1[c].calls /\ cs[c].tools <= cs1[c].tools
          /\ cs[c].calls \in Nat /\ cs[c].tools \in Nat /\ cs1[c].calls \in Nat /\ cs1[c].tools \in Nat
      BY <2>1 DEF Grows, Counted
    <3>3. \A j \in 1..rt.calls : mt1[<<c, j>>] = mt[<<c, j>>]
      <4>1. \A j \in 1..rt.calls : j \in 1..cs[c].calls
        BY <1>1, <3>1, <3>2
      <4> QED BY <2>1, <4>1 DEF Grows
    <3>4. Spent(mt1, c, rt.calls) = Spent(mt, c, rt.calls)
      BY <1>1, <3>3, SpentSame
    <3>5. rt.calls <= cs1[c].calls /\ rt.tools <= cs1[c].tools
      BY <1>1, <3>1, <3>2
    <3> QED BY <3>1, <3>2, <3>4, <3>5 DEF UseOK
  <2>2. CASE c \notin DOMAIN cs
    <3>1. rt.calls = 0 /\ rt.tokens = 0 /\ rt.tools = 0 /\ s.node \in BeforeCase
      BY <2>0, <2>2 DEF UseOK
    <3>2. c \in DOMAIN cs1 => cs1[c].calls \in Nat /\ cs1[c].tools \in Nat
      BY DEF Grows, Counted
    <3>3. Spent(mt1, c, 0) = 0
      BY SpentZero
    <3> QED BY <3>1, <3>2, <3>3 DEF UseOK
  <2> QED BY <2>1, <2>2
<1>5. WorkOK(s, mt1, mf1)
  BY DEF StateOK, WorkOK, Grows, EvidenceOf
<1>6. NodeOK(s.node, rt, mf1, dc1)
  <2>0. NodeOK(s.node, rt, mf, dc) /\ UseOK(s.node, rt, cs, mt)
    BY DEF StateOK
  <2> HIDE DEF rt
  <2>1. ASSUME s.node = "finalize_resolved"
        PROVE  /\ rt.decision.ev # {} /\ rt.calls # 0
               /\ rt.decision.ev \subseteq EvidenceOf(mf1[<<c, rt.calls>>])
    <3>1. c \in DOMAIN cs /\ rt.calls <= cs[c].calls /\ rt.calls # 0
      BY <2>0, <2>1 DEF UseOK, BeforeCase, BeforePreview, NodeOK
    <3>2. <<c, rt.calls>> \in DOMAIN mt
      BY <1>1, <3>1 DEF Grows, Counted
    <3>3. mf1[<<c, rt.calls>>] = mf[<<c, rt.calls>>]
      BY <3>2 DEF Grows
    <3> QED BY <2>0, <2>1, <3>3 DEF NodeOK
  <2>2. dc \subseteq dc1
    BY DEF Grows
  <2> QED BY <2>0, <2>1, <2>2 DEF NodeOK, Consent
<1> QED BY <1>1, <1>2, <1>3, <1>4, <1>5, <1>6 DEF StateOK

LEMMA StateAt ==
  ASSUME NEW node, NEW rt, NEW q, NEW sh, NEW cs, NEW mt, NEW mf, NEW dc,
         IsRuntime(rt), rt.preview <= sh, UseOK(node, rt, cs, mt), NodeOK(node, rt, mf, dc)
  PROVE  StateOK(At(node, rt, q), sh, cs, mt, mf, dc)
<1> DEFINE s == At(node, rt, q)
<1>1. IsState(s) /\ s.node = node /\ s.rt = rt /\ s.input = {} /\ s.work.done = "nothing"
  BY DEF At, IsState
<1> HIDE DEF s
<1>2. StateOK(s, sh, cs, mt, mf, dc)
  BY <1>1 DEF StateOK, WorkOK
<1> QED BY <1>2 DEF s

LEMMA NoRuntimeIs ==
  /\ IsRuntime(NoRuntime) /\ NoRuntime.preview = 0
  /\ NoRuntime.calls = 0 /\ NoRuntime.tokens = 0 /\ NoRuntime.tools = 0
<1>1. IsContext(<<>>)
  BY DEF IsContext
<1> QED BY <1>1 DEF IsRuntime, NoRuntime

LEMMA FreshUse ==
  ASSUME NEW node \in BeforeCase, NEW rt, IsRuntime(rt), NEW cs, NEW mt, Counted(cs),
         rt.calls = 0, rt.tokens = 0, rt.tools = 0
  PROVE  UseOK(node, rt, cs, mt)
BY SpentZero DEF UseOK, Counted

LEMMA StateEnded ==
  ASSUME NEW node \in BeforePreview, NEW q, NEW sh \in Nat, NEW cs, NEW mt, NEW mf, NEW dc, Counted(cs)
  PROVE  StateOK(At(node, NoRuntime, q), sh, cs, mt, mf, dc)
<1>1. UseOK(node, NoRuntime, cs, mt)
  BY NoRuntimeIs, FreshUse DEF BeforeCase
<1>2. NodeOK(node, NoRuntime, mf, dc)
  BY DEF NodeOK, BeforePreview
<1>3. NoRuntime.preview <= sh
  BY NoRuntimeIs
<1> QED BY <1>1, <1>2, <1>3, NoRuntimeIs, StateAt

LEMMA StateInterrupted ==
  ASSUME NEW s, NEW sh \in Nat, NEW cs, NEW mt, NEW mf, NEW dc, NEW coming, Counted(cs),
         StateOK(s, sh, cs, mt, mf, dc)
  PROVE  /\ StateOK(Interrupted(s, coming), sh, cs, mt, mf, dc)
         /\ SettledOK(s, cs) => SettledOK(Interrupted(s, coming), cs)
<1>1. CASE s.paused \/ coming # {}
  <2> DEFINE t == Interrupted(s, coming)
  <2>1. t = [s EXCEPT !.input = {}, !.quota = FALSE, !.work = [done |-> "nothing"]]
    BY <1>1 DEF Interrupted
  <2>2. /\ IsState(t) /\ t.node = s.node /\ t.rt = s.rt /\ t.input = {}
        /\ t.work.done = "nothing"
    BY <2>1 DEF StateOK, IsState
  <2> HIDE DEF t
  <2>3. StateOK(t, sh, cs, mt, mf, dc) /\ (SettledOK(s, cs) => SettledOK(t, cs))
    BY <2>2 DEF StateOK, WorkOK, SettledOK
  <2> QED BY <2>3 DEF t
<1>2. CASE ~(s.paused \/ coming # {})
  <2>1. Interrupted(s, coming) = At("end", NoRuntime, FALSE)
    BY <1>2 DEF Interrupted, Ended
  <2>2. StateOK(At("end", NoRuntime, FALSE), sh, cs, mt, mf, dc)
    BY StateEnded DEF BeforePreview
  <2>3. SettledOK(At("end", NoRuntime, FALSE), cs)
    BY DEF SettledOK, At
  <2> QED BY <2>1, <2>2, <2>3
<1> QED BY <1>1, <1>2

-----------------------------------------------------------------------------
(* The rows                                                                *)

RowsGrow == Grows(cases, metered, manifest, decided, cases', metered', manifest', decided')

LEMMA Bounds ==
  /\ MaxModelCalls \in Nat /\ MaxToolCalls \in Nat /\ MaxTokens \in Nat /\ DailyLimit \in Nat
  /\ MaxInput \in Nat /\ Reserve \in Nat /\ Base \in Nat /\ Envelope \in Nat /\ Chat \in Nat
BY L2Assumption DEF Limits

LEMMA RowCounted ==
  ASSUME NEW c, NEW row, NEW mf, NEW dc, RowOK(c, row, mf, dc)
  PROVE  row.calls \in Nat /\ row.tools \in Nat
BY Bounds DEF RowOK

LEMMA AllCounted ==
  ASSUME NEW cs, NEW mf, NEW dc, \A c \in DOMAIN cs : RowOK(c, cs[c], mf, dc)
  PROVE  Counted(cs)
BY RowCounted DEF Counted

LEMMA RowsCounted ==
  ASSUME RowsOK PROVE Counted(cases)
BY AllCounted DEF RowsOK

LEMMA RowsSame ==
  ASSUME RowsOK, MetersOK, UNCHANGED <<cases, metered, manifest>>, decided \subseteq decided',
         world' \in [Things -> Nat], IsFiniteSet(pref'), \A p \in pref' : Consent(p.id, decided'),
         daily' \in 0..DailyLimit, daily <= daily'
  PROVE  RowsOK' /\ MetersOK' /\ RowsGrow
<1>1. RowsOK'
  <2>1. \A c \in DOMAIN cases : RowOK(c, cases[c], manifest, decided')
    BY DEF RowsOK, RowOK, Consent
  <2> QED BY <2>1 DEF RowsOK
<1>2. MetersOK'
  <2>1. Cardinality(DOMAIN metered) \in Nat
    BY FS_CardinalityType DEF MetersOK
  <2>2. Cardinality(DOMAIN metered) <= daily'
    BY <2>1, Bounds DEF MetersOK, RowsOK
  <2> QED BY <2>2 DEF MetersOK
<1>3. RowsGrow
  <2>1. Counted(cases)
    BY RowsCounted
  <2> QED BY <2>1 DEF RowsGrow, Grows, MetersOK, NumbersMatch, Counted
<1> QED BY <1>1, <1>2, <1>3

LEMMA AllSame ==
  ASSUME RowsOK, MetersOK, UNCHANGED rows, decided \subseteq decided'
  PROVE  RowsOK' /\ MetersOK' /\ RowsGrow
<1>1. /\ UNCHANGED <<cases, metered, manifest>> /\ world' = world /\ pref' = pref /\ daily' = daily
  BY DEF rows
<1>2. /\ world' \in [Things -> Nat] /\ IsFiniteSet(pref')
      /\ daily' \in 0..DailyLimit /\ daily <= daily'
  BY <1>1, Bounds DEF RowsOK
<1>3. \A p \in pref' : Consent(p.id, decided')
  BY <1>1 DEF RowsOK, Consent
<1> QED BY <1>1, <1>2, <1>3, RowsSame

\* transition_case, by a node whose use of the budget is that of its calls.
LEMMA TransitionKeeps ==
  ASSUME RowsOK, MetersOK, NEW rt, NEW status \in Open \cup Closed, NEW answer,
         IsRuntime(rt), CanTransition(rt.preview, status), Transition(rt, status, answer),
         rt.calls <= cases[rt.preview].calls, rt.tools <= MaxToolCalls,
         rt.tokens = Spent(metered, rt.preview, rt.calls),
         IF status = "l2_resolved"
         THEN answer # {} /\ \E k \in 1..cases[rt.preview].calls :
                               answer \subseteq EvidenceOf(manifest[<<rt.preview, k>>])
         ELSE answer = {},
         status \in Closed /\ cases[rt.preview].status = status =>
           rt.tools <= cases[rt.preview].tools /\ cases[rt.preview].answer = answer,
         UNCHANGED <<world, daily, metered, manifest>>, decided' = decided,
         IsFiniteSet(pref'), \A p \in pref' : Consent(p.id, decided)
  PROVE  /\ RowsOK' /\ MetersOK' /\ RowsGrow
         /\ DOMAIN cases' = DOMAIN cases
         /\ \A c \in DOMAIN cases : c # rt.preview => cases'[c] = cases[c]
         /\ cases'[rt.preview].status = status /\ cases'[rt.preview].answer = answer
         /\ rt.tools <= cases'[rt.preview].tools
         /\ cases[rt.preview].status \in Closed => cases'[rt.preview] = cases[rt.preview]
<1> DEFINE c   == rt.preview
           row == cases[c]
           new == cases'[c]
<1>0. /\ c \in DOMAIN cases /\ row.status \in Open \cup {status}
      /\ c \in Nat /\ rt.calls \in Nat /\ rt.tokens \in Nat /\ rt.tools \in Nat
  BY DEF CanTransition, IsRuntime
<1>1. RowOK(c, row, manifest, decided)
  BY <1>0 DEF RowsOK
<1>2. row.calls \in Nat /\ row.tokens \in Nat /\ row.tools \in Nat
  BY <1>1, Bounds DEF RowOK
<1>3. rt.tokens <= row.tokens
  <2>1. \A j \in 1..row.calls : metered[<<c, j>>] \in Nat
    BY <1>0 DEF MetersOK, NumbersMatch
  <2>2. rt.calls \in 0..row.calls /\ row.calls \in 0..row.calls
    BY <1>0, <1>2
  <2>3. Spent(metered, c, rt.calls) <= Spent(metered, c, row.calls)
    BY <1>2, <2>1, <2>2, SpentGrows
  <2> QED BY <1>0, <2>3 DEF MetersOK
<1>4. /\ Max({row.calls, rt.calls}) = row.calls /\ Max({row.tokens, rt.tokens}) = row.tokens
      /\ Max({row.tools, rt.tools}) = IF row.tools >= rt.tools THEN row.tools ELSE rt.tools
  BY <1>0, <1>2, <1>3, Max2
<1>5. cases' = [cases EXCEPT ![c] = [status |-> status, answer |-> answer,
                  calls |-> row.calls, tokens |-> row.tokens,
                  tools |-> IF row.tools >= rt.tools THEN row.tools ELSE rt.tools]]
  BY <1>4 DEF Transition
<1>6. /\ DOMAIN cases' = DOMAIN cases
      /\ \A d \in DOMAIN cases : d # c => cases'[d] = cases[d]
      /\ new = [status |-> status, answer |-> answer, calls |-> row.calls, tokens |-> row.tokens,
                tools |-> IF row.tools >= rt.tools THEN row.tools ELSE rt.tools]
  BY <1>0, <1>5
<1> HIDE DEF c, row, new
<1>7. /\ new.status = status /\ new.answer = answer /\ new.calls = row.calls
      /\ new.tokens = row.tokens /\ rt.tools <= new.tools /\ row.tools <= new.tools
      /\ new.tools \in 0..MaxToolCalls
      /\ new = [status |-> new.status, answer |-> new.answer, calls |-> new.calls,
                tokens |-> new.tokens, tools |-> new.tools]
  BY <1>0, <1>1, <1>2, <1>6, Bounds DEF RowOK, c
<1>8. RowOK(c, new, manifest, decided)
  BY <1>1, <1>7 DEF RowOK, c, row
<1>9. RowsOK'
  <2>1. \A d \in DOMAIN cases' : RowOK(d, cases'[d], manifest', decided')
    BY <1>6, <1>8 DEF RowsOK, new
  <2> QED BY <2>1 DEF RowsOK
<1>10. \A d \in DOMAIN cases : /\ cases'[d].calls = cases[d].calls /\ cases'[d].tokens = cases[d].tokens
                               /\ cases[d].tools \in Nat /\ cases[d].tools <= cases'[d].tools
  <2> TAKE d \in DOMAIN cases
  <2>1. cases[d].tools \in Nat
    BY RowsCounted DEF Counted
  <2>2. CASE d = c
    BY <1>7, <2>1, <2>2 DEF new, row
  <2>3. CASE d # c
    BY <1>6, <2>1, <2>3
  <2> QED BY <2>2, <2>3
<1>11. MetersOK'
  BY <1>6, <1>10 DEF MetersOK, NumbersMatch
<1>12. RowsGrow
  <2>1. Counted(cases)
    BY RowsCounted
  <2>2. Counted(cases')
    BY <1>9, AllCounted DEF RowsOK
  <2>3. \A d \in DOMAIN cases : cases[d].calls <= cases'[d].calls
    BY <1>10, <2>1 DEF Counted
  <2> QED BY <1>6, <1>10, <2>1, <2>2, <2>3 DEF RowsGrow, Grows, MetersOK, NumbersMatch
<1>13. ASSUME row.status \in Closed PROVE new = row
  <2>1. row.status = status /\ status \in Closed
    BY <1>0, <1>13 DEF Open, Closed
  <2>2. rt.tools <= row.tools /\ row.answer = answer
    BY <2>1 DEF row, c
  <2>3. row = [status |-> row.status, answer |-> row.answer, calls |-> row.calls,
               tokens |-> row.tokens, tools |-> row.tools]
    BY <1>1 DEF RowOK
  <2> QED BY <1>0, <1>2, <1>6, <2>1, <2>2, <2>3
<1> QED BY <1>6, <1>7, <1>9, <1>11, <1>12, <1>13 DEF c, row, new

\* save_manifest_once adds a context and replaces none.
LEMMA ManifestKeeps ==
  ASSUME RowsOK, MetersOK, UNCHANGED <<world, pref, daily, cases, metered>>, decided' = decided,
         DOMAIN manifest \subseteq DOMAIN manifest',
         \A i \in DOMAIN manifest : manifest'[i] = manifest[i]
  PROVE  RowsOK' /\ MetersOK' /\ RowsGrow
<1>1. \A c \in DOMAIN cases : \A k \in 1..cases[c].calls : manifest'[<<c, k>>] = manifest[<<c, k>>]
  BY DEF MetersOK, NumbersMatch
<1>2. RowsOK'
  <2>1. ASSUME NEW c \in DOMAIN cases PROVE RowOK(c, cases[c], manifest', decided)
    <3>1. RowOK(c, cases[c], manifest, decided)
      BY DEF RowsOK
    <3> QED BY <1>1, <3>1 DEF RowOK
  <2> QED BY <2>1 DEF RowsOK
<1>3. MetersOK'
  BY DEF MetersOK
<1>4. RowsGrow
  BY RowsCounted DEF RowsGrow, Grows, Counted, MetersOK, NumbersMatch
<1> QED BY <1>2, <1>3, <1>4

\* begin_model_call: the next call of the case, or one made again.
LEMMA ChargeKeeps ==
  ASSUME RowsOK, MetersOK, NEW c \in DOMAIN cases, NEW n \in Nat, n <= cases[c].calls,
         <<c, n + 1>> \in DOMAIN manifest,
         NEW charge \in Nat, charge = ChargeOf(manifest[<<c, n + 1>>], Spent(metered, c, n)),
         Registered(<<c, n + 1>>) \/ CanCharge(c, charge), Charge(<<c, n + 1>>, charge),
         UNCHANGED <<world, pref, manifest>>, decided' = decided
  PROVE  /\ RowsOK' /\ MetersOK' /\ RowsGrow
         /\ DOMAIN cases' = DOMAIN cases
         /\ \A d \in DOMAIN cases : /\ cases'[d].status = cases[d].status
                                    /\ cases'[d].answer = cases[d].answer
                                    /\ cases[d].status \in Closed => cases'[d] = cases[d]
         /\ <<c, n + 1>> \in DOMAIN metered' /\ metered'[<<c, n + 1>>] = charge
<1> DEFINE id == <<c, n + 1>>
<1>1. id \in DOMAIN manifest /\ manifest' = manifest
  OBVIOUS
<1>3. manifest'[id] = manifest[id]
  OBVIOUS
<1>4. Counted(cases) /\ cases[c].calls \in Nat
  BY RowsCounted DEF Counted
<1>5. CASE Registered(id)
  <2>1. UNCHANGED <<daily, cases, metered>>
    BY <1>5 DEF Charge
  <2>2. RowsOK' /\ MetersOK' /\ RowsGrow
    BY <1>1, <2>1, ManifestKeeps
  <2>3. id \in DOMAIN metered /\ id \in DOMAIN manifest
    BY <1>5 DEF Registered, MetersOK
  <2>4. metered[id] = ChargeOf(manifest[id], Spent(metered, id[1], id[2] - 1))
    BY <2>3 DEF MetersOK
  <2>5. id[1] = c /\ id[2] - 1 = n
    OBVIOUS
  <2>6. metered[id] = charge
    BY <2>3, <2>4, <2>5
  <2> QED BY <1>3, <2>1, <2>2, <2>3, <2>6
<1>6. CASE ~Registered(id)
  <2>0. CanCharge(c, charge) /\ id \notin DOMAIN metered
    BY <1>6 DEF Registered
  <2>1. n = cases[c].calls
    <3>1. ~(n + 1 \in 1..cases[c].calls)
      BY <2>0 DEF MetersOK, NumbersMatch
    <3> QED BY <1>4, <3>1
  <2>2. /\ daily' = daily + 1
        /\ cases' = [cases EXCEPT ![c].calls = @ + 1, ![c].tokens = @ + charge]
        /\ metered' = Stored(metered, id, charge)
    BY <1>6 DEF Charge
  <2>3. /\ DOMAIN metered' = DOMAIN metered \cup {id}
        /\ metered'[id] = charge
        /\ \A i \in DOMAIN metered : metered'[i] = metered[i]
    BY <2>0, <2>2 DEF Stored
  <2>4. RowOK(c, cases[c], manifest, decided)
    BY DEF RowsOK
  <2>5. /\ DOMAIN cases' = DOMAIN cases
        /\ \A d \in DOMAIN cases : d # c => cases'[d] = cases[d]
        /\ cases'[c] = [cases[c] EXCEPT !.calls = cases[c].calls + 1, !.tokens = cases[c].tokens + charge]
    BY <2>2
  <2>6. cases'[c] = [status |-> cases[c].status, answer |-> cases[c].answer, calls |-> cases[c].calls + 1,
                     tokens |-> cases[c].tokens + charge, tools |-> cases[c].tools]
    BY <2>4, <2>5 DEF RowOK
  <2>7. /\ cases[c].status = "l2_active" /\ cases[c].calls < MaxModelCalls
        /\ cases[c].tokens + charge <= MaxTokens /\ daily < DailyLimit
    BY <2>0 DEF CanCharge
  <2>8. \A d \in DOMAIN cases : \A k \in 1..cases[d].calls :
          /\ <<d, k>> \in DOMAIN metered /\ <<d, k>> \in DOMAIN manifest
          /\ manifest'[<<d, k>>] = manifest[<<d, k>>] /\ metered'[<<d, k>>] = metered[<<d, k>>]
    BY <1>1, <2>3 DEF MetersOK, NumbersMatch
  <2>9. RowsOK'
    <3>1. RowOK(c, cases'[c], manifest', decided)
      <4>1. /\ cases[c].calls + 1 \in 0..MaxModelCalls /\ cases[c].tokens + charge \in 0..MaxTokens
        BY <2>4, <2>7, Bounds DEF RowOK
      <4>2. cases[c].answer = {} /\ cases[c].status # "l2_resolved"
        BY <2>4, <2>7 DEF RowOK
      <4> QED BY <2>4, <2>6, <4>1, <4>2 DEF RowOK
    <3>2. ASSUME NEW d \in DOMAIN cases, d # c PROVE RowOK(d, cases'[d], manifest', decided)
      <4>1. RowOK(d, cases[d], manifest, decided) /\ cases'[d] = cases[d]
        BY <2>5, <3>2 DEF RowsOK
      <4> QED BY <2>8, <4>1 DEF RowOK
    <3>3. daily' \in 0..DailyLimit
      BY <2>2, <2>7, Bounds DEF RowsOK
    <3> QED BY <2>5, <3>1, <3>2, <3>3 DEF RowsOK
  <2>10. /\ cases'[c].calls = n + 1
         /\ \A d \in DOMAIN cases : d # c => cases'[d].calls = cases[d].calls
    BY <2>1, <2>5, <2>6
  <2>11. NumbersMatch(cases', metered')
    <3>1. ASSUME NEW i \in DOMAIN metered'
          PROVE  i = <<i[1], i[2]>> /\ i[1] \in DOMAIN cases' /\ i[2] \in 1..cases'[i[1]].calls
      <4>1. CASE i = id
        <5>1. i[1] = c /\ i[2] = n + 1 /\ i = <<i[1], i[2]>>
          BY <4>1
        <5>2. c \in DOMAIN cases' /\ n + 1 \in 1..cases'[c].calls
          BY <2>5, <2>10
        <5> QED BY <5>1, <5>2
      <4>2. CASE i \in DOMAIN metered
        <5>1. i = <<i[1], i[2]>> /\ i[1] \in DOMAIN cases /\ i[2] \in 1..cases[i[1]].calls
          BY <4>2 DEF MetersOK, NumbersMatch
        <5>2. CASE i[1] = c
          <6>1. i[2] \in 1..n /\ i[2] \in 1..(n + 1)
            BY <2>1, <5>1, <5>2
          <6>2. cases'[i[1]].calls = n + 1 /\ i[1] \in DOMAIN cases'
            BY <2>5, <2>10, <5>2
          <6> QED BY <5>1, <6>1, <6>2
        <5>3. CASE i[1] # c
          BY <2>5, <2>10, <5>1, <5>3
        <5> QED BY <5>2, <5>3
      <4> QED BY <2>3, <4>1, <4>2
    <3>2. ASSUME NEW d \in DOMAIN cases', NEW k \in 1..cases'[d].calls PROVE <<d, k>> \in DOMAIN metered'
      <4>1. CASE d = c /\ k = n + 1
        BY <2>3, <4>1
      <4>2. CASE ~(d = c /\ k = n + 1)
        <5>1. k \in 1..cases[d].calls
          <6>1. CASE d = c
            <7>1. k \in 1..(n + 1) /\ k # n + 1 /\ cases[d].calls = n
              BY <2>1, <2>10, <4>2, <6>1
            <7> QED BY <7>1
          <6>2. CASE d # c
            BY <2>5, <2>10, <6>2
          <6> QED BY <6>1, <6>2
        <5> QED BY <2>3, <2>5, <2>8, <5>1
      <4> QED BY <4>1, <4>2
    <3> QED BY <3>1, <3>2 DEF NumbersMatch
  <2>12. \A d \in DOMAIN cases : \A k \in 0..cases[d].calls : Spent(metered', d, k) = Spent(metered, d, k)
    <3> TAKE d \in DOMAIN cases
    <3> TAKE k \in 0..cases[d].calls
    <3>1. k \in Nat /\ \A j \in 1..k : j \in 1..cases[d].calls
      BY RowsCounted DEF Counted
    <3>2. \A j \in 1..k : metered'[<<d, j>>] = metered[<<d, j>>]
      BY <2>8, <3>1
    <3> QED BY <3>1, <3>2, SpentSame
  <2>13. \A i \in DOMAIN metered' :
           /\ i \in DOMAIN manifest' /\ metered'[i] \in Nat
           /\ metered'[i] = ChargeOf(manifest'[i], Spent(metered', i[1], i[2] - 1))
    <3> TAKE i \in DOMAIN metered'
    <3>1. CASE i = id
      <4>1. i[1] = c /\ i[2] - 1 = n /\ n \in 0..cases[c].calls
        BY <1>4, <2>1, <3>1
      <4>2. Spent(metered', c, n) = Spent(metered, c, n)
        BY <2>12, <4>1
      <4> QED BY <1>1, <1>3, <2>3, <3>1, <4>1, <4>2
    <3>2. CASE i \in DOMAIN metered
      <4>1. /\ i[1] \in DOMAIN cases /\ i[2] \in 1..cases[i[1]].calls
            /\ i \in DOMAIN manifest /\ metered[i] \in Nat
            /\ metered[i] = ChargeOf(manifest[i], Spent(metered, i[1], i[2] - 1))
        BY <3>2 DEF MetersOK, NumbersMatch
      <4>2. i[2] - 1 \in 0..cases[i[1]].calls
        BY <4>1, RowsCounted DEF Counted
      <4>3. Spent(metered', i[1], i[2] - 1) = Spent(metered, i[1], i[2] - 1)
        BY <2>12, <4>1, <4>2
      <4> QED BY <1>1, <2>3, <3>2, <4>1, <4>3
    <3> QED BY <2>3, <3>1, <3>2
  <2>14. \A d \in DOMAIN cases' : cases'[d].tokens = Spent(metered', d, cases'[d].calls)
    <3> TAKE d \in DOMAIN cases'
    <3>1. cases[d].tokens = Spent(metered, d, cases[d].calls) /\ cases[d].calls \in Nat
      BY <2>5, RowsCounted DEF MetersOK, Counted
    <3>2. CASE d = c
      <4>1. \A j \in 1..(n + 1) : metered'[<<c, j>>] \in Nat
        <5>1. \A j \in 1..(n + 1) : <<c, j>> \in DOMAIN metered'
          BY <2>5, <2>10, <2>11 DEF NumbersMatch
        <5> QED BY <2>13, <5>1
      <4>2. Spent(metered', c, n + 1) = Spent(metered', c, n) + metered'[id]
        BY <4>1, SpentNext
      <4>3. Spent(metered', c, n) = Spent(metered, c, n)
        BY <1>4, <2>1, <2>12
      <4>4. cases'[c].tokens = cases[c].tokens + charge
        BY <2>6
      <4> QED BY <2>1, <2>3, <2>10, <3>1, <3>2, <4>2, <4>3, <4>4
    <3>3. CASE d # c
      BY <2>5, <2>12, <3>1, <3>3
    <3> QED BY <3>2, <3>3
  <2>15. IsFiniteSet(DOMAIN metered') /\ Cardinality(DOMAIN metered') <= daily'
    <3>1. IsFiniteSet(DOMAIN metered) /\ Cardinality(DOMAIN metered) <= daily
      BY DEF MetersOK
    <3>2. Cardinality(DOMAIN metered) \in Nat /\ daily \in Int
      BY <3>1, FS_CardinalityType, Bounds DEF RowsOK
    <3>3. IsFiniteSet(DOMAIN metered \cup {id})
          /\ Cardinality(DOMAIN metered \cup {id}) = Cardinality(DOMAIN metered) + 1
      BY <2>0, <3>1, FS_AddElement
    <3> QED BY <2>2, <2>3, <3>1, <3>2, <3>3
  <2>16. MetersOK'
    BY <2>11, <2>13, <2>14, <2>15 DEF MetersOK
  <2>17. RowsGrow
    <3>1. Counted(cases')
      BY <2>9, AllCounted DEF RowsOK
    <3>2. \A d \in DOMAIN cases : cases[d].calls <= cases'[d].calls /\ cases[d].tools <= cases'[d].tools
      <4> TAKE d \in DOMAIN cases
      <4>1. cases[d].calls \in Nat /\ cases[d].tools \in Nat
        BY <1>4 DEF Counted
      <4>2. CASE d = c
        BY <2>6, <4>1, <4>2
      <4>3. CASE d # c
        BY <2>5, <4>1, <4>3
      <4> QED BY <4>2, <4>3
    <3>3. \A i \in DOMAIN metered : i \in DOMAIN metered' /\ metered'[i] = metered[i] /\ manifest'[i] = manifest[i]
      BY <1>1, <2>3 DEF MetersOK
    <3> QED BY <1>4, <2>5, <2>8, <3>1, <3>2, <3>3 DEF RowsGrow, Grows
  <2>18. \A d \in DOMAIN cases : /\ cases'[d].status = cases[d].status
                                 /\ cases'[d].answer = cases[d].answer
                                 /\ cases[d].status \in Closed => cases'[d] = cases[d]
    <3>1. cases[c].status \notin Closed
      BY <2>7 DEF Closed
    <3> QED BY <2>5, <2>6, <3>1
  <2> QED BY <1>3, <2>3, <2>5, <2>9, <2>16, <2>17, <2>18
<1> QED BY <1>5, <1>6

\* create_case, after a confirmation.
LEMMA CreateKeeps ==
  ASSUME RowsOK, MetersOK, NEW c,
         Consent(<<"upgrade", <<c, 0>>>>, decided),
         cases' = Stored(cases, c, [status |-> "l2_active", answer |-> {},
                                    calls |-> 0, tokens |-> 0, tools |-> 0]),
         UNCHANGED <<world, pref, daily, metered, manifest>>, decided' = decided
  PROVE  /\ RowsOK' /\ MetersOK' /\ RowsGrow
         /\ c \in DOMAIN cases'
         /\ \A d \in DOMAIN cases : d \in DOMAIN cases' /\ cases'[d] = cases[d]
<1> DEFINE row == [status |-> "l2_active", answer |-> {}, calls |-> 0, tokens |-> 0, tools |-> 0]
<1>1. /\ DOMAIN cases' = DOMAIN cases \cup {c}
      /\ \A d \in DOMAIN cases : cases'[d] = cases[d]
      /\ c \notin DOMAIN cases => cases'[c] = row
  BY DEF Stored
<1>2. row.calls = 0 /\ row.tokens = 0 /\ row.tools = 0
  OBVIOUS
<1>3. RowOK(c, row, manifest, decided)
  BY Bounds DEF RowOK, Open
<1> HIDE DEF row
<1>4. RowsOK'
  <2>1. \A d \in DOMAIN cases' : RowOK(d, cases'[d], manifest, decided)
    BY <1>1, <1>3 DEF RowsOK
  <2> QED BY <2>1 DEF RowsOK
<1>5. MetersOK'
  <2>1. \A d \in DOMAIN cases' : \/ d \in DOMAIN cases /\ cases'[d] = cases[d]
                                 \/ cases'[d].calls = 0 /\ cases'[d].tokens = 0
    BY <1>1, <1>2
  <2>2. NumbersMatch(cases', metered)
    BY <1>1, <2>1 DEF MetersOK, NumbersMatch
  <2>3. \A d \in DOMAIN cases' : cases'[d].tokens = Spent(metered, d, cases'[d].calls)
    BY <2>1, SpentZero DEF MetersOK
  <2> QED BY <2>2, <2>3 DEF MetersOK
<1>6. RowsGrow
  <2>1. Counted(cases) /\ Counted(cases')
    BY <1>4, AllCounted, RowsCounted DEF RowsOK
  <2> QED BY <1>1, <2>1 DEF RowsGrow, Grows, MetersOK, NumbersMatch, Counted
<1> QED BY <1>1, <1>4, <1>5, <1>6

-----------------------------------------------------------------------------
(* Steps: each keeps the invariant, freezes closed cases and saves only    *)
(* current contexts                                                        *)

Frozen  == \A c \in DOMAIN cases : cases[c].status \in Closed => cases'[c] = cases[c]
Current == \A id \in DOMAIN manifest' \ DOMAIN manifest :
             \A o \in manifest'[id].shown : o.fact => WasSo(o, graph.work.since, world)
Kept    == IInv' /\ Frozen /\ Current

StateNow(s) == StateOK(s, shown, cases, metered, manifest, decided)

LEMMA GraphNow ==
  ASSUME IInv, graph # NoGraph
  PROVE  /\ StateNow(graph) /\ SettledOK(graph, cases) /\ Paired(graph, saved)
         /\ IsState(graph) /\ IsRuntime(graph.rt) /\ graph.rt.preview <= shown
         /\ UseOK(graph.node, graph.rt, cases, metered)
         /\ NodeOK(graph.node, graph.rt, manifest, decided)
         /\ Counted(cases)
BY RowsCounted DEF IInv, FlowOK, StateNow, StateOK, IsState

\* A graph that works on a case works on one that exists.
LEMMA InCase ==
  ASSUME IInv, graph # NoGraph, graph.node \notin BeforeCase
  PROVE  /\ graph.rt.preview \in DOMAIN cases
         /\ graph.rt.calls <= cases[graph.rt.preview].calls
         /\ graph.rt.tools <= cases[graph.rt.preview].tools
         /\ graph.rt.tokens = Spent(metered, graph.rt.preview, graph.rt.calls)
         /\ graph.rt.tools <= MaxToolCalls
         /\ graph.rt.preview # 0 /\ graph.rt.tools \in Nat
         /\ RowOK(graph.rt.preview, cases[graph.rt.preview], manifest, decided)
<1> DEFINE c == graph.rt.preview
<1>1. /\ UseOK(graph.node, graph.rt, cases, metered)
      /\ NodeOK(graph.node, graph.rt, manifest, decided)
      /\ IsRuntime(graph.rt)
  BY GraphNow
<1>2. /\ c \in DOMAIN cases /\ graph.rt.calls <= cases[c].calls /\ graph.rt.tools <= cases[c].tools
      /\ graph.rt.tokens = Spent(metered, c, graph.rt.calls)
  BY <1>1 DEF UseOK
<1>3. RowOK(c, cases[c], manifest, decided)
  BY <1>2 DEF IInv, RowsOK
<1>4. graph.rt.tools \in Nat /\ cases[c].tools \in 0..MaxToolCalls
  BY <1>1, <1>3 DEF RowOK, IsRuntime
<1>5. graph.rt.tools <= MaxToolCalls
  BY <1>2, <1>4, Bounds
<1>6. c # 0
  BY <1>1 DEF NodeOK, BeforeCase
<1> QED BY <1>2, <1>3, <1>4, <1>5, <1>6

\* A graph that goes on is not behind the checkpoint's resolution.
LEMMA PairedOther ==
  ASSUME IInv, NEW g,
         \/ g.rt.preview = 0
         \/ /\ graph # NoGraph /\ graph.node # "finalize_resolved"
            /\ g.rt.preview = graph.rt.preview
         \/ g.rt.preview \in Nat /\ g.rt.preview > shown
  PROVE  Paired(g, saved)
<1>1. /\ NodeOK(saved.node, saved.rt, manifest, decided) /\ saved.rt.preview <= shown
      /\ saved.rt.preview \in Nat /\ shown \in Nat
  BY DEF IInv, FlowOK, StateOK, IsState, IsRuntime
<1>2. saved.node = "finalize_resolved" => saved.rt.preview # 0
  BY <1>1 DEF NodeOK, BeforePreview
<1>3. graph # NoGraph => Paired(graph, saved)
  BY GraphNow
<1> QED BY <1>1, <1>2, <1>3 DEF Paired

\* A step of the graph while the checkpoint stays.
LEMMA FlowStep ==
  ASSUME IInv, RowsGrow, shown' \in Nat, shown <= shown',
         UNCHANGED <<saved, run, asked>>,
         SettledOK(saved, cases'),
         StateOK(graph', shown', cases', metered', manifest', decided'),
         SettledOK(graph', cases'), Paired(graph', saved)
  PROVE  FlowOK'
<1>1. StateOK(saved, shown', cases', metered', manifest', decided')
  BY StateStays DEF IInv, FlowOK, RowsGrow
<1>2. decided \subseteq decided'
  BY DEF RowsGrow, Grows
<1>3. Told(run, decided')
  BY <1>2 DEF IInv, FlowOK, Told
<1> QED BY <1>1, <1>3 DEF IInv, FlowOK

LEMMA Unmoved ==
  ASSUME UNCHANGED <<cases, manifest>>
  PROVE  Frozen /\ Current
BY DEF Frozen, Current

\* The same, when no row changes.
LEMMA QuietNode ==
  ASSUME IInv, UNCHANGED rows, shown' \in Nat, shown <= shown',
         UNCHANGED <<saved, run, asked, decided>>,
         StateOK(graph', shown', cases, metered, manifest, decided),
         SettledOK(graph', cases), Paired(graph', saved)
  PROVE  Kept
<1>1. UNCHANGED <<cases, metered, manifest>>
  BY DEF rows
<1>2. RowsOK' /\ MetersOK' /\ RowsGrow
  BY AllSame DEF IInv
<1>3. SettledOK(saved, cases')
  BY <1>1 DEF IInv, FlowOK
<1>4. FlowOK'
  BY <1>1, <1>2, <1>3, FlowStep
<1> QED BY <1>1, <1>2, <1>4, Unmoved DEF Kept, IInv

LEMMA FailsKept ==
  ASSUME IInv, Fails, UNCHANGED rows
  PROVE  Kept
<1>1. UNCHANGED <<cases, metered, manifest>> /\ decided' = decided
  BY DEF rows, Fails
<1>2. RowsOK' /\ MetersOK' /\ RowsGrow
  BY <1>1, AllSame DEF IInv
<1>3. StateNow(saved') /\ SettledOK(saved', cases)
  <2>1. CASE graph = NoGraph
    BY <2>1 DEF Fails, IInv, FlowOK, StateNow
  <2>2. CASE graph # NoGraph
    <3>1. StateNow(graph) /\ SettledOK(graph, cases) /\ Counted(cases) /\ shown \in Nat
      BY <2>2, GraphNow DEF IInv, FlowOK
    <3>2. saved' = Interrupted(graph, asked)
      BY <2>2 DEF Fails
    <3> QED BY <3>1, <3>2, StateInterrupted DEF StateNow
  <2> QED BY <2>1, <2>2
<1>4. Told(NoRun, decided)
  BY DEF Told, NoRun
<1>5. FlowOK'
  BY <1>1, <1>3, <1>4 DEF FlowOK, IInv, Fails, StateNow
<1> QED BY <1>1, <1>2, <1>5, Unmoved DEF Kept, IInv

\* What a runtime that settles its case with a transition says of its use.
Settling(rt, status) ==
  /\ graph # NoGraph /\ graph.node \notin BeforeCase /\ graph.node # "finalize_resolved"
  /\ IsRuntime(rt) /\ rt.preview = graph.rt.preview
  /\ status \in Open \cup Closed /\ status # "l2_resolved"
  /\ rt.calls <= cases[rt.preview].calls /\ rt.tools <= MaxToolCalls
  /\ rt.tokens = Spent(metered, rt.preview, rt.calls)
  /\ status \in Closed => rt.tools <= cases[rt.preview].tools

NodeFrame == UNCHANGED <<world, daily, metered, manifest, shown, saved, run, asked, decided>>

\* A transition that does not resolve the case, and a graph that stays within it.
LEMMA SettlesKept ==
  ASSUME IInv, NEW rt, NEW status, Settling(rt, status),
         CanTransition(rt.preview, status), Transition(rt, status, {}), NodeFrame,
         IsFiniteSet(pref'), \A p \in pref' : Consent(p.id, decided)
  PROVE  /\ RowsGrow /\ Counted(cases') /\ rt.preview \in DOMAIN cases'
         /\ rt.calls <= cases'[rt.preview].calls /\ rt.tools <= cases'[rt.preview].tools
         /\ StateOK(graph', shown, cases', metered, manifest, decided)
              /\ graph'.rt.preview \in {0, rt.preview} => Kept
<1> DEFINE c == rt.preview
<1>0. /\ IsRuntime(rt) /\ status \in Open \cup Closed /\ status # "l2_resolved"
      /\ rt.calls <= cases[c].calls /\ rt.tools <= MaxToolCalls
      /\ rt.tokens = Spent(metered, c, rt.calls)
      /\ status \in Closed => rt.tools <= cases[c].tools
      /\ graph # NoGraph /\ graph.node # "finalize_resolved" /\ c = graph.rt.preview
      /\ UNCHANGED <<world, daily, metered, manifest>> /\ decided' = decided
      /\ shown' = shown /\ UNCHANGED <<saved, run, asked>>
  BY DEF Settling, NodeFrame
<1>1. RowOK(c, cases[c], manifest, decided)
  BY DEF CanTransition, IInv, RowsOK
<1>2. status \in Closed /\ cases[c].status = status =>
        rt.tools <= cases[c].tools /\ cases[c].answer = {}
  BY <1>0, <1>1 DEF RowOK
<1>3. /\ RowsOK' /\ MetersOK' /\ RowsGrow
      /\ DOMAIN cases' = DOMAIN cases
      /\ \A d \in DOMAIN cases : d # c => cases'[d] = cases[d]
      /\ cases'[c].status = status
      /\ rt.tools <= cases'[c].tools
      /\ cases[c].status \in Closed => cases'[c] = cases[c]
  BY <1>0, <1>2, TransitionKeeps DEF IInv
<1>4. Frozen /\ Current
  BY <1>0, <1>3 DEF Frozen, Current
<1>5. c \in DOMAIN cases' /\ Counted(cases')
  BY <1>3 DEF CanTransition, RowsGrow, Grows
<1>6. rt.calls <= cases'[c].calls
  <2>1. cases[c].calls <= cases'[c].calls /\ cases[c].calls \in Nat /\ cases'[c].calls \in Nat
    BY <1>3, <1>5 DEF RowsGrow, Grows, Counted
  <2> QED BY <1>0, <2>1 DEF IsRuntime
<1>7. SettledOK(saved, cases')
  <2>1. saved.node = "finalize_resolved" => saved.rt.preview \in DOMAIN cases
    BY DEF IInv, FlowOK, StateOK, UseOK, BeforeCase, BeforePreview
  <2>2. SettledOK(saved, cases)
    BY DEF IInv, FlowOK
  <2> QED BY <1>0, <1>3, <2>1, <2>2 DEF SettledOK
<1>8. ASSUME StateOK(graph', shown, cases', metered, manifest, decided),
             graph'.rt.preview \in {0, c}
      PROVE  Kept
  <2>1. Paired(graph', saved)
    BY <1>0, <1>8, PairedOther
  <2>2. NodeOK(graph'.node, graph'.rt, manifest, decided)
    BY <1>8 DEF StateOK
  <2>3. SettledOK(graph', cases')
    BY <1>0, <1>3, <1>8, <2>2 DEF SettledOK, NodeOK, BeforePreview
  <2>4. FlowOK'
    BY <1>0, <1>3, <1>7, <1>8, <2>1, <2>3, FlowStep DEF IInv, FlowOK
  <2> QED BY <1>3, <1>4, <2>4 DEF Kept, IInv
<1> QED BY <1>0, <1>3, <1>5, <1>6, <1>8

LEMMA UseMoves ==
  ASSUME NEW node, NEW rt, NEW cs, NEW mt, UseOK(node, rt, cs, mt), NEW node2,
         node2 \in BeforeCase \/ rt.preview \in DOMAIN cs
  PROVE  UseOK(node2, rt, cs, mt)
BY DEF UseOK

\* The graph goes on in front of the case.
LEMMA GoesQuiet ==
  ASSUME IInv, graph # NoGraph, graph.node # "finalize_resolved", UNCHANGED rows,
         NEW node, node # "finalize_resolved", NEW rt, Goes(node, rt),
         IsRuntime(rt), rt.preview = graph.rt.preview,
         NodeOK(node, rt, manifest, decided), UseOK(node, rt, cases, metered)
  PROVE  Kept
<1> DEFINE g == At(node, rt, graph.quota)
<1>1. graph' = g /\ UNCHANGED <<shown, saved, run, asked, decided>>
  BY DEF Goes
<1>2. StateNow(g)
  BY GraphNow, StateAt DEF StateNow
<1>3. g.rt = rt /\ g.node = node
  BY DEF At
<1> HIDE DEF g
<1>4. SettledOK(g, cases) /\ Paired(g, saved)
  BY <1>3, PairedOther DEF SettledOK
<1>5. shown' \in Nat /\ shown <= shown' /\ shown' = shown
  BY <1>1 DEF IInv, FlowOK
<1> QED BY <1>1, <1>2, <1>4, <1>5, QuietNode DEF StateNow

\* The graph leaves the support loop.
LEMMA GoesBack ==
  ASSUME IInv, graph # NoGraph, UNCHANGED rows,
         NEW node \in BeforePreview, Goes(node, NoRuntime)
  PROVE  Kept
<1> DEFINE g == At(node, NoRuntime, graph.quota)
<1>1. graph' = g /\ UNCHANGED <<shown, saved, run, asked, decided>>
  BY DEF Goes
<1>2. shown' \in Nat /\ shown <= shown' /\ shown' = shown
  BY <1>1 DEF IInv, FlowOK
<1>3. StateNow(g)
  BY <1>1, <1>2, GraphNow, StateEnded DEF StateNow
<1>4. g.rt.preview = 0 /\ g.node = node
  BY NoRuntimeIs DEF At
<1> HIDE DEF g
<1>5. SettledOK(g, cases) /\ Paired(g, saved)
  BY <1>4, PairedOther DEF SettledOK, BeforePreview
<1> QED BY <1>1, <1>2, <1>3, <1>5, QuietNode DEF StateNow

\* The graph stops at an interrupt.
LEMMA PausesQuiet ==
  ASSUME IInv, graph # NoGraph, graph.node # "finalize_resolved", UNCHANGED rows, Pauses
  PROVE  Kept
<1> DEFINE g == [graph EXCEPT !.paused = TRUE]
<1>1. graph' = g /\ UNCHANGED <<shown, saved, run, asked, decided>>
  BY DEF Pauses, Within
<1>2. shown' \in Nat /\ shown <= shown' /\ shown' = shown
  BY <1>1 DEF IInv, FlowOK
<1>3. StateNow(graph) /\ IsState(graph)
  BY GraphNow
<1>4. /\ IsState(g) /\ g.rt = graph.rt /\ g.node = graph.node /\ g.input = graph.input
      /\ g.work = graph.work
  BY <1>3 DEF IsState
<1> HIDE DEF g
<1>5. StateNow(g)
  BY <1>3, <1>4 DEF StateNow, StateOK, WorkOK
<1>6. SettledOK(g, cases) /\ Paired(g, saved)
  BY <1>4, PairedOther DEF SettledOK
<1> QED BY <1>1, <1>2, <1>5, <1>6, QuietNode DEF StateNow

\* The nodes in front of a case.
LEMMA BindKeeps == ASSUME IInv, Bind PROVE Kept
BY GoesBack DEF Bind, Is, BeforePreview

LEMMA PrepareUpgradeKeeps == ASSUME IInv, PrepareUpgrade PROVE Kept
<1>1. graph # NoGraph /\ graph.node = "prepare_upgrade" /\ UNCHANGED rows
  BY DEF PrepareUpgrade, Is
<1>2. CASE graph.quota /\ ~HasOpenCase
  <2> DEFINE rt == [NoRuntime EXCEPT !.preview = shown']
             g  == At("await_upgrade_confirmation", rt, graph.quota)
  <2>1. /\ shown' = shown + 1 /\ graph' = g
        /\ UNCHANGED <<saved, run, asked, decided>>
    BY <1>2 DEF PrepareUpgrade
  <2>2. shown \in Nat /\ shown' \in Nat /\ shown <= shown' /\ shown' > shown
    BY <2>1 DEF IInv, FlowOK
  <2>3. /\ IsRuntime(rt) /\ rt.preview = shown' /\ rt.calls = 0 /\ rt.tokens = 0 /\ rt.tools = 0
    BY <2>2, NoRuntimeIs DEF IsRuntime
  <2> HIDE DEF rt
  <2>4. UseOK("await_upgrade_confirmation", rt, cases, metered)
    BY <2>3, <1>1, GraphNow, FreshUse DEF BeforeCase
  <2>5. NodeOK("await_upgrade_confirmation", rt, manifest, decided)
    BY <2>2, <2>3 DEF NodeOK
  <2>6. StateOK(g, shown', cases, metered, manifest, decided)
    BY <2>2, <2>3, <2>4, <2>5, StateAt
  <2>7. g.rt.preview = shown' /\ g.node = "await_upgrade_confirmation"
    BY <2>3 DEF At
  <2> HIDE DEF g
  <2>8. SettledOK(g, cases) /\ Paired(g, saved)
    BY <2>2, <2>7, PairedOther DEF SettledOK
  <2> QED BY <1>1, <2>1, <2>2, <2>6, <2>8, QuietNode
<1>3. CASE ~(graph.quota /\ ~HasOpenCase)
  BY <1>1, <1>3, GoesBack DEF PrepareUpgrade, BeforePreview
<1> QED BY <1>2, <1>3

LEMMA AwaitUpgradeKeeps == ASSUME IInv, AwaitUpgrade PROVE Kept
<1>1. graph # NoGraph /\ graph.node = "await_upgrade_confirmation" /\ UNCHANGED rows
  BY DEF AwaitUpgrade, Is, Reaches
<1>2. CASE Pauses
  BY <1>1, <1>2, PausesQuiet
<1>3. CASE Fails
  BY <1>1, <1>3, FailsKept
<1>4. ASSUME NEW input \in graph.input, Concerns(input, <<"upgrade", <<graph.rt.preview, 0>>>>),
             Goes(IF input.answer = "confirm" /\ graph.quota THEN "create_case" ELSE "cancel_upgrade",
                  graph.rt)
      PROVE  Kept
  <2> DEFINE node == IF input.answer = "confirm" /\ graph.quota THEN "create_case" ELSE "cancel_upgrade"
  <2>1. UseOK(node, graph.rt, cases, metered)
    BY <1>1, GraphNow, UseMoves DEF BeforeCase
  <2>2. Told(input, decided)
    BY <1>1, GraphNow DEF StateNow, StateOK
  <2>3. graph.rt.preview # 0
    BY <1>1, GraphNow DEF NodeOK, BeforePreview
  <2>4. NodeOK(node, graph.rt, manifest, decided)
    BY <1>4, <2>2, <2>3 DEF NodeOK, Told, Concerns, Consent
  <2>5. node # "finalize_resolved" /\ Goes(node, graph.rt)
    BY <1>4
  <2> HIDE DEF node
  <2>6. IsRuntime(graph.rt)
    BY <1>1, GraphNow
  <2> QED BY <1>1, <2>1, <2>4, <2>5, <2>6, GoesQuiet
<1> QED BY <1>2, <1>3, <1>4 DEF AwaitUpgrade

LEMMA CancelUpgradeKeeps == ASSUME IInv, CancelUpgrade PROVE Kept
BY GoesBack DEF CancelUpgrade, Is, BeforePreview

LEMMA AwaitRefundKeeps == ASSUME IInv, AwaitRefund PROVE Kept
<1>1. graph # NoGraph /\ graph.node = "await_refund_approval" /\ UNCHANGED rows
  BY DEF AwaitRefund, Is, Reaches
<1>2. CASE Pauses
  BY <1>1, <1>2, PausesQuiet
<1>3. CASE Fails
  BY <1>1, <1>3, FailsKept
<1>4. CASE Goes("record_refund_result", graph.rt)
  <2>1. graph.rt.preview \in DOMAIN cases /\ graph.rt.preview # 0
    BY <1>1, InCase DEF BeforeCase, BeforePreview
  <2>2. UseOK("record_refund_result", graph.rt, cases, metered)
    BY <1>1, <2>1, GraphNow, UseMoves
  <2>3. NodeOK("record_refund_result", graph.rt, manifest, decided)
    BY <2>1 DEF NodeOK
  <2>4. IsRuntime(graph.rt)
    BY <1>1, GraphNow
  <2> QED BY <1>1, <1>4, <2>2, <2>3, <2>4, GoesQuiet
<1> QED BY <1>2, <1>3, <1>4 DEF AwaitRefund

LEMMA CreateCaseKeeps == ASSUME IInv, CreateCase PROVE Kept
<1> DEFINE c == graph.rt.preview
           row == [status |-> "l2_active", answer |-> {}, calls |-> 0, tokens |-> 0, tools |-> 0]
<1>1. /\ graph # NoGraph /\ graph.node = "create_case"
      /\ UNCHANGED <<world, pref, daily, metered, manifest>>
  BY DEF CreateCase, Is
<1>2. CASE Fails /\ UNCHANGED cases
  BY <1>1, <1>2, FailsKept DEF rows
<1>3. CASE cases' = Stored(cases, c, row) /\ Goes("decide", graph.rt)
  <2> DEFINE g == At("decide", graph.rt, graph.quota)
  <2>1. graph' = g /\ UNCHANGED <<shown, saved, run, asked, decided>>
    BY <1>3 DEF Goes
  <2>2. Consent(<<"upgrade", <<c, 0>>>>, decided) /\ c # 0 /\ c <= shown /\ IsRuntime(graph.rt)
    BY <1>1, GraphNow DEF NodeOK, BeforePreview
  <2>3. /\ RowsOK' /\ MetersOK' /\ RowsGrow
        /\ c \in DOMAIN cases'
        /\ \A d \in DOMAIN cases : d \in DOMAIN cases' /\ cases'[d] = cases[d]
    BY <1>1, <1>3, <2>1, <2>2, CreateKeeps DEF IInv
  <2>4. shown' \in Nat /\ shown <= shown' /\ shown' = shown
    BY <2>1 DEF IInv, FlowOK
  <2>5. StateOK(graph, shown, cases', metered', manifest', decided')
    BY <1>1, <2>3, <2>4, GraphNow, StateStays DEF RowsGrow, StateNow
  <2>6. UseOK("decide", graph.rt, cases', metered')
    BY <2>3, <2>5, UseMoves DEF StateOK
  <2>7. NodeOK("decide", graph.rt, manifest', decided')
    BY <2>2 DEF NodeOK
  <2>8. StateOK(g, shown', cases', metered', manifest', decided')
    BY <2>2, <2>4, <2>6, <2>7, StateAt
  <2>9. g.rt = graph.rt /\ g.node = "decide"
    BY DEF At
  <2> HIDE DEF g
  <2>10. SettledOK(g, cases') /\ Paired(g, saved)
    BY <1>1, <2>9, PairedOther DEF SettledOK
  <2>11. SettledOK(saved, cases')
    <3>1. saved.node = "finalize_resolved" => saved.rt.preview \in DOMAIN cases
      BY DEF IInv, FlowOK, StateOK, UseOK, BeforeCase, BeforePreview
    <3>2. SettledOK(saved, cases)
      BY DEF IInv, FlowOK
    <3> QED BY <2>3, <3>1, <3>2 DEF SettledOK
  <2>12. FlowOK'
    BY <2>1, <2>3, <2>4, <2>8, <2>10, <2>11, FlowStep
  <2>13. Frozen /\ Current
    BY <1>1, <2>3 DEF Frozen, Current
  <2> QED BY <2>3, <2>12, <2>13 DEF Kept, IInv
<1> QED BY <1>2, <1>3 DEF CreateCase

LEMMA PrefStays ==
  ASSUME IInv, pref' = pref
  PROVE  IsFiniteSet(pref') /\ \A p \in pref' : Consent(p.id, decided)
BY DEF IInv, RowsOK

\* A node settles its case and goes on, or fails.
LEMMA SettlesGoes ==
  ASSUME IInv, NEW rt, NEW status, Settling(rt, status), pref' = pref,
         NEW node, NEW next, Settles(rt, status, {}, Goes(node, next)),
         \/ Like(next, rt) /\ NodeOK(node, next, manifest, decided)
         \/ node \in BeforePreview /\ next = NoRuntime
  PROVE  Kept
<1> DEFINE g == At(node, next, graph.quota)
<1>0. UNCHANGED <<world, daily, metered, manifest>>
  BY DEF Settles
<1>1. CASE ~CanTransition(rt.preview, status)
  BY <1>0, <1>1, FailsKept DEF Settles, rows
<1>2. CASE CanTransition(rt.preview, status)
  <2>1. Transition(rt, status, {}) /\ graph' = g /\ NodeFrame
    BY <1>0, <1>2 DEF Settles, Goes, NodeFrame
  <2>2. /\ RowsGrow /\ Counted(cases') /\ rt.preview \in DOMAIN cases'
        /\ rt.calls <= cases'[rt.preview].calls /\ rt.tools <= cases'[rt.preview].tools
        /\ StateOK(graph', shown, cases', metered, manifest, decided)
             /\ graph'.rt.preview \in {0, rt.preview} => Kept
    BY <1>2, <2>1, SettlesKept, PrefStays
  <2>3. /\ rt.preview <= shown /\ shown \in Nat
        /\ rt.tokens = Spent(metered, rt.preview, rt.calls)
    BY GraphNow DEF Settling, IInv, FlowOK
  <2>4. CASE Like(next, rt) /\ NodeOK(node, next, manifest, decided)
    <3>1. UseOK(node, next, cases', metered)
      BY <2>2, <2>3, <2>4 DEF UseOK, Like
    <3>2. IsRuntime(next) /\ next.preview <= shown /\ next.preview = rt.preview
      BY <2>3, <2>4 DEF Like
    <3>3. StateOK(g, shown, cases', metered, manifest, decided)
      BY <2>4, <3>1, <3>2, StateAt
    <3>4. g.rt = next
      BY DEF At
    <3> HIDE DEF g
    <3> QED BY <2>1, <2>2, <3>2, <3>3, <3>4
  <2>5. CASE node \in BeforePreview /\ next = NoRuntime
    <3>1. StateOK(At(node, NoRuntime, graph.quota), shown, cases', metered, manifest, decided)
      BY <2>2, <2>3, <2>5, StateEnded
    <3>2. StateOK(g, shown, cases', metered, manifest, decided)
      BY <2>5, <3>1
    <3>3. g.rt.preview = 0
      BY <2>5, NoRuntimeIs DEF At
    <3> HIDE DEF g
    <3> QED BY <2>1, <2>2, <3>2, <3>3
  <2> QED BY <2>4, <2>5
<1> QED BY <1>1, <1>2

\* A node settles its case and stays where it is, or fails.
LEMMA SettlesWithin ==
  ASSUME IInv, NEW status, Settling(graph.rt, status), NEW g,
         Settles(graph.rt, status, {}, Within(g)),
         CanTransition(graph.rt.preview, status) \/ pref' = pref,
         IsFiniteSet(pref'), \A p \in pref' : Consent(p.id, decided),
         IsState(g), g.rt = graph.rt, g.node = graph.node, g.input = graph.input,
         g.work = graph.work \/ g.work.done # "charged"
  PROVE  Kept
<1>0. UNCHANGED <<world, daily, metered, manifest>>
  BY DEF Settles
<1> SUFFICES ASSUME CanTransition(graph.rt.preview, status) PROVE Kept
  BY <1>0, FailsKept DEF Settles, rows
<1>1. graph' = g /\ NodeFrame /\ shown' = shown /\ Transition(graph.rt, status, {})
  BY <1>0 DEF Settles, Within, NodeFrame
<1>2. /\ RowsGrow
      /\ StateOK(graph', shown, cases', metered, manifest, decided)
           /\ graph'.rt.preview \in {0, graph.rt.preview} => Kept
  BY <1>1, SettlesKept
<1>3. shown \in Nat /\ shown <= shown /\ metered' = metered /\ manifest' = manifest /\ decided' = decided
  BY <1>1 DEF IInv, FlowOK, NodeFrame
<1>4. StateNow(graph)
  BY GraphNow DEF Settling
<1>5. StateOK(graph, shown, cases', metered, manifest, decided)
  BY <1>2, <1>3, <1>4, StateStays DEF RowsGrow, StateNow
<1>6. StateOK(g, shown, cases', metered, manifest, decided)
  BY <1>5 DEF StateOK, WorkOK
<1> QED BY <1>1, <1>2, <1>6

\* A node of the loop settles with the runtime it was reached with.
LEMMA HeldSettling ==
  ASSUME IInv, graph # NoGraph, graph.node \notin BeforeCase, graph.node # "finalize_resolved",
         NEW status \in Open \cup Closed, status # "l2_resolved"
  PROVE  Settling(graph.rt, status) /\ Like(graph.rt, graph.rt) /\ graph.rt.preview # 0
BY GraphNow, InCase DEF Settling, Like

LEMMA BridgeRefundKeeps == ASSUME IInv, BridgeRefund PROVE Kept
<1> PICK node \in {"record_refund_result", "await_refund_approval"} :
      Settles(graph.rt, "l2_waiting_approval", {}, Goes(node, graph.rt))
  BY DEF BridgeRefund
<1>1. graph # NoGraph /\ graph.node = "bridge_refund" /\ pref' = pref
  BY DEF BridgeRefund, Is
<1>2. /\ Settling(graph.rt, "l2_waiting_approval") /\ Like(graph.rt, graph.rt)
      /\ graph.rt.preview # 0
  BY <1>1, HeldSettling DEF BeforeCase, BeforePreview, Open
<1>3. NodeOK(node, graph.rt, manifest, decided)
  BY <1>2 DEF NodeOK
<1> QED BY <1>1, <1>2, <1>3, SettlesGoes

\* A node that adds an observation and goes back to decide.
LEMMA ObservedLike ==
  ASSUME NEW rt, IsRuntime(rt), NEW src, NEW ref, NEW ev
  PROVE  Like(Observed(rt, Note(src, ref, 2 * rt.calls + 1, ev)), rt)
<1> DEFINE o == Note(src, ref, 2 * rt.calls + 1, ev)
<1>1. IsObservation(o)
  BY DEF IsObservation, Note, IsRuntime
<1> HIDE DEF o
<1>2. Like(Observed(rt, o), rt)
  BY <1>1 DEF Like, IsRuntime, IsContext, Observed
<1> QED BY <1>2 DEF o

LEMMA DecideIsOK ==
  ASSUME NEW next, next.preview # 0, NEW mf, NEW dc
  PROVE  NodeOK("decide", next, mf, dc) /\ NodeOK("finalize_stopped", next, mf, dc)
BY DEF NodeOK

LEMMA RecordRefundKeeps == ASSUME IInv, RecordRefund PROVE Kept
<1> DEFINE next == Observed(graph.rt, Note("refund", 0, 2 * graph.rt.calls + 1, {}))
<1>1. /\ graph # NoGraph /\ graph.node = "record_refund_result" /\ pref' = pref
      /\ Settles(graph.rt, "l2_active", {}, Goes("decide", next))
  BY DEF RecordRefund, Is
<1>2. /\ Settling(graph.rt, "l2_active") /\ IsRuntime(graph.rt)
      /\ graph.rt.preview # 0
  BY <1>1, HeldSettling DEF BeforeCase, BeforePreview, Open, Like
<1>3. Like(next, graph.rt)
  BY <1>2, ObservedLike
<1> HIDE DEF next
<1>4. NodeOK("decide", next, manifest, decided)
  BY <1>2, <1>3, DecideIsOK DEF Like
<1> QED BY <1>1, <1>2, <1>3, <1>4, SettlesGoes

LEMMA AwaitUserInputKeeps == ASSUME IInv, AwaitUserInput PROVE Kept
<1>1. graph # NoGraph /\ graph.node = "await_user_input" /\ pref' = pref
  BY DEF AwaitUserInput, Is, Reaches
<1>2. /\ Settling(graph.rt, "l2_waiting_user") /\ Settling(graph.rt, "l2_active")
      /\ IsRuntime(graph.rt) /\ graph.rt.preview # 0
  BY <1>1, HeldSettling DEF BeforeCase, BeforePreview, Open, Like
<1>3. CASE Settles(graph.rt, "l2_waiting_user", {}, Pauses)
  <2> DEFINE g == [graph EXCEPT !.paused = TRUE]
  <2>1. IsState(graph)
    BY <1>1, GraphNow
  <2>2. /\ IsState(g) /\ g.rt = graph.rt /\ g.node = graph.node /\ g.input = graph.input
        /\ g.work = graph.work
    BY <2>1 DEF IsState
  <2>3. Settles(graph.rt, "l2_waiting_user", {}, Within(g))
    BY <1>3 DEF Pauses
  <2> HIDE DEF g
  <2> QED BY <1>1, <1>2, <2>2, <2>3, PrefStays, SettlesWithin
<1>4. CASE Fails /\ UNCHANGED <<world, daily, cases, metered, manifest>>
  BY <1>1, <1>4, FailsKept DEF rows
<1>5. ASSUME NEW input \in graph.input,
             Settles(graph.rt, "l2_active", {},
               Goes("decide", [graph.rt EXCEPT !.heard = input.text, !.decision = NoDecision]))
      PROVE  Kept
  <2> DEFINE next == [graph.rt EXCEPT !.heard = input.text, !.decision = NoDecision]
  <2>1. Like(next, graph.rt)
    BY <1>2 DEF Like, IsRuntime
  <2>2. Settles(graph.rt, "l2_active", {}, Goes("decide", next))
    BY <1>5
  <2> HIDE DEF next
  <2>3. NodeOK("decide", next, manifest, decided)
    BY <1>2, <2>1, DecideIsOK DEF Like
  <2> QED BY <1>1, <1>2, <2>1, <2>2, <2>3, SettlesGoes
<1> QED BY <1>3, <1>4, <1>5 DEF AwaitUserInput

LEMMA AwaitMemoryKeeps == ASSUME IInv, AwaitMemory PROVE Kept
<1> DEFINE rt == graph.rt
           after(ev) == Observed(rt, Note("memory", rt.calls, 2 * rt.calls + 1, ev))
<1>1. graph # NoGraph /\ graph.node = "await_memory_confirmation"
  BY DEF AwaitMemory, Is, Reaches
<1>2. /\ Settling(rt, "l2_waiting_approval") /\ Settling(rt, "l2_active")
      /\ IsRuntime(rt) /\ rt.preview # 0
  BY <1>1, HeldSettling DEF BeforeCase, BeforePreview, Open, Like
<1>3. IsState(graph) /\ StateNow(graph)
  BY <1>1, GraphNow
<1>4. CASE Settles(rt, "l2_waiting_approval", {}, Pauses) /\ UNCHANGED pref
  <2> DEFINE g == [graph EXCEPT !.paused = TRUE]
  <2>1. /\ IsState(g) /\ g.rt = graph.rt /\ g.node = graph.node /\ g.input = graph.input
        /\ g.work = graph.work
    BY <1>3 DEF IsState
  <2>2. Settles(graph.rt, "l2_waiting_approval", {}, Within(g)) /\ pref' = pref
    BY <1>4 DEF Pauses
  <2> HIDE DEF g
  <2> QED BY <1>1, <1>2, <2>1, <2>2, PrefStays, SettlesWithin
<1>5. CASE Fails /\ UNCHANGED rows
  BY <1>5, FailsKept
<1>6. ASSUME NEW input \in graph.input, Concerns(input, Proposal(rt)), input.answer = "confirm",
             Settles(rt, "l2_waiting_approval", {},
               Within([graph EXCEPT !.work = [done |-> "stored"]])),
             pref' = IF CanTransition(rt.preview, "l2_waiting_approval")
                     THEN {[value |-> rt.decision.value, id |-> Proposal(rt)]} ELSE pref
      PROVE  Kept
  <2> DEFINE g == [graph EXCEPT !.work = [done |-> "stored"]]
  <2>1. /\ IsState(g) /\ g.rt = graph.rt /\ g.node = graph.node /\ g.input = graph.input
        /\ g.work.done = "stored"
    BY <1>3 DEF IsState
  <2>2. Settles(graph.rt, "l2_waiting_approval", {}, Within(g))
    BY <1>6
  <2>3. Consent(Proposal(rt), decided)
    <3>1. Told(input, decided)
      BY <1>3 DEF StateNow, StateOK
    <3> QED BY <1>6, <3>1 DEF Told, Concerns, Consent
  <2>4. IsFiniteSet(pref') /\ \A p \in pref' : Consent(p.id, decided)
    <3>1. CASE CanTransition(rt.preview, "l2_waiting_approval")
      <4>1. pref' = {[value |-> rt.decision.value, id |-> Proposal(rt)]}
        BY <1>6, <3>1
      <4>2. IsFiniteSet(pref')
        BY <4>1, FS_Singleton
      <4> QED BY <2>3, <4>1, <4>2
    <3>2. CASE ~CanTransition(rt.preview, "l2_waiting_approval")
      BY <1>6, <3>2, PrefStays
    <3> QED BY <3>1, <3>2
  <2>5. CanTransition(rt.preview, "l2_waiting_approval") \/ pref' = pref
    BY <1>6
  <2> HIDE DEF g
  <2> QED BY <1>1, <1>2, <2>1, <2>2, <2>4, <2>5, SettlesWithin
<1>7. ASSUME NEW ev, Settles(rt, "l2_active", {}, Goes("decide", after(ev))), UNCHANGED pref
      PROVE  Kept
  <2>1. Like(after(ev), rt)
    BY <1>2, ObservedLike
  <2> DEFINE next == after(ev)
  <2>2. Settles(rt, "l2_active", {}, Goes("decide", next)) /\ Like(next, rt)
    BY <1>7, <2>1
  <2> HIDE DEF next
  <2>3. NodeOK("decide", next, manifest, decided)
    BY <1>2, <2>2, DecideIsOK DEF Like
  <2> QED BY <1>2, <1>7, <2>2, <2>3, SettlesGoes
<1>8. CASE /\ Reaches("await_memory_confirmation")
           /\ Settles(graph.rt, "l2_waiting_approval", {}, Pauses)
           /\ UNCHANGED pref
  BY <1>4, <1>8
<1>9. ASSUME NEW input \in graph.input,
             IF ~Concerns(input, Proposal(graph.rt)) THEN Fails /\ UNCHANGED rows
             ELSE IF input.answer = "confirm"
             THEN /\ Settles(graph.rt, "l2_waiting_approval", {},
                        Within([graph EXCEPT !.work = [done |-> "stored"]]))
                  /\ pref' = IF CanTransition(graph.rt.preview, "l2_waiting_approval")
                             THEN {[value |-> graph.rt.decision.value, id |-> Proposal(graph.rt)]}
                             ELSE pref
             ELSE Settles(graph.rt, "l2_active", {}, Goes("decide", after({}))) /\ UNCHANGED pref
      PROVE  Kept
  BY <1>5, <1>6, <1>7, <1>9
<1>10. CASE /\ Settles(graph.rt, "l2_active", {}, Goes("decide", after({<<"memory", graph.rt.calls>>})))
            /\ UNCHANGED pref
  BY <1>7, <1>10
<1> QED BY <1>8, <1>9, <1>10 DEF AwaitMemory

\* A checkpoint's resolution still agrees with its case.
LEMMA SettledStays ==
  ASSUME IInv,
         \A d \in DOMAIN cases : /\ cases'[d].status = cases[d].status
                                 /\ cases'[d].answer = cases[d].answer
  PROVE  SettledOK(saved, cases')
<1>1. saved.node = "finalize_resolved" => saved.rt.preview \in DOMAIN cases
  BY DEF IInv, FlowOK, StateOK, UseOK, BeforeCase, BeforePreview
<1>2. SettledOK(saved, cases)
  BY DEF IInv, FlowOK
<1> QED BY <1>1, <1>2 DEF SettledOK

\* A node that prepares its call goes on, and no row changes.
LEMMA WorksOn ==
  ASSUME IInv, graph # NoGraph, graph.node = "decide", UNCHANGED rows,
         NEW g, Within(g), IsState(g), g.rt = graph.rt, g.node = "decide",
         g.input \subseteq graph.input, g.work.done # "charged"
  PROVE  Kept
<1>1. graph' = g /\ UNCHANGED <<shown, saved, run, asked, decided>>
  BY DEF Within
<1>2. shown' \in Nat /\ shown <= shown' /\ shown' = shown
  BY <1>1 DEF IInv, FlowOK
<1>3. StateNow(g)
  BY GraphNow DEF StateNow, StateOK, WorkOK
<1>4. SettledOK(g, cases) /\ Paired(g, saved)
  BY PairedOther DEF SettledOK
<1> QED BY <1>1, <1>2, <1>3, <1>4, QuietNode DEF StateNow

\* A graph with other work and no other input.
LEMMA WithWork ==
  ASSUME IInv, graph # NoGraph, NEW work, NEW g,
         g = [graph EXCEPT !.work = work] \/ g = [graph EXCEPT !.input = {}, !.work = work]
  PROVE  /\ IsState(g) /\ g.rt = graph.rt /\ g.node = graph.node
         /\ g.input \subseteq graph.input /\ g.work = work
BY GraphNow DEF IsState

LEMMA BeginDecideKeeps == ASSUME IInv, BeginDecide PROVE Kept
<1> DEFINE work == [done |-> "reading", obs |-> graph.rt.obs, next |-> 1, since |-> world]
           g == [graph EXCEPT !.input = {}, !.work = work]
<1>1. graph # NoGraph /\ graph.node = "decide" /\ UNCHANGED rows /\ Within(g)
  BY DEF BeginDecide, Is
<1>2. work.done # "charged"
  OBVIOUS
<1> HIDE DEF work
<1>3. /\ IsState(g) /\ g.rt = graph.rt /\ g.node = graph.node
      /\ g.input \subseteq graph.input /\ g.work = work
  BY <1>1, WithWork
<1> HIDE DEF g
<1> QED BY <1>1, <1>2, <1>3, WorksOn

\* What a source says is put in place of what was observed.
LEMMA RereadWork ==
  ASSUME IInv, PrepOK, Reread
  PROVE  /\ graph # NoGraph /\ graph.node = "decide" /\ UNCHANGED rows
         /\ \E g : /\ Within(g) /\ IsState(g) /\ g.rt = graph.rt /\ g.node = "decide"
                   /\ g.input = graph.input /\ g.work.done = "reading"
                   /\ ReadingOK(g.work, world)
<1> DEFINE k == graph.work.next
           now == 2 * (graph.rt.calls + 1)
<1>1. /\ graph # NoGraph /\ graph.node = "decide" /\ UNCHANGED rows
      /\ graph.work.done = "reading" /\ k \in DOMAIN graph.work.obs
  BY DEF Reread, Reading, Is
<1>2. PICK lost \in BOOLEAN :
        Within([graph EXCEPT !.work.obs[k] = Refresh(graph.work.obs[k], world, lost, now),
                             !.work.next = k + 1])
  BY DEF Reread
<1>3. PICK o : o = Refresh(graph.work.obs[k], world, lost, now)
  OBVIOUS
<1>4. ReadingOK(graph.work, world)
  BY <1>1 DEF PrepOK, Prepared
<1>5. world \in [Things -> Nat] /\ now \in Nat /\ IsState(graph)
  BY <1>1, GraphNow DEF IInv, RowsOK, IsRuntime
<1>6. PICK obs : obs = graph.work.obs
  OBVIOUS
<1>7. IsContext(obs) /\ k \in DOMAIN obs /\ IsObservation(obs[k]) /\ k \in Nat
  BY <1>1, <1>4, <1>6 DEF ReadingOK, IsContext
<1>8. IsObservation(o) /\ (o.fact /\ o.ver # 0 => WasSo(o, graph.work.since, world))
  <2> DEFINE since == graph.work.since
  <2>1. since \in [Things -> Nat] /\ NotAfter(since, world)
    BY <1>4 DEF ReadingOK
  <2> HIDE DEF since, now, k
  <2> QED BY <1>3, <1>5, <1>6, <1>7, <2>1, RefreshKeeps DEF since
<1>9. PICK new : new = [obs EXCEPT ![k] = o]
  OBVIOUS
<1>10. /\ IsContext(new) /\ DOMAIN new = DOMAIN obs
       /\ new[k] = o /\ \A i \in DOMAIN obs : i # k => new[i] = obs[i]
  BY <1>7, <1>8, <1>9, ContextWith
<1>11. PICK g : g = [graph EXCEPT !.work.obs[k] = o, !.work.next = k + 1]
  OBVIOUS
<1>12. PICK w : w = graph.work
  OBVIOUS
<1>13. DOMAIN w = {"done", "obs", "next", "since"} /\ w.obs = obs
  BY <1>4, <1>6, <1>12 DEF ReadingOK
<1>14. PICK v : v = [w EXCEPT !.obs = new, !.next = k + 1]
  OBVIOUS
<1>15. /\ DOMAIN v = {"done", "obs", "next", "since"} /\ v.done = w.done /\ v.obs = new
       /\ v.next = k + 1 /\ v.since = w.since
  BY <1>13, <1>14
<1>16. g = [graph EXCEPT !.work = v]
  <2>1. v = [[w EXCEPT !.obs = new] EXCEPT !.next = k + 1]
    BY <1>14
  <2>2. new = [w.obs EXCEPT ![k] = o]
    BY <1>9, <1>13
  <2> QED BY <1>5, <1>11, <1>12, <1>13, <1>15, <2>1, <2>2 DEF IsState
<1>17. /\ IsState(g) /\ g.rt = graph.rt /\ g.node = "decide" /\ g.input = graph.input /\ g.work = v
  BY <1>1, <1>5, <1>16 DEF IsState
<1>18. ReadingOK(v, world)
  <2>1. ASSUME NEW i \in DOMAIN new, i < k + 1, new[i].fact, new[i].ver # 0
        PROVE  WasSo(new[i], w.since, world)
    <3>1. CASE i = k
      BY <1>8, <1>10, <1>12, <2>1, <3>1
    <3>2. CASE i # k
      <4>1. i < k
        BY <1>7, <1>10, <2>1, <3>2 DEF IsContext
      <4> QED BY <1>4, <1>6, <1>10, <1>12, <2>1, <3>2, <4>1 DEF ReadingOK
    <3> QED BY <3>1, <3>2
  <2>2. /\ v.since \in [Things -> Nat] /\ NotAfter(v.since, world)
    BY <1>4, <1>12, <1>15 DEF ReadingOK
  <2>3. v.next \in Nat \ {0}
    BY <1>7, <1>15
  <2> QED BY <1>10, <1>15, <2>1, <2>2, <2>3 DEF ReadingOK
<1>19. Within(g)
  BY <1>2, <1>3, <1>11
<1> QED BY <1>1, <1>12, <1>15, <1>17, <1>18, <1>19

LEMMA RereadKeeps == ASSUME IInv, PrepOK, Reread PROVE Kept
<1>1. PICK g : /\ Within(g) /\ IsState(g) /\ g.rt = graph.rt /\ g.node = "decide"
               /\ g.input = graph.input /\ g.work.done = "reading"
  BY RereadWork
<1> QED BY <1>1, RereadWork, WorksOn

\* What is read is what the context is built from.
LEMMA BuiltWork ==
  ASSUME IInv, PrepOK, BuildContext
  PROVE  /\ graph # NoGraph /\ graph.node = "decide" /\ UNCHANGED rows
         /\ \E g : /\ Within(g) /\ IsState(g) /\ g.rt = graph.rt /\ g.node = "decide"
                   /\ g.input = graph.input /\ g.work.done = "built"
                   /\ BuiltOK(g.work, g.rt, world)
<1> DEFINE rt == [graph.rt EXCEPT !.obs = graph.work.obs]
           p1 == Build(rt.obs, Chat + Cardinality(pref), Torn, InputBudget(rt), Base)
           m1 == [why |-> p1.why, shown |-> p1.shown, heard |-> rt.heard, prefs |-> pref]
           w1 == [done |-> "built", rt |-> rt, cost |-> p1.cost, since |-> graph.work.since,
                  context |-> m1]
           g1 == [graph EXCEPT !.work = w1]
<1>1. /\ graph # NoGraph /\ graph.node = "decide" /\ UNCHANGED rows
      /\ graph.work.done = "reading" /\ graph.work.next \notin DOMAIN graph.work.obs
      /\ Within(g1)
  BY DEF BuildContext, Reading, Is
<1>2. ReadingOK(graph.work, world) /\ IsContext(graph.work.obs)
  BY <1>1 DEF PrepOK, Prepared, ReadingOK
<1>3. IsRuntime(graph.rt)
  BY <1>1, GraphNow
<1>4. Like(rt, graph.rt) /\ rt.obs = graph.work.obs
  BY <1>2, <1>3 DEF Like, IsRuntime
<1>5. Cardinality(pref) \in Nat /\ Chat + Cardinality(pref) \in Nat /\ Base \in Nat /\ IsFiniteSet(pref)
  BY Bounds, FS_CardinalityType DEF IInv, RowsOK
<1>6. InputBudget(rt) \in Nat /\ InputBudget(rt) = InputBudget([tokens |-> graph.rt.tokens])
  <2>1. rt.tokens \in Int /\ rt.tokens = graph.rt.tokens
    BY <1>3, <1>4 DEF Like, IsRuntime
  <2> HIDE DEF rt
  <2> QED BY <2>1, BudgetIsNat
<1> HIDE DEF rt
<1>7. /\ IsFiniteSet(p1.shown)
      /\ \A o \in p1.shown : o.fact => \E i \in DOMAIN rt.obs : o = rt.obs[i] /\ o.ver # 0
      /\ p1.why = "ready" =>
           /\ p1.cost = Small(Base + Cardinality(p1.shown) + (Chat + Cardinality(pref)), InputBudget(rt))
           /\ p1.cost \in Nat
  BY <1>2, <1>4, <1>5, <1>6, ContextCost
<1> HIDE DEF p1
<1>8. m1.why = p1.why /\ m1.shown = p1.shown /\ m1.prefs = pref
  OBVIOUS
<1> HIDE DEF m1
<1>9. /\ w1.done = "built" /\ w1.rt = rt /\ w1.cost = p1.cost
      /\ w1.since = graph.work.since /\ w1.context = m1
  OBVIOUS
<1> HIDE DEF w1
<1>10. /\ IsState(g1) /\ g1.rt = graph.rt /\ g1.node = graph.node /\ g1.input = graph.input
       /\ g1.work = w1
  BY <1>1, GraphNow DEF IsState
<1> HIDE DEF g1
<1>11. ASSUME NEW o \in m1.shown, o.fact
       PROVE  o.src \in Sources /\ WasSo(o, w1.since, world)
  <2>1. PICK i \in DOMAIN graph.work.obs : o = graph.work.obs[i] /\ o.ver # 0
    BY <1>4, <1>7, <1>8, <1>11
  <2>2. i < graph.work.next
    BY <1>1, <1>2 DEF ReadingOK, IsContext
  <2>3. WasSo(o, graph.work.since, world)
    BY <1>2, <1>11, <2>1, <2>2 DEF ReadingOK
  <2>4. o.src \in Sources
    BY <1>2, <1>11, <2>1 DEF IsContext, IsObservation
  <2> QED BY <1>9, <2>3, <2>4
<1>12. ASSUME m1.why = "ready"
       PROVE  /\ w1.cost \in Nat
              /\ w1.cost = Small(Base + Cardinality(m1.shown) + Chat + Cardinality(m1.prefs),
                                 InputBudget([tokens |-> graph.rt.tokens]))
  <2>1. Cardinality(p1.shown) \in Nat
    BY <1>7, FS_CardinalityType
  <2>2. Base + Cardinality(m1.shown) + Chat + Cardinality(m1.prefs)
          = Base + Cardinality(p1.shown) + (Chat + Cardinality(pref))
    BY <1>5, <1>8, <2>1, Bounds
  <2> QED BY <1>6, <1>7, <1>8, <1>9, <1>12, <2>2
<1>13. BuiltOK(w1, graph.rt, world)
  <2>1. w1.since \in [Things -> Nat] /\ NotAfter(w1.since, world)
    BY <1>2, <1>9 DEF ReadingOK
  <2> QED BY <1>4, <1>5, <1>7, <1>8, <1>9, <1>11, <1>12, <2>1 DEF BuiltOK
<1> QED BY <1>1, <1>9, <1>10, <1>13

LEMMA BuildContextKeeps == ASSUME IInv, PrepOK, BuildContext PROVE Kept
<1>1. PICK g : /\ Within(g) /\ IsState(g) /\ g.rt = graph.rt /\ g.node = "decide"
               /\ g.input = graph.input /\ g.work.done = "built"
  BY BuiltWork
<1> QED BY <1>1, BuiltWork, WorksOn

\* The context is saved, and the graph goes on with its case.
LEMMA SavedStep ==
  ASSUME IInv, graph # NoGraph, graph.node = "decide", NEW id, NEW m,
         manifest' = Stored(manifest, id, m), Current,
         UNCHANGED <<world, pref, daily, cases, metered>>,
         UNCHANGED <<shown, saved, run, asked, decided>>,
         graph'.rt.preview = graph.rt.preview, graph'.node # "finalize_resolved",
         RowsGrow => StateOK(graph', shown, cases, metered, manifest', decided)
  PROVE  Kept
<1>1. DOMAIN manifest \subseteq DOMAIN manifest' /\ \A i \in DOMAIN manifest : manifest'[i] = manifest[i]
  BY DEF Stored
<1>2. RowsOK' /\ MetersOK' /\ RowsGrow
  BY <1>1, ManifestKeeps DEF IInv
<1>3. shown' \in Nat /\ shown <= shown' /\ shown' = shown
  BY DEF IInv, FlowOK
<1>4. SettledOK(graph', cases') /\ Paired(graph', saved)
  BY PairedOther DEF SettledOK
<1>5. FlowOK'
  BY <1>2, <1>3, <1>4, FlowStep, SettledStays
<1> QED BY <1>2, <1>5 DEF Kept, IInv, Frozen

\* The case stops for the context.
LEMMA SavedStops ==
  ASSUME IInv, graph # NoGraph, graph.node = "decide", NEW id, NEW m,
         manifest' = Stored(manifest, id, m), Current,
         UNCHANGED <<world, pref, daily, cases, metered>>,
         NEW next, Like(next, graph.rt), Goes("finalize_stopped", next)
  PROVE  Kept
<1> DEFINE g == At("finalize_stopped", next, graph.quota)
<1>1. graph' = g /\ UNCHANGED <<shown, saved, run, gate, asked, decided>>
  BY DEF Goes
<1>2. graph.rt.preview # 0 /\ graph.rt.preview <= shown
  BY GraphNow, InCase DEF BeforeCase, BeforePreview
<1>3. UseOK("finalize_stopped", next, cases, metered)
  BY GraphNow, InCase DEF BeforeCase, BeforePreview, UseOK, Like
<1>4. NodeOK("finalize_stopped", next, manifest', decided)
  BY <1>2, DecideIsOK DEF Like
<1>5. StateOK(g, shown, cases, metered, manifest', decided)
  BY <1>2, <1>3, <1>4, StateAt DEF Like
<1>6. g.rt = next /\ g.node = "finalize_stopped"
  BY DEF At
<1> HIDE DEF g
<1> QED BY <1>1, <1>5, <1>6, SavedStep DEF Like

\* A runtime that is like that of the graph may stop its case.
LEMMA StopsQuiet ==
  ASSUME IInv, graph # NoGraph, graph.node = "decide", UNCHANGED rows,
         NEW next, Like(next, graph.rt), Goes("finalize_stopped", next)
  PROVE  Kept
<1>1. graph.rt.preview # 0
  BY InCase DEF BeforeCase, BeforePreview
<1>2. UseOK("finalize_stopped", next, cases, metered)
  BY GraphNow, InCase DEF BeforeCase, BeforePreview, UseOK, Like
<1>3. NodeOK("finalize_stopped", next, manifest, decided)
  BY <1>1, DecideIsOK DEF Like
<1> QED BY <1>2, <1>3, GoesQuiet DEF Like

LEMMA StoppedLike ==
  ASSUME NEW rt, NEW other, Like(rt, other), NEW e, NEW phase
  PROVE  /\ Like([rt EXCEPT !.evid = e], other) /\ [rt EXCEPT !.evid = e].evid = e
         /\ Like(Stopped(rt, phase), other)
         /\ Like(Stopped([rt EXCEPT !.evid = e], phase), other)
BY DEF Like, IsRuntime, Stopped

\* The graph that goes on to register its call.
SavedGraph(m) ==
  [graph EXCEPT !.work = [done |-> "saved", rt |-> [graph.work.rt EXCEPT !.evid = EvidenceOf(m)],
                          charge |-> graph.work.cost + Envelope + Reserve]]

\* The three ways a saved context goes.
LEMMA SaveCases ==
  ASSUME IInv, PrepOK, SaveContext, NEW m, m = graph.work.context
  PROVE  /\ graph # NoGraph /\ graph.node = "decide" /\ BuiltOK(graph.work, graph.rt, world)
         /\ UNCHANGED <<world, pref, daily, cases, metered>>
         /\ UNCHANGED <<shown, saved, run, asked, decided>>
         /\ \/ /\ manifest' = manifest
               /\ \E next : Like(next, graph.rt) /\ Goes("finalize_stopped", next)
            \/ /\ manifest' = Stored(manifest, CallId, m) /\ ~SavesOther(CallId, m)
               /\ \E next : Like(next, graph.rt) /\ Goes("finalize_stopped", next)
            \/ /\ manifest' = Stored(manifest, CallId, m) /\ ~SavesOther(CallId, m)
               /\ m.why = "ready" /\ Within(SavedGraph(m))
<1> DEFINE work == graph.work
           next == [work.rt EXCEPT !.evid = EvidenceOf(m)]
           charge == work.cost + Envelope + Reserve
<1>1. /\ graph # NoGraph /\ graph.node = "decide" /\ graph.work.done = "built"
      /\ UNCHANGED <<world, pref, daily, cases, metered>>
  BY DEF SaveContext, Is
<1>2. BuiltOK(work, graph.rt, world)
  BY <1>1 DEF PrepOK, Prepared
<1>3. IF SavesOther(CallId, m)
      THEN Goes("finalize_stopped", Stopped(work.rt, "stopped")) /\ UNCHANGED manifest
      ELSE /\ manifest' = Stored(manifest, CallId, m)
           /\ IF m.why # "ready" THEN Goes("finalize_stopped", Stopped(next, "stopped"))
              ELSE IF WithinBudget(next, charge) THEN Within(SavedGraph(m))
              ELSE Goes("finalize_stopped", Stopped(next, "budget_exhausted"))
  BY DEF SaveContext, SavedGraph
<1>4. Like(work.rt, graph.rt)
  BY <1>2 DEF BuiltOK
<1>5. \A phase : Like(Stopped(work.rt, phase), graph.rt) /\ Like(Stopped(next, phase), graph.rt)
  <2> DEFINE r == work.rt
             e == EvidenceOf(m)
  <2> HIDE DEF e
  <2>1. ASSUME NEW phase PROVE Like(Stopped(r, phase), graph.rt) /\ Like(Stopped([r EXCEPT !.evid = e], phase), graph.rt)
    BY <1>4, StoppedLike
  <2> QED BY <2>1 DEF e
<1> HIDE DEF next, charge, work
<1>6. UNCHANGED <<shown, saved, run, asked, decided>>
  BY <1>3 DEF Goes, Within
<1> QED BY <1>1, <1>2, <1>3, <1>5, <1>6 DEF work

\* What the saved context shows was so since the node began.
LEMMA SavedCurrent ==
  ASSUME NEW id, NEW m, m = graph.work.context, manifest' = Stored(manifest, id, m),
         BuiltOK(graph.work, graph.rt, world)
  PROVE  Current
<1>1. \A o \in m.shown : o.fact => WasSo(o, graph.work.since, world)
  BY DEF BuiltOK
<1>2. \A i \in DOMAIN manifest' \ DOMAIN manifest : manifest'[i] = m
  BY DEF Stored
<1> QED BY <1>1, <1>2 DEF Current

LEMMA SavedGraphIs ==
  ASSUME IInv, graph # NoGraph, NEW m, NEW g, g = SavedGraph(m)
  PROVE  /\ IsState(g) /\ g.rt = graph.rt /\ g.node = graph.node /\ g.input = graph.input
         /\ DOMAIN g.work = {"done", "rt", "charge"} /\ g.work.done = "saved"
         /\ g.work.rt = [graph.work.rt EXCEPT !.evid = EvidenceOf(m)]
         /\ g.work.charge = graph.work.cost + Envelope + Reserve
<1> DEFINE w == [done |-> "saved", rt |-> [graph.work.rt EXCEPT !.evid = EvidenceOf(m)],
                 charge |-> graph.work.cost + Envelope + Reserve]
<1>1. g = [graph EXCEPT !.work = w]
  BY DEF SavedGraph
<1>2. /\ DOMAIN w = {"done", "rt", "charge"} /\ w.done = "saved"
      /\ w.rt = [graph.work.rt EXCEPT !.evid = EvidenceOf(m)]
      /\ w.charge = graph.work.cost + Envelope + Reserve
  OBVIOUS
<1> HIDE DEF w
<1> QED BY <1>1, <1>2, GraphNow DEF IsState

LEMMA SaveContextKeeps == ASSUME IInv, PrepOK, SaveContext PROVE Kept
<1>1. PICK m : m = graph.work.context
  OBVIOUS
<1>2. /\ graph # NoGraph /\ graph.node = "decide" /\ BuiltOK(graph.work, graph.rt, world)
      /\ UNCHANGED <<world, pref, daily, cases, metered>>
      /\ UNCHANGED <<shown, saved, run, asked, decided>>
      /\ \/ /\ manifest' = manifest
            /\ \E next : Like(next, graph.rt) /\ Goes("finalize_stopped", next)
         \/ /\ manifest' = Stored(manifest, CallId, m) /\ ~SavesOther(CallId, m)
            /\ \E next : Like(next, graph.rt) /\ Goes("finalize_stopped", next)
         \/ /\ manifest' = Stored(manifest, CallId, m) /\ ~SavesOther(CallId, m)
            /\ m.why = "ready" /\ Within(SavedGraph(m))
  BY <1>1, SaveCases
<1>3. CASE manifest' = manifest /\ \E next : Like(next, graph.rt) /\ Goes("finalize_stopped", next)
  BY <1>2, <1>3, StopsQuiet DEF rows
<1>4. ASSUME manifest' = Stored(manifest, CallId, m) PROVE Current
  BY <1>1, <1>2, <1>4, SavedCurrent
<1>5. CASE /\ manifest' = Stored(manifest, CallId, m)
           /\ \E next : Like(next, graph.rt) /\ Goes("finalize_stopped", next)
  BY <1>2, <1>4, <1>5, SavedStops
<1>6. CASE manifest' = Stored(manifest, CallId, m) /\ Within(SavedGraph(m))
  <2>1. PICK g : g = SavedGraph(m)
    OBVIOUS
  <2>2. /\ IsState(g) /\ g.rt = graph.rt /\ g.node = graph.node /\ g.input = graph.input
        /\ g.work.done = "saved"
    BY <1>2, <2>1, SavedGraphIs
  <2>3. graph' = g
    BY <1>6, <2>1 DEF Within
  <2>4. ASSUME RowsGrow PROVE StateOK(g, shown, cases, metered, manifest', decided)
    <3>1. shown \in Nat /\ shown <= shown
      BY DEF IInv, FlowOK
    <3>2. Grows(cases, metered, manifest, decided, cases, metered, manifest', decided)
      BY <1>2, <2>4 DEF RowsGrow
    <3>3. StateOK(graph, shown, cases, metered, manifest', decided)
      BY <1>2, <3>1, <3>2, GraphNow, StateStays DEF StateNow
    <3> QED BY <2>2, <3>3 DEF StateOK, WorkOK
  <2> QED BY <1>2, <1>4, <1>6, <2>2, <2>3, <2>4, SavedStep
<1> QED BY <1>2, <1>3, <1>5, <1>6

\* The call is registered, and its graph will ask the model.
LEMMA ChargedKept ==
  ASSUME IInv, PrepOK, graph # NoGraph, graph.node = "decide", graph.work.done = "saved",
         Registered(CallId) \/ CanCharge(graph.rt.preview, graph.work.charge),
         Charge(CallId, graph.work.charge), Within([graph EXCEPT !.work.done = "charged"]),
         UNCHANGED <<world, pref, manifest>>
  PROVE  Kept
<1> DEFINE c  == graph.rt.preview
           id == <<c, graph.rt.calls + 1>>
<1>0. id = CallId
  BY DEF CallId
<1>1. PICK g : g = [graph EXCEPT !.work.done = "charged"]
  OBVIOUS
<1>2. graph' = g /\ UNCHANGED <<shown, saved, run, gate, asked, decided>>
  BY <1>1 DEF Within
<1>3. PICK w : w = graph.work
  OBVIOUS
<1>4. SavedOK(w, graph.rt, manifest)
  BY <1>3 DEF PrepOK, Prepared
<1>5. /\ c \in DOMAIN cases /\ graph.rt.calls <= cases[c].calls
      /\ graph.rt.tokens = Spent(metered, c, graph.rt.calls) /\ graph.rt.calls \in Nat
  BY InCase, GraphNow DEF BeforeCase, BeforePreview, IsRuntime
<1>6. /\ id \in DOMAIN manifest /\ w.charge \in Nat
      /\ w.charge = ChargeOf(manifest[id], Spent(metered, c, graph.rt.calls))
  BY <1>4, <1>5 DEF SavedOK
<1>7. Registered(id) \/ CanCharge(c, w.charge)
  BY <1>0, <1>3
<1>8. Charge(id, w.charge)
  BY <1>0, <1>3
<1>9. /\ RowsOK' /\ MetersOK' /\ RowsGrow
      /\ \A d \in DOMAIN cases : /\ cases'[d].status = cases[d].status
                                 /\ cases'[d].answer = cases[d].answer
                                 /\ cases[d].status \in Closed => cases'[d] = cases[d]
      /\ id \in DOMAIN metered' /\ metered'[id] = w.charge
  BY <1>2, <1>5, <1>6, <1>7, <1>8, ChargeKeeps DEF IInv
<1>10. shown' \in Nat /\ shown <= shown' /\ shown' = shown
  BY <1>2 DEF IInv, FlowOK
<1>11. StateOK(graph, shown', cases', metered', manifest', decided')
  BY <1>9, <1>10, GraphNow, StateStays DEF RowsGrow, StateNow
<1>12. PICK v : v = [w EXCEPT !.done = "charged"]
  OBVIOUS
<1>13. v.done = "charged" /\ v.rt = w.rt /\ v.charge = w.charge
  BY <1>4, <1>12 DEF SavedOK
<1>14. IsState(graph)
  BY GraphNow
<1>15. g = [graph EXCEPT !.work = v]
  BY <1>1, <1>3, <1>12, <1>14 DEF IsState
<1>16. /\ IsState(g) /\ g.rt = graph.rt /\ g.node = "decide" /\ g.input = graph.input /\ g.work = v
  BY <1>14, <1>15 DEF IsState
<1>17. WorkOK(g, metered', manifest')
  BY <1>4, <1>9, <1>13, <1>16 DEF WorkOK, SavedOK, Like
<1>18. StateOK(g, shown', cases', metered', manifest', decided')
  BY <1>11, <1>16, <1>17 DEF StateOK
<1>19. SettledOK(g, cases') /\ Paired(g, saved)
  BY <1>16, PairedOther DEF SettledOK
<1>20. SettledOK(saved, cases')
  BY <1>9, SettledStays
<1>21. FlowOK'
  BY <1>2, <1>9, <1>10, <1>18, <1>19, <1>20, FlowStep
<1> QED BY <1>9, <1>21 DEF Kept, IInv, Frozen, Current

LEMMA BeginCallKeeps == ASSUME IInv, PrepOK, BeginCall PROVE Kept
<1>1. /\ graph # NoGraph /\ graph.node = "decide" /\ graph.work.done = "saved"
      /\ UNCHANGED <<world, pref, manifest>>
  BY DEF BeginCall, Is
<1>2. CASE Registered(CallId) \/ CanCharge(graph.rt.preview, graph.work.charge)
  <2>1. /\ Charge(CallId, graph.work.charge)
        /\ Within([graph EXCEPT !.work.done = "charged"])
    BY <1>2 DEF BeginCall
  <2> QED BY <1>1, <1>2, <2>1, ChargedKept
<1>3. CASE ~(Registered(CallId) \/ CanCharge(graph.rt.preview, graph.work.charge))
  <2> DEFINE r == graph.work.rt
             next == Stopped(r, "budget_exhausted")
  <2>1. Goes("finalize_stopped", next) /\ UNCHANGED rows
    BY <1>1, <1>3 DEF BeginCall, rows
  <2>2. Like(r, graph.rt)
    BY <1>1 DEF PrepOK, Prepared, SavedOK
  <2> HIDE DEF r
  <2>3. Like(next, graph.rt)
    BY <2>2, StoppedLike
  <2> HIDE DEF next
  <2> QED BY <1>1, <2>1, <2>3, StopsQuiet
<1> QED BY <1>2, <1>3

\* Wherever a decision sends the graph, it may go there.
LEMMA ValidatedIsOK ==
  ASSUME NEW rt, IsRuntime(rt), rt.preview # 0, NEW mf, NEW dc,
         rt.calls # 0, rt.evid = EvidenceOf(mf[<<rt.preview, rt.calls>>]),
         NEW d \in ModelDecisions(rt)
  PROVE  /\ Like(Validated(rt, d).rt, rt)
         /\ NodeOK(Validated(rt, d).node, Validated(rt, d).rt, mf, dc)
<1> DEFINE held == [rt EXCEPT !.decision = d]
           kept(phase) == [held EXCEPT !.phase = phase]
<1>1. /\ Like(held, rt) /\ held.decision = d /\ held.evid = rt.evid
  BY DEF Like, IsRuntime
<1>2. \A phase : Like(Stopped(rt, phase), rt)
  BY DEF Like, IsRuntime, Stopped
<1>3. \A phase : Like(kept(phase), rt) /\ kept(phase).decision = d
  BY DEF Like, IsRuntime
<1>4. \A next : Like(next, rt) => NodeOK("finalize_stopped", next, mf, dc)
  BY DecideIsOK DEF Like
<1>5. \A next, node : Like(next, rt) /\ node \in {"await_user_input", "await_memory_confirmation", "bridge_refund"}
                        => NodeOK(node, next, mf, dc)
  BY DEF NodeOK, Like
<1>6. d.kind \in {"tool", "memory", "answer", "ask", "refund", "stop"}
      /\ (d.kind = "tool" => d.tool \in Tools)
  BY DEF ModelDecisions
<1>7. CASE d.kind = "tool" /\ ToolAllowed(rt, d.tool)
  <2>1. NodeOK("execute_tool", held, mf, dc)
    BY <1>1, <1>6, <1>7 DEF NodeOK, ToolAllowed, Like
  <2>2. Validated(rt, d) = [node |-> "execute_tool", rt |-> held]
    BY <1>7 DEF Validated
  <2> HIDE DEF held
  <2> QED BY <1>1, <2>1, <2>2
<1>8. CASE d.kind = "tool" /\ ~ToolAllowed(rt, d.tool)
  <2> DEFINE phase == IF rt.tools < MaxToolCalls THEN "stopped" ELSE "budget_exhausted"
  <2>1. Validated(rt, d) = [node |-> "finalize_stopped", rt |-> Stopped(rt, phase)]
    BY <1>8 DEF Validated
  <2> QED BY <1>2, <1>4, <2>1
<1>9. CASE d.kind = "ask"
  <2>1. Validated(rt, d) = [node |-> "await_user_input", rt |-> held]
    BY <1>9 DEF Validated
  <2> HIDE DEF held
  <2> QED BY <1>1, <1>5, <2>1
<1>10. CASE d.kind = "memory"
  <2>1. Validated(rt, d) = [node |-> "await_memory_confirmation", rt |-> held]
    BY <1>10 DEF Validated
  <2> HIDE DEF held
  <2> QED BY <1>1, <1>5, <2>1
<1>11. CASE d.kind = "refund"
  <2>1. Validated(rt, d) = [node |-> "bridge_refund", rt |-> held]
    BY <1>11 DEF Validated
  <2> HIDE DEF held
  <2> QED BY <1>1, <1>5, <2>1
<1>12. CASE d.kind = "answer" /\ Grounded(rt, d.ev)
  <2> DEFINE next == kept("resolved")
  <2>1. Validated(rt, d) = [node |-> "finalize_resolved", rt |-> next]
    BY <1>12 DEF Validated
  <2>2. Like(next, rt) /\ next.decision = d
    BY <1>3
  <2> HIDE DEF next
  <2>3. NodeOK("finalize_resolved", next, mf, dc)
    BY <1>12, <2>2 DEF NodeOK, Grounded, Like
  <2> QED BY <2>1, <2>2, <2>3
<1>13. CASE d.kind \in {"answer", "stop"} /\ ~(d.kind = "answer" /\ Grounded(rt, d.ev))
  <2> DEFINE next == kept("unresolved")
  <2>1. Validated(rt, d) = [node |-> "finalize_stopped", rt |-> next]
    BY <1>13 DEF Validated
  <2>2. Like(next, rt)
    BY <1>3
  <2> HIDE DEF next
  <2> QED BY <1>4, <2>1, <2>2
<1> QED BY <1>6, <1>7, <1>8, <1>9, <1>10, <1>11, <1>12, <1>13

\* The runtime after the call is what the case row was charged for.
LEMMA CalledSettling ==
  ASSUME IInv, graph # NoGraph, graph.node = "decide", graph.work.done = "charged",
         NEW rt, rt = AfterModelCall(graph.work.rt, graph.work.charge)
  PROVE  /\ Settling(rt, "l2_active") /\ rt.calls # 0 /\ rt.preview # 0
         /\ rt.evid = EvidenceOf(manifest[<<rt.preview, rt.calls>>])
         /\ UseOK("finalize_stopped", rt, cases, metered)
<1> DEFINE w  == graph.work
           c  == graph.rt.preview
           n  == graph.rt.calls
           id == <<c, n + 1>>
<1>1. /\ IsRuntime(w.rt) /\ w.rt.preview = c /\ w.rt.calls = n
      /\ w.rt.tokens = graph.rt.tokens /\ w.rt.tools = graph.rt.tools
      /\ w.rt.evid = EvidenceOf(manifest[id])
      /\ id \in DOMAIN metered /\ w.charge = metered[id]
  BY GraphNow DEF StateNow, StateOK, WorkOK
<1>2. /\ c \in DOMAIN cases /\ c # 0 /\ graph.rt.tokens = Spent(metered, c, n)
      /\ graph.rt.tools <= MaxToolCalls /\ graph.rt.tools <= cases[c].tools
      /\ n \in Nat /\ cases[c].calls \in Nat
  BY GraphNow, InCase DEF BeforeCase, BeforePreview, IsRuntime, Counted
<1>3. n + 1 <= cases[c].calls
  <2>1. id[1] = c /\ id[2] = n + 1
    OBVIOUS
  <2>2. n + 1 \in 1..cases[c].calls
    BY <1>1, <2>1 DEF IInv, MetersOK, NumbersMatch
  <2> QED BY <1>2, <2>2
<1>4. \A j \in 1..(n + 1) : metered[<<c, j>>] \in Nat
  BY <1>2, <1>3 DEF IInv, MetersOK, NumbersMatch
<1>5. Spent(metered, c, n + 1) = Spent(metered, c, n) + metered[id]
  BY <1>2, <1>4, SpentNext
<1>6. metered[id] \in Nat
  BY <1>2, <1>4
<1>7. /\ IsRuntime(rt) /\ rt.preview = c /\ rt.calls = n + 1
      /\ rt.tokens = graph.rt.tokens + metered[id]
      /\ rt.tools = graph.rt.tools /\ rt.evid = EvidenceOf(manifest[id])
  BY <1>1, <1>2, <1>6 DEF AfterModelCall, IsRuntime
<1>8. Settling(rt, "l2_active")
  BY <1>2, <1>3, <1>5, <1>7 DEF Settling, BeforeCase, BeforePreview, Open, Closed
<1>9. UseOK("finalize_stopped", rt, cases, metered)
  BY <1>2, <1>3, <1>5, <1>7 DEF UseOK
<1> QED BY <1>2, <1>7, <1>8, <1>9

LEMMA DecideCallKeeps == ASSUME IInv, DecideCall PROVE Kept
<1> DEFINE rt == AfterModelCall(graph.work.rt, graph.work.charge)
<1>1. /\ graph # NoGraph /\ graph.node = "decide" /\ graph.work.done = "charged"
      /\ UNCHANGED <<world, pref, daily, metered, manifest>>
  BY DEF DecideCall, Is
<1>2. /\ Settling(rt, "l2_active") /\ rt.calls # 0 /\ rt.preview # 0
      /\ rt.evid = EvidenceOf(manifest[<<rt.preview, rt.calls>>])
      /\ UseOK("finalize_stopped", rt, cases, metered)
  BY <1>1, CalledSettling
<1>3. IsRuntime(rt) /\ rt.preview = graph.rt.preview
  BY <1>2 DEF Settling
<1>4. \/ Goes("finalize_stopped", Stopped(rt, "stopped")) /\ UNCHANGED cases
      \/ \E d \in ModelDecisions(rt) :
           IF CanTransition(rt.preview, "l2_active")
           THEN Transition(rt, "l2_active", {}) /\ Goes(Validated(rt, d).node, Validated(rt, d).rt)
           ELSE Fails /\ UNCHANGED cases
  BY DEF DecideCall, WithoutDecision
<1> HIDE DEF rt
<1>5. CASE Goes("finalize_stopped", Stopped(rt, "stopped")) /\ UNCHANGED cases
  <2> DEFINE s == Stopped(rt, "stopped")
  <2>1. Like(s, rt)
    BY <1>3 DEF Like, IsRuntime, Stopped
  <2>2. Goes("finalize_stopped", s) /\ UNCHANGED rows
    BY <1>1, <1>5 DEF rows
  <2> HIDE DEF s
  <2>3. UseOK("finalize_stopped", s, cases, metered) /\ NodeOK("finalize_stopped", s, manifest, decided)
    BY <1>2, <2>1, DecideIsOK DEF UseOK, Like
  <2> QED BY <1>1, <1>3, <2>1, <2>2, <2>3, GoesQuiet DEF Like
<1>6. ASSUME NEW d \in ModelDecisions(rt),
             IF CanTransition(rt.preview, "l2_active")
             THEN Transition(rt, "l2_active", {}) /\ Goes(Validated(rt, d).node, Validated(rt, d).rt)
             ELSE Fails /\ UNCHANGED cases
      PROVE  Kept
  <2>1. Settles(rt, "l2_active", {}, Goes(Validated(rt, d).node, Validated(rt, d).rt))
    BY <1>1, <1>6 DEF Settles
  <2>2. /\ Like(Validated(rt, d).rt, rt)
        /\ NodeOK(Validated(rt, d).node, Validated(rt, d).rt, manifest, decided)
    BY <1>2, <1>3, ValidatedIsOK
  <2> QED BY <1>1, <1>2, <2>1, <2>2, SettlesGoes
<1> QED BY <1>4, <1>5, <1>6

LEMMA ExecuteToolKeeps == ASSUME IInv, ExecuteTool PROVE Kept
<1> DEFINE rt == graph.rt
           tool == rt.decision.tool
           next(o) == Observed(AfterToolCall(rt, tool, o.fact), o)
<1>1. graph # NoGraph /\ graph.node = "execute_tool" /\ pref' = pref
  BY DEF ExecuteTool, Is
<1>2. PICK ob \in Observations(tool, 2 * rt.calls + 1) :
        Settles(next(ob), "l2_active", {},
                IF next(ob).fails >= MaxToolFailures
                THEN Goes("finalize_stopped", Stopped(next(ob), "stopped"))
                ELSE Goes("decide", next(ob)))
  BY DEF ExecuteTool
<1> DEFINE nx == next(ob)
<1>3. /\ IsRuntime(rt) /\ rt.preview # 0 /\ rt.tools < MaxToolCalls /\ tool \in Tools
      /\ rt.preview \in DOMAIN cases /\ rt.calls <= cases[rt.preview].calls
      /\ rt.tokens = Spent(metered, rt.preview, rt.calls)
  BY <1>1, GraphNow, InCase DEF NodeOK, BeforeCase, BeforePreview
<1>4. IsObservation(ob)
  <2>0. tool \in Sources /\ tool \in Things /\ "policy" \in Things /\ world \in [Things -> Nat]
    BY <1>3, L2Assumption DEF IInv, RowsOK, Things, Sources
  <2>1. tool \in Sources /\ world[tool] \in Nat /\ world["policy"] \in Nat /\ 2 * rt.calls + 1 \in Nat
    BY <1>3, <2>0 DEF IsRuntime
  <2>2. IsObservation(Fact(tool, world, 2 * rt.calls + 1))
    BY <2>1 DEF IsObservation, Fact
  <2>3. IsObservation(Note(tool, 0, 2 * rt.calls + 1, {}))
    BY <2>1 DEF IsObservation, Note
  <2>4. IsObservation(NoPolicyFound(world, 2 * rt.calls + 1))
    BY <2>1 DEF IsObservation, Fact, NoPolicyFound, Sources
  <2> QED BY <2>2, <2>3, <2>4 DEF Observations
<1>5. /\ IsRuntime(nx) /\ nx.preview = rt.preview /\ nx.calls = rt.calls /\ nx.tokens = rt.tokens
      /\ nx.tools = rt.tools + 1
  <2> DEFINE used == AfterToolCall(rt, tool, ob.fact)
  <2>1. /\ IsRuntime(used) /\ used.preview = rt.preview /\ used.calls = rt.calls
        /\ used.tokens = rt.tokens /\ used.tools = rt.tools + 1
    BY <1>3 DEF IsRuntime, AfterToolCall
  <2> HIDE DEF used
  <2>2. LET n == Observed(used, ob)
        IN /\ IsRuntime(n) /\ n.preview = rt.preview /\ n.calls = rt.calls /\ n.tokens = rt.tokens
           /\ n.tools = rt.tools + 1
    BY <1>4, <2>1 DEF IsRuntime, IsContext, Observed
  <2> QED BY <2>2 DEF used
<1>6. Settles(nx, "l2_active", {}, IF nx.fails >= MaxToolFailures
                                   THEN Goes("finalize_stopped", Stopped(nx, "stopped"))
                                   ELSE Goes("decide", nx))
  BY <1>2
<1> HIDE DEF nx
<1>7. Settling(nx, "l2_active")
  BY <1>1, <1>3, <1>5, Bounds DEF Settling, BeforeCase, BeforePreview, Open, Closed, IsRuntime
<1>8. CASE nx.fails >= MaxToolFailures
  <2> DEFINE s == Stopped(nx, "stopped")
  <2>1. Like(s, nx)
    BY <1>5 DEF Like, IsRuntime, Stopped
  <2>2. Settles(nx, "l2_active", {}, Goes("finalize_stopped", s))
    BY <1>6, <1>8 DEF Settles
  <2> HIDE DEF s
  <2>3. NodeOK("finalize_stopped", s, manifest, decided)
    BY <1>3, <1>5, <2>1, DecideIsOK DEF Like
  <2> QED BY <1>1, <1>7, <2>1, <2>2, <2>3, SettlesGoes
<1>9. CASE ~(nx.fails >= MaxToolFailures)
  <2>1. Settles(nx, "l2_active", {}, Goes("decide", nx))
    BY <1>6, <1>9 DEF Settles
  <2>2. Like(nx, nx) /\ NodeOK("decide", nx, manifest, decided)
    BY <1>3, <1>5, DecideIsOK DEF Like
  <2> QED BY <1>1, <1>7, <2>1, <2>2, SettlesGoes
<1> QED BY <1>8, <1>9

LEMMA FinalizeStoppedKeeps == ASSUME IInv, FinalizeStopped PROVE Kept
<1> DEFINE status == StopStatus(graph.rt)
<1>1. /\ graph # NoGraph /\ graph.node = "finalize_stopped" /\ pref' = pref
      /\ Settles(graph.rt, status, {}, Goes("end", NoRuntime))
  BY DEF FinalizeStopped, Is
<1>2. status \in Open \cup Closed /\ status # "l2_resolved"
  BY DEF StopStatus, Closed
<1> HIDE DEF status
<1>3. Settling(graph.rt, status)
  BY <1>1, <1>2, HeldSettling DEF BeforeCase, BeforePreview
<1> QED BY <1>1, <1>3, SettlesGoes DEF BeforePreview

LEMMA FinalizeResolvedKeeps == ASSUME IInv, FinalizeResolved PROVE Kept
<1> DEFINE rt == graph.rt
           c  == rt.preview
           ev == rt.decision.ev
           g  == At("end", NoRuntime, graph.quota)
<1>1. /\ graph # NoGraph /\ graph.node = "finalize_resolved" /\ pref' = pref
      /\ UNCHANGED <<world, daily, metered, manifest>>
      /\ Settles(rt, "l2_resolved", ev, Goes("end", NoRuntime))
  BY DEF FinalizeResolved, Is, Settles
<1>2. CASE ~CanTransition(c, "l2_resolved")
  BY <1>1, <1>2, FailsKept DEF Settles, rows
<1>3. CASE CanTransition(c, "l2_resolved")
  <2>1. /\ Transition(rt, "l2_resolved", ev) /\ graph' = g
        /\ UNCHANGED <<shown, saved, run, gate, asked, decided>>
    BY <1>1, <1>3 DEF Settles, Goes
  <2>2. /\ c \in DOMAIN cases /\ rt.calls <= cases[c].calls /\ rt.tools <= cases[c].tools
        /\ rt.tokens = Spent(metered, c, rt.calls) /\ rt.tools <= MaxToolCalls
        /\ IsRuntime(rt)
        /\ ev # {} /\ rt.calls # 0 /\ ev \subseteq EvidenceOf(manifest[<<c, rt.calls>>])
        /\ SettledOK(graph, cases) /\ Paired(graph, saved)
    BY <1>1, GraphNow, InCase DEF BeforeCase, BeforePreview, NodeOK
  <2>3. rt.calls \in 1..cases[c].calls
    BY <2>2, RowsCounted DEF IsRuntime, IInv, Counted
  <2>4. cases[c].status = "l2_resolved" => cases[c].answer = ev
    BY <1>1, <2>2 DEF SettledOK
  <2>5. /\ RowsOK' /\ MetersOK' /\ RowsGrow
        /\ DOMAIN cases' = DOMAIN cases
        /\ \A d \in DOMAIN cases : d # c => cases'[d] = cases[d]
        /\ cases'[c].status = "l2_resolved" /\ cases'[c].answer = ev
        /\ cases[c].status \in Closed => cases'[c] = cases[c]
    BY <1>1, <1>3, <2>1, <2>2, <2>3, <2>4, TransitionKeeps, PrefStays DEF IInv, Closed
  <2>6. SettledOK(saved, cases')
    <3>1. saved.node = "finalize_resolved" => saved.rt.preview \in DOMAIN cases
      BY DEF IInv, FlowOK, StateOK, UseOK, BeforeCase, BeforePreview
    <3>2. SettledOK(saved, cases)
      BY DEF IInv, FlowOK
    <3>3. saved.node = "finalize_resolved" /\ saved.rt.preview = c => saved.rt.decision.ev = ev
      BY <2>2 DEF Paired
    <3> QED BY <2>5, <3>1, <3>2, <3>3 DEF SettledOK
  <2>7. shown' \in Nat /\ shown <= shown' /\ shown' = shown
    BY <2>1 DEF IInv, FlowOK
  <2>8. Counted(cases')
    BY <2>5 DEF RowsGrow, Grows
  <2>9. StateOK(g, shown', cases', metered', manifest', decided')
    BY <1>1, <2>1, <2>7, <2>8, StateEnded DEF BeforePreview
  <2>10. g.rt.preview = 0 /\ g.node = "end"
    BY NoRuntimeIs DEF At
  <2> HIDE DEF g
  <2>11. SettledOK(g, cases') /\ Paired(g, saved)
    BY <2>10, PairedOther DEF SettledOK
  <2>12. FlowOK'
    BY <2>1, <2>5, <2>6, <2>7, <2>9, <2>11, FlowStep
  <2>13. Frozen /\ Current
    BY <1>1, <2>5 DEF Frozen, Current
  <2> QED BY <2>5, <2>12, <2>13 DEF Kept, IInv
<1> QED BY <1>2, <1>3

-----------------------------------------------------------------------------
(* Requests, runs, and what others do                                      *)

\* A request that leaves the graph and the checkpoint alone.
LEMMA RequestKept ==
  ASSUME IInv, RowsOK', MetersOK', RowsGrow,
         UNCHANGED <<cases, metered, manifest, shown, graph, saved>>,
         Told(run', decided'), \A d \in asked' : d = <<d[1], d[2]>>
  PROVE  Kept
<1>1. shown \in Nat /\ shown <= shown
  BY DEF IInv, FlowOK
<1>2. StateOK(saved, shown, cases', metered', manifest', decided')
  BY <1>1, StateStays DEF IInv, FlowOK, RowsGrow
<1>3. graph # NoGraph => StateOK(graph, shown, cases', metered', manifest', decided')
  BY <1>1, StateStays DEF IInv, FlowOK, RowsGrow
<1>4. FlowOK'
  BY <1>1, <1>2, <1>3 DEF IInv, FlowOK
<1> QED BY <1>4, Unmoved DEF Kept, IInv

LEMMA SendKeeps ==
  ASSUME IInv, NEW text, NEW retried, Send(text, retried) PROVE Kept
<1>1. UNCHANGED <<rows, shown, graph, saved, asked, decided>> /\ Told(run', decided')
  BY DEF Send, Message, Told
<1>2. RowsOK' /\ MetersOK' /\ RowsGrow
  BY <1>1, AllSame DEF IInv
<1> QED BY <1>1, <1>2, RequestKept DEF rows, IInv, FlowOK

LEMMA AskDecisionKeeps ==
  ASSUME IInv, NEW answer, AskDecision(answer) PROVE Kept
<1>1. /\ UNCHANGED <<rows, shown, graph, saved, run, decided>>
      /\ asked' = {<<Pending(saved), answer>>}
  BY DEF AskDecision
<1>2. RowsOK' /\ MetersOK' /\ RowsGrow
  BY <1>1, AllSame DEF IInv
<1>3. Told(run', decided')
  BY <1>1 DEF IInv, FlowOK
<1> QED BY <1>1, <1>2, <1>3, RequestKept DEF rows

LEMMA AcceptDecisionKeeps ==
  ASSUME IInv, NEW d \in asked, AcceptDecision(d) PROVE Kept
<1>1. /\ UNCHANGED <<rows, shown, graph, saved>> /\ asked' \subseteq asked
      /\ decided \subseteq decided'
      /\ \/ UNCHANGED <<run, decided>>
         \/ run' = Decision(d) /\ d \in decided'
  BY DEF AcceptDecision
<1>2. RowsOK' /\ MetersOK' /\ RowsGrow
  BY <1>1, AllSame DEF IInv
<1>3. Told(run', decided')
  BY <1>1 DEF IInv, FlowOK, Told, Decision
<1> QED BY <1>1, <1>2, <1>3, RequestKept DEF rows, IInv, FlowOK

LEMMA OthersKeep ==
  ASSUME IInv, UNCHANGED <<cases, metered, manifest, flow>>,
         world' \in [Things -> Nat], pref' = pref \/ pref' = {},
         daily' \in 0..DailyLimit, daily <= daily'
  PROVE  Kept
<1>1. UNCHANGED <<shown, graph, saved, run, asked, decided>>
  BY DEF flow
<1>2. IsFiniteSet(pref') /\ \A p \in pref' : Consent(p.id, decided')
  BY <1>1, FS_EmptySet DEF IInv, RowsOK
<1>3. RowsOK' /\ MetersOK' /\ RowsGrow
  BY <1>1, <1>2, RowsSame DEF IInv
<1> QED BY <1>1, <1>3, RequestKept DEF IInv, FlowOK

\* Versions only grow.
LEMMA SourceGrows ==
  ASSUME IInv, NEW src \in Tools, ChangeSource(src)
  PROVE  /\ world' \in [Things -> Nat] /\ NotAfter(world, world')
         /\ UNCHANGED <<pref, daily, cases, metered, manifest, flow>>
<1>1. src \in Things /\ "text" \in Things /\ world \in [Things -> Nat]
  BY L2Assumption DEF IInv, RowsOK, Things
<1>2. PICK rewrites \in BOOLEAN :
        world' = [world EXCEPT ![src] = @ + 1, !.text = IF rewrites THEN @ + 1 ELSE @]
  BY DEF ChangeSource
<1>3. src # "text"
  BY L2Assumption DEF Sources
<1>4. PICK w1 : w1 = [world EXCEPT ![src] = world[src] + 1]
  OBVIOUS
<1>5. w1 \in [Things -> Nat] /\ \A t \in Things : world[t] <= w1[t]
  BY <1>1, <1>4
<1>6. PICK text \in Nat : text >= w1.text /\ world' = [w1 EXCEPT !.text = text]
  <2>1. w1.text = world.text /\ world.text \in Nat
    BY <1>1, <1>3, <1>4
  <2>2. world' = [w1 EXCEPT !.text = IF rewrites THEN world.text + 1 ELSE world.text]
    BY <1>2, <1>4
  <2> QED BY <2>1, <2>2
<1>7. world' \in [Things -> Nat] /\ NotAfter(world, world')
  BY <1>1, <1>5, <1>6 DEF NotAfter
<1> QED BY <1>7 DEF ChangeSource

LEMMA ChangeSourceKeeps ==
  ASSUME IInv, NEW src \in Tools, ChangeSource(src) PROVE Kept
<1>1. daily \in 0..DailyLimit /\ daily <= daily
  BY Bounds DEF IInv, RowsOK
<1> QED BY <1>1, SourceGrows, OthersKeep

LEMMA SpendQuotaKeeps == ASSUME IInv, SpendQuota PROVE Kept
<1>1. world' \in [Things -> Nat] /\ pref' = pref /\ daily' \in 0..DailyLimit /\ daily <= daily'
  BY Bounds DEF SpendQuota, IInv, RowsOK
<1> QED BY <1>1, OthersKeep DEF SpendQuota

LEMMA DeletePreferenceKeeps == ASSUME IInv, DeletePreference PROVE Kept
<1>1. world' \in [Things -> Nat] /\ pref' = {} /\ daily' \in 0..DailyLimit /\ daily <= daily'
  BY Bounds DEF DeletePreference, IInv, RowsOK
<1> QED BY <1>1, OthersKeep DEF DeletePreference

\* The run ends, and what the graph or the checkpoint held is the checkpoint.
LEMMA LeavesKept ==
  ASSUME IInv, UNCHANGED <<rows, shown, decided>>, asked' \subseteq asked,
         run' = NoRun, graph' = NoGraph, NEW s, NEW coming,
         s = saved \/ (s = graph /\ graph # NoGraph),
         saved' = Interrupted(s, coming)
  PROVE  Kept
<1>1. RowsOK' /\ MetersOK' /\ RowsGrow
  BY AllSame DEF IInv
<1>2. StateNow(s) /\ SettledOK(s, cases) /\ Counted(cases) /\ shown \in Nat
  BY RowsCounted DEF IInv, FlowOK, StateNow
<1>3. StateNow(saved') /\ SettledOK(saved', cases)
  BY <1>2, StateInterrupted DEF StateNow
<1>4. Told(NoRun, decided)
  BY DEF Told, NoRun
<1>5. UNCHANGED <<cases, metered, manifest>>
  BY DEF rows
<1>6. FlowOK'
  BY <1>2, <1>3, <1>4, <1>5 DEF FlowOK, IInv, StateNow
<1> QED BY <1>1, <1>5, <1>6, Unmoved DEF Kept, IInv

LEMMA RestartKeeps == ASSUME IInv, Restart PROVE Kept
<1>1. PICK s \in {saved, graph} \ {NoGraph} : saved' = Interrupted(s, {})
  BY DEF Restart
<1> QED BY <1>1, LeavesKept DEF Restart

LEMMA CompleteRunKeeps == ASSUME IInv, CompleteRun PROVE Kept
BY LeavesKept DEF CompleteRun

LEMMA FailRunKeeps == ASSUME IInv, FailRun PROVE Kept
BY FailsKept DEF FailRun

\* A run resumes the checkpoint with what it was accepted for.
LEMMA ResumesKept ==
  ASSUME IInv, NEW q, graph' = [saved EXCEPT !.quota = q, !.input = {run}],
         UNCHANGED <<rows, shown, saved, run, asked, decided>>
  PROVE  Kept
<1> DEFINE g == [saved EXCEPT !.quota = q, !.input = {run}]
<1>1. StateNow(saved) /\ SettledOK(saved, cases) /\ IsState(saved) /\ Told(run, decided)
  BY DEF IInv, FlowOK, StateNow, StateOK
<1>2. /\ IsState(g) /\ g.rt = saved.rt /\ g.node = saved.node /\ g.input = {run}
      /\ g.work = saved.work
  BY <1>1 DEF IsState
<1>3. graph' = g
  OBVIOUS
<1> HIDE DEF g
<1>4. StateNow(g)
  BY <1>1, <1>2 DEF StateNow, StateOK, WorkOK
<1>5. SettledOK(g, cases) /\ Paired(g, saved)
  BY <1>1, <1>2 DEF SettledOK, Paired
<1>6. shown' \in Nat /\ shown <= shown' /\ shown' = shown
  BY DEF IInv, FlowOK
<1> QED BY <1>3, <1>4, <1>5, <1>6, QuietNode DEF StateNow

LEMMA StartDecisionKeeps == ASSUME IInv, StartDecision PROVE Kept
BY ResumesKept DEF StartDecision

LEMMA StartMessageKeeps == ASSUME IInv, StartMessage PROVE Kept
<1>1. CASE /\ graph' = [saved EXCEPT !.quota = daily < DailyLimit, !.input = {run}]
           /\ UNCHANGED <<rows, shown, saved, run, gate, asked, decided>>
  <2> DEFINE q == daily < DailyLimit
  <2>1. graph' = [saved EXCEPT !.quota = q, !.input = {run}]
    BY <1>1
  <2> HIDE DEF q
  <2> QED BY <1>1, <2>1, ResumesKept
<1>2. CASE Fails /\ UNCHANGED rows
  BY <1>2, FailsKept
<1>3. CASE /\ daily # DailyLimit /\ daily' = daily + 1
           /\ graph' = At("bind_and_interpret", NoRuntime, daily' < DailyLimit)
           /\ UNCHANGED <<world, pref, cases, metered, manifest,
                          shown, saved, run, gate, asked, decided>>
  <2> DEFINE q == daily' < DailyLimit
             g == At("bind_and_interpret", NoRuntime, q)
  <2>1. daily' \in 0..DailyLimit /\ daily <= daily'
    BY <1>3, Bounds DEF IInv, RowsOK
  <2>2. world' \in [Things -> Nat] /\ IsFiniteSet(pref') /\ \A p \in pref' : Consent(p.id, decided')
    BY <1>3 DEF IInv, RowsOK
  <2>3. RowsOK' /\ MetersOK' /\ RowsGrow
    BY <1>3, <2>1, <2>2, RowsSame DEF IInv
  <2>4. graph' = g
    BY <1>3
  <2> HIDE DEF q
  <2>5. shown' \in Nat /\ shown <= shown' /\ shown' = shown /\ Counted(cases)
    BY <1>3, RowsCounted DEF IInv, FlowOK
  <2>6. StateNow(g)
    BY <2>5, StateEnded DEF StateNow, BeforePreview
  <2>7. g.rt.preview = 0 /\ g.node = "bind_and_interpret"
    BY NoRuntimeIs DEF At
  <2> HIDE DEF g
  <2>8. SettledOK(g, cases') /\ Paired(g, saved)
    BY <2>7, PairedOther DEF SettledOK
  <2>9. SettledOK(saved, cases')
    BY <1>3 DEF IInv, FlowOK
  <2>10. FlowOK'
    BY <1>3, <2>3, <2>4, <2>5, <2>6, <2>8, <2>9, FlowStep DEF StateNow
  <2> QED BY <1>3, <2>3, <2>10, Unmoved DEF Kept, IInv
<1> QED BY <1>1, <1>2, <1>3 DEF StartMessage

-----------------------------------------------------------------------------

(* The preparation of a call                                               *)

LEMMA PrepAway ==
  ASSUME saved'.work.done = "nothing", graph' = NoGraph \/ graph'.work.done \notin Preparing
  PROVE  PrepOK'
BY DEF PrepOK, Prepared, Preparing

LEMMA PrepSame ==
  ASSUME PrepOK, UNCHANGED <<graph, saved, manifest, world>>
  PROVE  PrepOK'
BY DEF PrepOK

\* What is kept of a graph prepares nothing.
LEMMA KeptPrepares ==
  ASSUME NEW s, IsState(s), NEW coming
  PROVE  Interrupted(s, coming).work.done = "nothing"
BY DEF Interrupted, Ended, At, IsState

LEMMA FailsAway == ASSUME IInv, PrepOK, Fails PROVE PrepOK'
<1>1. graph # NoGraph => IsState(graph)
  BY GraphNow
<1>2. saved'.work.done = "nothing" /\ graph' = NoGraph
  BY <1>1, KeptPrepares DEF Fails, PrepOK
<1> QED BY <1>2, PrepAway

LEMMA GoesAway == ASSUME PrepOK, NEW node, NEW rt, Goes(node, rt) PROVE PrepOK'
<1>1. saved' = saved /\ graph'.work.done = "nothing"
  BY DEF Goes, At
<1> QED BY <1>1, PrepAway DEF PrepOK, Preparing

LEMMA PausesAway ==
  ASSUME IInv, PrepOK, graph # NoGraph, graph.node # "decide", Pauses
  PROVE  PrepOK'
<1>1. IsState(graph)
  BY GraphNow
<1>2. saved' = saved /\ graph'.work = graph.work
  BY <1>1 DEF Pauses, Within, IsState
<1> QED BY <1>2, PrepAway DEF PrepOK, Prepared

LEMMA ResumesAway ==
  ASSUME IInv, PrepOK, NEW q, graph' = [saved EXCEPT !.quota = q, !.input = {run}], saved' = saved
  PROVE  PrepOK'
<1>1. IsState(saved)
  BY DEF IInv, FlowOK, StateOK
<1>2. graph'.work = saved.work
  BY <1>1 DEF IsState
<1> QED BY <1>2, PrepAway DEF PrepOK, Preparing

\* Nothing is prepared in front of a case or behind a call.
LEMMA NodesAway ==
  ASSUME IInv, PrepOK,
         Bind \/ PrepareUpgrade \/ AwaitUpgrade \/ CancelUpgrade \/ CreateCase \/ AwaitRefund
  PROVE  PrepOK'
<1>1. CASE Bind
  BY <1>1, GoesAway DEF Bind
<1>2. CASE PrepareUpgrade
  <2>1. CASE graph.quota /\ ~HasOpenCase
    <3>1. saved' = saved /\ graph'.work.done = "nothing"
      BY <1>2, <2>1 DEF PrepareUpgrade, At
    <3> QED BY <3>1, PrepAway DEF PrepOK, Preparing
  <2>2. CASE ~(graph.quota /\ ~HasOpenCase)
    BY <1>2, <2>2, GoesAway DEF PrepareUpgrade
  <2> QED BY <2>1, <2>2
<1>3. CASE AwaitUpgrade
  <2>1. graph # NoGraph /\ graph.node # "decide"
    BY <1>3 DEF AwaitUpgrade, Is, Reaches
  <2>2. Pauses \/ Fails \/ \E node, rt : Goes(node, rt)
    BY <1>3 DEF AwaitUpgrade
  <2> QED BY <2>1, <2>2, PausesAway, FailsAway, GoesAway
<1>4. CASE CancelUpgrade
  BY <1>4, GoesAway DEF CancelUpgrade
<1>5. CASE CreateCase
  <2>1. Fails \/ \E node, rt : Goes(node, rt)
    BY <1>5 DEF CreateCase
  <2> QED BY <2>1, FailsAway, GoesAway
<1>6. CASE AwaitRefund
  <2>1. graph # NoGraph /\ graph.node # "decide"
    BY <1>6 DEF AwaitRefund, Is, Reaches
  <2>2. Pauses \/ Fails \/ \E node, rt : Goes(node, rt)
    BY <1>6 DEF AwaitRefund
  <2> QED BY <2>1, <2>2, PausesAway, FailsAway, GoesAway
<1> QED BY <1>1, <1>2, <1>3, <1>4, <1>5, <1>6

LEMMA SettlersAway ==
  ASSUME IInv, PrepOK,
         DecideCall \/ ExecuteTool \/ AwaitUserInput \/ AwaitMemory \/ BridgeRefund
           \/ RecordRefund \/ FinalizeResolved \/ FinalizeStopped
  PROVE  PrepOK'
<1>1. CASE DecideCall
  <2>1. Fails \/ \E node, rt : Goes(node, rt)
    BY <1>1 DEF DecideCall
  <2> QED BY <2>1, FailsAway, GoesAway
<1>2. CASE ExecuteTool
  <2>1. Fails \/ \E node, rt : Goes(node, rt)
    BY <1>2 DEF ExecuteTool, Settles
  <2> QED BY <2>1, FailsAway, GoesAway
<1>3. CASE AwaitUserInput
  <2>1. graph # NoGraph /\ graph.node # "decide"
    BY <1>3 DEF AwaitUserInput, Is, Reaches
  <2>2. Pauses \/ Fails \/ \E node, rt : Goes(node, rt)
    BY <1>3 DEF AwaitUserInput, Settles
  <2> QED BY <2>1, <2>2, PausesAway, FailsAway, GoesAway
<1>4. CASE AwaitMemory
  <2>1. graph # NoGraph /\ graph.node # "decide"
    BY <1>4 DEF AwaitMemory, Is, Reaches
  <2>2. \/ Pauses \/ Fails \/ \E node, rt : Goes(node, rt)
        \/ Within([graph EXCEPT !.work = [done |-> "stored"]])
    BY <1>4 DEF AwaitMemory, Settles
  <2>3. CASE Within([graph EXCEPT !.work = [done |-> "stored"]])
    <3>1. IsState(graph)
      BY <2>1, GraphNow
    <3>2. saved' = saved /\ graph'.work.done = "stored"
      BY <2>3, <3>1 DEF Within, IsState
    <3> QED BY <3>2, PrepAway DEF PrepOK, Preparing
  <2> QED BY <2>1, <2>2, <2>3, PausesAway, FailsAway, GoesAway
<1>5. CASE BridgeRefund
  <2>1. Fails \/ \E node, rt : Goes(node, rt)
    BY <1>5 DEF BridgeRefund, Settles
  <2> QED BY <2>1, FailsAway, GoesAway
<1>6. CASE RecordRefund \/ FinalizeResolved \/ FinalizeStopped
  <2>1. Fails \/ \E node, rt : Goes(node, rt)
    BY <1>6 DEF RecordRefund, FinalizeResolved, FinalizeStopped, Settles
  <2> QED BY <2>1, FailsAway, GoesAway
<1> QED BY <1>1, <1>2, <1>3, <1>4, <1>5, <1>6

\* Nothing is read when the node begins.
LEMMA BeginsPrepared == ASSUME IInv, PrepOK, BeginDecide PROVE PrepOK'
<1> DEFINE work == [done |-> "reading", obs |-> graph.rt.obs, next |-> 1, since |-> world]
           g == [graph EXCEPT !.input = {}, !.work = work]
<1>1. /\ graph # NoGraph /\ graph.node = "decide" /\ world' = world /\ saved' = saved /\ graph' = g
  BY DEF BeginDecide, Is, rows, Within
<1>2. world \in [Things -> Nat] /\ IsContext(graph.rt.obs)
  BY <1>1, GraphNow DEF IInv, RowsOK, IsRuntime
<1>3. ReadingOK(work, world)
  <2>1. NotAfter(world, world)
    BY <1>2 DEF NotAfter
  <2>2. /\ DOMAIN work = {"done", "obs", "next", "since"}
        /\ work.obs = graph.rt.obs /\ work.next = 1 /\ work.since = world
    OBVIOUS
  <2> HIDE DEF work
  <2>3. \A i \in DOMAIN work.obs : ~(i < work.next)
    BY <1>2, <2>2 DEF IsContext
  <2> QED BY <1>2, <2>1, <2>2, <2>3 DEF ReadingOK
<1>4. work.done = "reading"
  OBVIOUS
<1> HIDE DEF work
<1>5. g.work = work /\ g.node = "decide"
  BY <1>1, WithWork
<1> HIDE DEF g
<1> QED BY <1>1, <1>3, <1>4, <1>5 DEF PrepOK, Prepared

LEMMA PreparesOn ==
  ASSUME IInv, PrepOK, Reread \/ BuildContext
  PROVE  PrepOK'
<1>1. CASE Reread
  <2>1. PICK g : /\ Within(g) /\ g.node = "decide" /\ g.work.done = "reading"
                 /\ ReadingOK(g.work, world)
    BY <1>1, RereadWork
  <2>2. world' = world /\ saved' = saved /\ graph' = g
    BY <1>1, <2>1, RereadWork DEF rows, Within
  <2> QED BY <2>1, <2>2 DEF PrepOK, Prepared
<1>2. CASE BuildContext
  <2>1. PICK g : /\ Within(g) /\ g.node = "decide" /\ g.work.done = "built"
                 /\ BuiltOK(g.work, g.rt, world)
    BY <1>2, BuiltWork
  <2>2. world' = world /\ saved' = saved /\ graph' = g
    BY <1>2, <2>1, BuiltWork DEF rows, Within
  <2> QED BY <2>1, <2>2 DEF PrepOK, Prepared
<1> QED BY <1>1, <1>2

\* What is saved is what the call will be charged for.
LEMMA SavesPrepared == ASSUME IInv, PrepOK, SaveContext PROVE PrepOK'
<1>1. PICK m : m = graph.work.context
  OBVIOUS
<1>2. /\ graph # NoGraph /\ graph.node = "decide" /\ BuiltOK(graph.work, graph.rt, world)
      /\ UNCHANGED saved
      /\ \/ \E next : Goes("finalize_stopped", next)
         \/ /\ manifest' = Stored(manifest, CallId, m) /\ ~SavesOther(CallId, m)
            /\ m.why = "ready" /\ Within(SavedGraph(m))
  BY <1>1, SaveCases
<1>3. CASE /\ manifest' = Stored(manifest, CallId, m) /\ ~SavesOther(CallId, m)
           /\ m.why = "ready" /\ Within(SavedGraph(m))
  <2> DEFINE id == <<graph.rt.preview, graph.rt.calls + 1>>
  <2>1. PICK g : g = SavedGraph(m)
    OBVIOUS
  <2>2. /\ g.rt = graph.rt /\ g.node = "decide"
        /\ DOMAIN g.work = {"done", "rt", "charge"} /\ g.work.done = "saved"
        /\ g.work.rt = [graph.work.rt EXCEPT !.evid = EvidenceOf(m)]
        /\ g.work.charge = graph.work.cost + Envelope + Reserve
    BY <1>2, <2>1, SavedGraphIs
  <2>3. graph' = g /\ saved' = saved
    BY <1>2, <1>3, <2>1 DEF Within
  <2>4. id \in DOMAIN manifest' /\ manifest'[id] = m
    BY <1>3 DEF Stored, SavesOther, CallId
  <2>5. Like(g.work.rt, graph.rt) /\ g.work.rt.evid = EvidenceOf(m)
    <3> DEFINE r == graph.work.rt
               e == EvidenceOf(m)
    <3>1. Like(r, graph.rt)
      BY <1>2 DEF BuiltOK
    <3> HIDE DEF r, e
    <3>2. Like([r EXCEPT !.evid = e], graph.rt) /\ [r EXCEPT !.evid = e].evid = e
      BY <3>1, StoppedLike
    <3> QED BY <2>2, <3>2 DEF r, e
  <2>6. g.work.charge \in Nat /\ g.work.charge = ChargeOf(m, graph.rt.tokens)
    <3>1. /\ graph.work.cost \in Nat
          /\ graph.work.cost = Small(Base + Cardinality(m.shown) + Chat + Cardinality(m.prefs),
                                     InputBudget([tokens |-> graph.rt.tokens]))
      BY <1>1, <1>2, <1>3 DEF BuiltOK
    <3> QED BY <2>2, <3>1, Bounds DEF ChargeOf
  <2>7. SavedOK(g.work, g.rt, manifest')
    BY <2>2, <2>4, <2>5, <2>6 DEF SavedOK
  <2> QED BY <2>2, <2>3, <2>7 DEF PrepOK, Prepared
<1> QED BY <1>2, <1>3, GoesAway

LEMMA CallsPrepared == ASSUME IInv, PrepOK, BeginCall PROVE PrepOK'
<1>1. graph # NoGraph /\ graph.node = "decide" /\ graph.work.done = "saved"
  BY DEF BeginCall, Is
<1>2. Within([graph EXCEPT !.work.done = "charged"]) \/ \E node, rt : Goes(node, rt)
  BY DEF BeginCall
<1>3. CASE Within([graph EXCEPT !.work.done = "charged"])
  <2>1. PICK w : w = graph.work
    OBVIOUS
  <2>2. IsState(graph) /\ DOMAIN w = {"done", "rt", "charge"}
    BY <1>1, <2>1, GraphNow DEF PrepOK, Prepared, SavedOK
  <2>3. graph'.work.done = "charged" /\ saved' = saved
    BY <1>3, <2>1, <2>2 DEF Within, IsState
  <2> QED BY <2>3, PrepAway DEF PrepOK, Preparing
<1> QED BY <1>2, <1>3, GoesAway

\* What is prepared stands, whatever changes under it.
LEMMA GrowsPrepared ==
  ASSUME IInv, PrepOK, world' \in [Things -> Nat], NotAfter(world, world'),
         UNCHANGED <<manifest, graph, saved>>
  PROVE  PrepOK'
<1>1. world \in [Things -> Nat]
  BY DEF IInv, RowsOK
<1>2. ASSUME graph # NoGraph PROVE Prepared(graph, manifest, world')
  <2>0. Prepared(graph, manifest, world)
    BY <1>2 DEF PrepOK
  <2>1. PICK work : work = graph.work
    OBVIOUS
  <2>2. \A v \in [Things -> Nat] : NotAfter(v, world) => NotAfter(v, world')
    BY <1>1 DEF NotAfter
  <2>3. ASSUME ReadingOK(work, world) PROVE ReadingOK(work, world')
    <3>1. ASSUME NEW i \in DOMAIN work.obs, work.obs[i].fact, WasSo(work.obs[i], work.since, world)
          PROVE  WasSo(work.obs[i], work.since, world')
      <4>1. work.obs[i].src \in Sources /\ work.since \in [Things -> Nat]
        BY <2>3, <3>1 DEF ReadingOK, IsContext, IsObservation
      <4> QED BY <1>1, <3>1, <4>1, WasSoStays
    <3> QED BY <2>2, <2>3, <3>1 DEF ReadingOK
  <2>4. ASSUME BuiltOK(work, graph.rt, world) PROVE BuiltOK(work, graph.rt, world')
    <3>1. ASSUME NEW o \in work.context.shown, o.src \in Sources, WasSo(o, work.since, world)
          PROVE  WasSo(o, work.since, world')
      <4>1. work.since \in [Things -> Nat]
        BY <2>4 DEF BuiltOK
      <4> QED BY <1>1, <3>1, <4>1, WasSoStays
    <3> QED BY <2>2, <2>4, <3>1 DEF BuiltOK
  <2> QED BY <2>0, <2>1, <2>3, <2>4 DEF Prepared
<1> QED BY <1>2 DEF PrepOK

LEMMA RunsAway ==
  ASSUME IInv, PrepOK, StartMessage \/ StartDecision \/ CompleteRun \/ FailRun \/ Restart
  PROVE  PrepOK'
<1>0. IsState(saved) /\ (graph # NoGraph => IsState(graph))
  BY GraphNow DEF IInv, FlowOK, StateOK
<1>1. CASE StartMessage
  <2>1. CASE Fails
    BY <2>1, FailsAway
  <2>2. CASE graph' = [saved EXCEPT !.quota = daily < DailyLimit, !.input = {run}] /\ saved' = saved
    <3> DEFINE q == daily < DailyLimit
    <3>1. graph' = [saved EXCEPT !.quota = q, !.input = {run}]
      BY <2>2
    <3> HIDE DEF q
    <3> QED BY <2>2, <3>1, ResumesAway
  <2>3. CASE /\ graph' = At("bind_and_interpret", NoRuntime, daily' < DailyLimit)
             /\ saved' = saved
    <3>1. graph'.work.done = "nothing"
      BY <2>3 DEF At
    <3> QED BY <2>3, <3>1, PrepAway DEF PrepOK, Preparing
  <2> QED BY <1>1, <2>1, <2>2, <2>3 DEF StartMessage
<1>2. CASE StartDecision
  <2> DEFINE q == daily < DailyLimit
  <2>1. graph' = [saved EXCEPT !.quota = q, !.input = {run}] /\ saved' = saved
    BY <1>2 DEF StartDecision
  <2> HIDE DEF q
  <2> QED BY <2>1, ResumesAway
<1>3. CASE CompleteRun
  <2>1. saved'.work.done = "nothing" /\ graph' = NoGraph
    BY <1>0, <1>3, KeptPrepares DEF CompleteRun
  <2> QED BY <2>1, PrepAway
<1>4. CASE FailRun
  BY <1>4, FailsAway DEF FailRun
<1>5. CASE Restart
  <2>1. PICK s \in {saved, graph} \ {NoGraph} : saved' = Interrupted(s, {})
    BY <1>5 DEF Restart
  <2>2. saved'.work.done = "nothing" /\ graph' = NoGraph
    BY <1>0, <1>5, <2>1, KeptPrepares DEF Restart
  <2> QED BY <2>2, PrepAway
<1> QED BY <1>1, <1>2, <1>3, <1>4, <1>5

LEMMA NextPrepared == ASSUME IInv, PrepOK, [L2Next]_l2vars PROVE PrepOK'
<1>1. CASE Node
  BY <1>1, NodesAway, SettlersAway, BeginsPrepared, PreparesOn, SavesPrepared, CallsPrepared DEF Node
<1>2. CASE StartMessage \/ StartDecision \/ CompleteRun \/ FailRun \/ Restart
  BY <1>2, RunsAway
<1>3. CASE \E src \in Tools : ChangeSource(src)
  <2>1. UNCHANGED <<manifest, graph, saved>> /\ world' \in [Things -> Nat] /\ NotAfter(world, world')
    BY <1>3, SourceGrows DEF flow
  <2> QED BY <2>1, GrowsPrepared
<1>4. CASE \/ \E text \in Texts, retried \in BOOLEAN : Send(text, retried)
           \/ \E answer \in {"confirm", "reject"} : AskDecision(answer)
           \/ \E d \in asked : AcceptDecision(d)
           \/ SpendQuota \/ DeletePreference
           \/ UNCHANGED l2vars
  <2>1. UNCHANGED <<graph, saved, manifest, world>>
    BY <1>4 DEF Send, AskDecision, AcceptDecision, SpendQuota, DeletePreference, rows, flow, l2vars
  <2> QED BY <2>1, PrepSame
<1> QED BY <1>1, <1>2, <1>3, <1>4 DEF L2Next, Background

-----------------------------------------------------------------------------

LEMMA L2InitHolds == L2Init => L2Inv
<1> SUFFICES ASSUME L2Init PROVE L2Inv
  OBVIOUS
<1>1. DOMAIN cases = {} /\ DOMAIN metered = {}
  BY DEF L2Init
<1>2. RowsOK
  BY <1>1, Bounds, FS_EmptySet DEF L2Init, RowsOK
<1>3. MetersOK
  BY <1>1, FS_EmptySet DEF L2Init, MetersOK, NumbersMatch
<1>4. StateOK(Ended, 0, cases, metered, manifest, decided) /\ Counted(cases)
  BY <1>1, StateEnded DEF Ended, Counted, BeforePreview
<1>5. Ended.node = "end" /\ Ended.work.done = "nothing"
  BY DEF Ended, At
<1> HIDE DEF Ended
<1>6. FlowOK
  BY <1>4, <1>5 DEF L2Init, FlowOK, Told, NoRun, SettledOK
<1>7. PrepOK
  BY <1>5 DEF L2Init, PrepOK
<1> QED BY <1>2, <1>3, <1>6, <1>7 DEF IInv, L2Inv

LEMMA L2NextKeeps == ASSUME IInv, PrepOK, [L2Next]_l2vars PROVE Kept
<1>1. CASE Background
  BY <1>1, StartMessageKeeps, StartDecisionKeeps, CompleteRunKeeps, BindKeeps, PrepareUpgradeKeeps,
     AwaitUpgradeKeeps, CancelUpgradeKeeps, CreateCaseKeeps, BeginDecideKeeps, RereadKeeps, BuildContextKeeps,
     SaveContextKeeps, BeginCallKeeps, DecideCallKeeps,
     ExecuteToolKeeps, AwaitUserInputKeeps, AwaitMemoryKeeps, BridgeRefundKeeps, AwaitRefundKeeps,
     RecordRefundKeeps, FinalizeResolvedKeeps, FinalizeStoppedKeeps DEF Background, Node
<1>2. CASE \E text \in Texts, retried \in BOOLEAN : Send(text, retried)
  BY <1>2, SendKeeps
<1>3. CASE \E answer \in {"confirm", "reject"} : AskDecision(answer)
  BY <1>3, AskDecisionKeeps
<1>4. CASE \E d \in asked : AcceptDecision(d)
  BY <1>4, AcceptDecisionKeeps
<1>5. CASE FailRun \/ Restart
  BY <1>5, FailRunKeeps, RestartKeeps
<1>6. CASE (\E src \in Tools : ChangeSource(src)) \/ SpendQuota \/ DeletePreference
  BY <1>6, ChangeSourceKeeps, SpendQuotaKeeps, DeletePreferenceKeeps
<1>7. CASE UNCHANGED l2vars
  <2>1. UNCHANGED <<rows, shown, graph, saved, run, asked, decided>>
    BY <1>7 DEF l2vars, flow
  <2>2. RowsOK' /\ MetersOK' /\ RowsGrow
    BY <2>1, AllSame DEF IInv
  <2> QED BY <2>1, <2>2, RequestKept DEF rows, IInv, FlowOK
<1> QED BY <1>1, <1>2, <1>3, <1>4, <1>5, <1>6, <1>7 DEF L2Next

\* In every reachable state the rows of the support loop, what is charged, the
\* runs that drive it and the call a node prepares are related as L2Inv says.
THEOREM L2Invariant == L2Spec => []L2Inv
<1>1. L2Inv /\ [L2Next]_l2vars => L2Inv'
  BY L2NextKeeps, NextPrepared DEF Kept, L2Inv
<1> QED BY <1>1, L2InitHolds, PTL DEF L2Spec

\* The charges of a case are those of its numbers.
LEMMA MineIsNumbers ==
  ASSUME IInv, NEW c \in DOMAIN cases
  PROVE  {id \in DOMAIN metered : id[1] = c} = Numbers(c, cases[c].calls)
<1>1. ASSUME NEW id \in DOMAIN metered, id[1] = c PROVE id \in Numbers(c, cases[c].calls)
  <2>1. id = <<id[1], id[2]>> /\ id[2] \in 1..cases[id[1]].calls
    BY DEF IInv, MetersOK, NumbersMatch
  <2> QED BY <1>1, <2>1 DEF Numbers
<1>2. ASSUME NEW k \in 1..cases[c].calls PROVE <<c, k>> \in DOMAIN metered
  BY DEF IInv, MetersOK, NumbersMatch
<1> QED BY <1>1, <1>2 DEF Numbers

\* However often runs fail and nodes are executed again, a case row says what
\* its model calls cost: every registered call is one charge, the row's calls
\* and tokens are their number and their sum, and neither the case nor the
\* user exceeds a limit.
THEOREM MeteringHolds == L2Spec => []CallsAreMetered
<1>1. ASSUME L2Inv PROVE CallsAreMetered
  <2>1. Cardinality(DOMAIN metered) <= daily /\ daily <= DailyLimit
    BY <1>1, Bounds DEF L2Inv, IInv, MetersOK, RowsOK
  <2>2. ASSUME NEW c \in DOMAIN cases
        PROVE  LET mine == {id \in DOMAIN metered : id[1] = c}
               IN /\ cases[c].calls = Cardinality(mine)
                  /\ cases[c].tokens = MapThenSumSet(LAMBDA id : metered[id], mine)
                  /\ cases[c].calls <= MaxModelCalls
                  /\ cases[c].tokens <= MaxTokens
                  /\ cases[c].tools <= MaxToolCalls
    <3> DEFINE mine == {id \in DOMAIN metered : id[1] = c}
    <3>1. mine = Numbers(c, cases[c].calls)
      BY <1>1, MineIsNumbers DEF L2Inv
    <3>2. RowOK(c, cases[c], manifest, decided) /\ cases[c].calls \in Nat
      BY <1>1, RowsCounted DEF L2Inv, IInv, RowsOK, Counted
    <3>3. cases[c].calls = Cardinality(mine)
      BY <3>1, <3>2, NumbersFinite
    <3>4. cases[c].tokens = Total(metered, mine)
      BY <1>1, <3>1 DEF L2Inv, IInv, MetersOK, Spent
    <3> HIDE DEF mine
    <3>5. cases[c].tokens = MapThenSumSet(LAMBDA id : metered[id], mine)
      BY <3>4 DEF Total
    <3>6. cases[c].calls <= MaxModelCalls /\ cases[c].tokens <= MaxTokens
          /\ cases[c].tools <= MaxToolCalls
      BY <3>2, Bounds DEF RowOK
    <3> QED BY <3>3, <3>5, <3>6 DEF mine
  <2> QED BY <2>1, <2>2 DEF CallsAreMetered
<1> QED BY <1>1, L2Invariant, PTL

\* No case exists, and so no model call is made, and no preference is stored,
\* without a confirmation of that very preview or proposal.
THEOREM ConsentComesFirst == L2Spec => []ConsentFirst
<1>1. L2Inv => ConsentFirst
  BY DEF L2Inv, IInv, RowsOK, RowOK, Consent, ConsentFirst
<1> QED BY <1>1, L2Invariant, PTL

\* What a resolved case cites was in the context saved for one of its calls.
THEOREM AnswersAreGrounded == L2Spec => []AnswerIsGrounded
<1>1. ASSUME L2Inv PROVE AnswerIsGrounded
  <2> SUFFICES ASSUME NEW c \in DOMAIN cases, cases[c].status = "l2_resolved"
               PROVE  /\ cases[c].answer # {}
                      /\ \E id \in DOMAIN metered :
                           id[1] = c /\ cases[c].answer \subseteq EvidenceOf(manifest[id])
    BY DEF AnswerIsGrounded
  <2>1. PICK k \in 1..cases[c].calls : cases[c].answer \subseteq EvidenceOf(manifest[<<c, k>>])
    BY <1>1 DEF L2Inv, IInv, RowsOK, RowOK
  <2>2. <<c, k>> \in DOMAIN metered /\ <<c, k>>[1] = c
    BY <1>1 DEF L2Inv, IInv, MetersOK, NumbersMatch
  <2>3. cases[c].answer # {}
    BY <1>1 DEF L2Inv, IInv, RowsOK, RowOK
  <2> QED BY <2>1, <2>2, <2>3
<1> QED BY <1>1, L2Invariant, PTL

\* A context that is saved shows a fact only as its source had it at a moment
\* since this execution of the node began to read: a business fact at the version
\* it had, a policy by the text it had.  The sources are read one by one and may
\* change while they are, before the context is built and before it is saved.
THEOREM ContextsAreCurrent == L2Spec => ContextIsCurrent
<1>1. L2Inv /\ [L2Next]_l2vars =>
        [\A id \in DOMAIN manifest' \ DOMAIN manifest :
           \A o \in manifest'[id].shown : o.fact => WasSo(o, graph.work.since, world)]_l2vars
  BY L2NextKeeps DEF Kept, Current, L2Inv
<1> QED BY <1>1, L2Invariant, PTL DEF L2Spec, ContextIsCurrent

\* A closed case is never changed again, whatever is left of the runs that
\* closed it.
THEOREM ClosedCasesStay == L2Spec => ClosedCaseIsFrozen
<1>1. L2Inv /\ [L2Next]_l2vars =>
        [\A c \in DOMAIN cases : cases[c].status \in Closed => cases'[c] = cases[c]]_l2vars
  BY L2NextKeeps DEF Kept, Frozen, L2Inv
<1> QED BY <1>1, L2Invariant, PTL DEF L2Spec, ClosedCaseIsFrozen
=============================================================================
