----------------------------- MODULE PolicyRules -----------------------------
(***************************************************************************)
(* How policy evidence is found and judged: the index that is built from   *)
(* the controlled corpus (adapters/sqlite_policy.py) and the deterministic *)
(* rules over the facts it holds (policy_rules.py).                        *)
(*                                                                         *)
(* An edition of the corpus is a set of sections                           *)
(*   [content, topic, aspects, published, facts]                           *)
(* where content stands for the text and its hash, published for a         *)
(* document that is published and in effect, and a fact is                 *)
(*   [id, key, value, scope, needs].                                       *)
(* The text of a section is hashed; what the manifest says of it (topic,   *)
(* aspects, scope, needs, dates) is not part of that hash.  A scope gives  *)
(* the values of each dimension it is limited to, {} where it is not.      *)
(***************************************************************************)
EXTENDS Naturals, FiniteSets

CONSTANTS
  Dims,      \* the dimensions a policy may depend on
  Unknown,   \* what a query says of a dimension nobody has told
  NoIndex,   \* no index has been built
  Broken,    \* a corpus that cannot be read or is not valid
  Limit      \* how many sections a search returns

\* A fact as the index resolves it: with what its section says.
FactOf(section, f) ==
  [id |-> f.id, key |-> f.key, value |-> f.value, scope |-> f.scope,
   needs |-> f.needs, topic |-> section.topic, aspects |-> section.aspects,
   content |-> section.content]

\* No manifest that is accepted names two facts alike.
UniqueIds(edition) ==
  \A s, t \in edition : \A f \in s.facts, g \in t.facts : f.id = g.id => s = t /\ f = g

\* What build_policy_index accepts: a manifest that matches its texts.
Buildable(corpus) == corpus # Broken

\* The index answers only while it is of the corpus as it stands.
Current(index, corpus) == index # NoIndex /\ index = corpus

\* What a search may return: ranking and token coverage decide which of the
\* sections in question it does, and the limit how many.
Eligible(index, query) ==
  {s \in index : s.published /\ s.topic = query.topic
                             /\ s.aspects \cap query.aspects # {}}

Ref(section) == [content |-> section.content,
                 ids     |-> {f.id : f \in section.facts}]

SearchResults(index, query) ==
  {{Ref(s) : s \in found} : found \in
     {S \in SUBSET Eligible(index, query) : Cardinality(S) <= Limit}}

\* Every fact of every reference is looked up by its id and the content that
\* was found; one that is gone or replaced fails them all.
LookUp_ById(index, ref, id) ==
  UNION {{FactOf(s, f) : f \in {g \in s.facts : g.id = id}} : s \in index}
LookUp(index, ref, id) ==
  UNION {{FactOf(s, f) : f \in {g \in s.facts : g.id = id}} :
         s \in {t \in index : t.content = ref.content}}

Resolvable(index, refs) ==
  \A r \in refs : \A id \in r.ids : LookUp(index, r, id) # {}

Resolved(index, refs) ==
  UNION {UNION {LookUp(index, r, id) : id \in r.ids} : r \in refs}

-----------------------------------------------------------------------------
ScopeMatches(scope, query) ==
  \A d \in Dims : query.known[d] = Unknown \/ scope[d] = {} \/ query.known[d] \in scope[d]

FactMatches(fact, query) ==
  /\ fact.topic = query.topic
  /\ fact.aspects \cap query.aspects # {}
  /\ ScopeMatches(fact.scope, query)

Missing(query, facts) ==
  {d \in Dims : /\ query.known[d] = Unknown
                /\ \E f \in facts : FactMatches(f, query) /\ d \in f.needs}

Applicable(query, facts) == {f \in facts : FactMatches(f, query)}

Unsupported(query, facts) == query.aspects \ UNION {f.aspects : f \in facts}

ScopesOverlap(left, right) ==
  \A d \in Dims : left[d] = {} \/ right[d] = {} \/ left[d] \cap right[d] # {}

Conflicts(facts) ==
  {pair \in facts \X facts :
     /\ pair[1].key = pair[2].key
     /\ pair[1].value # pair[2].value
     /\ ScopesOverlap(pair[1].scope, pair[2].scope)}

\* What may be told of a query: every aspect it asks about is supported, no
\* condition is open, and no two of the facts contradict each other.
Complete(query, facts) ==
  /\ facts # {}
  /\ Unsupported(query, facts) = {}
  /\ Missing(query, facts) = {}
  /\ \A f, g \in facts : f.key = g.key /\ f.value # g.value
       => ~ ScopesOverlap(f.scope, g.scope)
=============================================================================
