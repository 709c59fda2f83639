------------------------------ MODULE Dialogue ------------------------------
(***************************************************************************)
(* The read-only side of the main graph: interpreting a message and asking *)
(* again what is meant (workflow.py), order inquiries, policy inquiries    *)
(* (policy_workflow.py) and combined consultations (service_guidance.py),  *)
(* in one thread, turn after turn.  Each node is an action.  Meanwhile the *)
(* operator edits the policy corpus and rebuilds its index.                *)
(*                                                                         *)
(* The refund and L2 branches leave this module at the interpretation:     *)
(* RefundApproval and L2Case have them.  A turn clears what the previous   *)
(* one found, so of the checkpoint only the counter of clarifications      *)
(* reaches the next one here; `saved' is the counter of the last           *)
(* checkpoint that is on disk, which may be behind the graph.              *)
(***************************************************************************)
EXTENDS PolicyRules

CONSTANTS
  Editions,          \* what the corpus may be, see PolicyRules
  Messages,          \* what a message may be interpreted as
  NoQuery,           \* of an interpretation without a policy query
  MaxClarifications  \* MAX_INTENT_CLARIFICATION_ATTEMPTS

\* What the interpreter may find in a message that stays in this module.
Intents ==
  {"unknown", "unsupported_write", "order_inquiry", "policy_inquiry", "service_guidance"}

ASSUME DialogueAssumption ==
  /\ MaxClarifications \in Nat \ {0}
  /\ \A m \in Messages : m.intent \in Intents
  /\ \A edition \in Editions : UniqueIds(edition)

VARIABLES
  at,        \* the node that runs next, "idle" between turns
  turn,      \* what the turn has found so far, its reply at last
  attempts,  \* intent_clarification_attempts
  saved,     \* its value in the last checkpoint on disk
  corpus,    \* the corpus as it is in its directory
  index,     \* the edition the index was built from
  seen,      \* the editions the index has been of during the turn
  questions  \* the customer was sent since a message was understood

dialoguevars == <<at, turn, attempts, saved, corpus, index, seen, questions>>

NoTurn ==
  [intent |-> "none", named |-> FALSE, concerns |-> {}, query |-> NoQuery,
   order |-> "none", shipment |-> FALSE, refs |-> {}, missing |-> {},
   conflicts |-> {}, chosen |-> {}, facts |-> {}, error |-> "none",
   reply |-> "none", offers |-> {}]

PolicyConcerns == {"policy", "refund_eligibility"}
AsksPolicy == turn.concerns \cap PolicyConcerns # {}

\* The messages that clarify; the counter is an index into them.
Clarifications == 1..MaxClarifications

\* A node updates the turn and goes on; one that replies ends the turn.
Goto(to, updated) ==
  /\ at' = to
  /\ turn' = updated
  /\ UNCHANGED <<attempts, saved, corpus, index, seen, questions>>

Reply(reply) == Goto("complete", [turn EXCEPT !.reply = reply])

-----------------------------------------------------------------------------
\* A message that is understood starts the count again.
Counted_Always(intent) == 0
Counted(intent) == IF intent = "unknown" THEN attempts ELSE 0

AfterInterpret(t, count) ==
  CASE t.intent = "unknown" ->
         IF count >= MaxClarifications THEN "respond_intent_fallback"
                                       ELSE "clarify_intent"
    [] t.intent = "unsupported_write" -> "respond_unsupported"
    [] t.intent = "policy_inquiry"    -> "retrieve_policy"
    [] t.intent = "service_guidance"  -> "load_guidance_order"
    [] t.intent = "order_inquiry"     ->
         IF t.named THEN "query_order" ELSE "request_order_id"

\* prepare_service_guidance
GuidanceError(m) ==
  IF m.intent = "service_guidance" /\ ~ m.named THEN "guidance_missing_order" ELSE "none"

\* bind_and_interpret, with the nodes that only check what it has set up.
\* A message to a conversation that is bound to an order names it.
BindAndInterpret(m) ==
  LET t == [NoTurn EXCEPT
              !.intent = m.intent, !.named = m.named, !.concerns = m.concerns,
              !.query = m.query, !.error = GuidanceError(m)]
      count == Counted(m.intent)
  IN /\ at = "idle"
     /\ at' = AfterInterpret(t, count)
     /\ turn' = t
     /\ attempts' = count
     /\ questions' = IF m.intent = "unknown" THEN questions ELSE 0
     /\ seen' = {index} \ {NoIndex}
     /\ UNCHANGED <<saved, corpus, index>>

\* clarify_intent indexes the messages with the counter, then increments it.
ClarifyIntent ==
  /\ at = "clarify_intent"
  /\ attempts + 1 \in Clarifications
  /\ attempts' = attempts + 1
  /\ turn' = [turn EXCEPT !.reply = "awaiting_intent_clarification"]
  /\ at' = "complete"
  /\ UNCHANGED <<saved, corpus, index, seen, questions>>

RespondIntentFallback ==
  /\ at = "respond_intent_fallback"
  /\ attempts' = 0
  /\ questions' = 0
  /\ turn' = [turn EXCEPT !.reply = "intent_unresolved"]
  /\ at' = "complete"
  /\ UNCHANGED <<saved, corpus, index, seen>>

RespondUnsupported == at = "respond_unsupported" /\ Reply("unsupported")
RequestOrderId == at = "request_order_id" /\ Reply("awaiting_order_id")

Outcomes == {"delivered", "open", "unavailable", "temporarily_failed"}

QueryOrder ==
  /\ at = "query_order"
  /\ \E outcome \in Outcomes :
       CASE outcome = "unavailable"        -> Reply("order_unavailable")
         [] outcome = "temporarily_failed" -> Reply("temporarily_failed")
         [] OTHER -> Goto("query_shipment", [turn EXCEPT !.order = outcome])

QueryShipment ==
  /\ at = "query_shipment"
  /\ \/ Reply("temporarily_failed")
     \/ Goto("complete", [turn EXCEPT !.shipment = TRUE, !.reply = "completed"])

-----------------------------------------------------------------------------
\* Policy inquiries.  Every node that needs the facts resolves them again.
Available == Current(index, corpus) /\ Resolvable(index, turn.refs)
Facts == Resolved(index, turn.refs)

RetrievePolicy ==
  /\ at = "retrieve_policy"
  /\ \/ ~ Current(index, corpus) /\ Reply("temporarily_failed")
     \/ /\ Current(index, corpus)
        /\ \E refs \in SearchResults(index, turn.query) :
             IF refs = {}
               THEN Reply("policy_insufficient_evidence")
               ELSE Goto("assess_policy_evidence", [turn EXCEPT !.refs = refs])

AssessPolicyEvidence ==
  LET missing    == Missing(turn.query, Facts)
      applicable == Applicable(turn.query, Facts)
      conflicts  == IF missing = {} THEN Conflicts(applicable) ELSE {}
      reply(r)   == Goto("complete", [turn EXCEPT !.missing = missing,
                                                  !.conflicts = conflicts, !.reply = r])
  IN /\ at = "assess_policy_evidence"
     /\ IF ~ Available THEN Reply("temporarily_failed")
        ELSE IF applicable = {} /\ missing = {} THEN Reply("policy_insufficient_evidence")
        ELSE IF missing # {} THEN reply("awaiting_policy_context")
        ELSE IF conflicts # {} THEN reply("policy_conflict")
        ELSE Goto("select_policy_facts", turn)

SelectPolicyFacts ==
  LET selected == Applicable(turn.query, Facts) IN
  /\ at = "select_policy_facts"
  /\ IF ~ Available THEN Reply("temporarily_failed")
     ELSE IF selected = {} \/ Unsupported(turn.query, selected) # {}
       THEN Reply("policy_insufficient_evidence")
     ELSE Goto("validate_policy_citations",
               [turn EXCEPT !.chosen = {f.id : f \in selected}])

\* The facts that were chosen must all be among those the references hold.
Chosen == {f \in Facts : f.id \in turn.chosen}
StillChosen == Available /\ turn.chosen \subseteq {f.id : f \in Facts}

ValidatePolicyCitations ==
  /\ at = "validate_policy_citations"
  /\ IF StillChosen THEN Goto("respond_policy_answer", turn)
                    ELSE Reply("temporarily_failed")

RespondPolicyAnswer ==
  /\ at = "respond_policy_answer"
  /\ IF StillChosen
       THEN Goto("complete", [turn EXCEPT !.facts = Chosen, !.reply = "policy_answered"])
       ELSE Reply("temporarily_failed")

-----------------------------------------------------------------------------
\* Combined consultations: every step runs, and what went wrong is in error.
LoadGuidanceOrder ==
  LET loaded(updated) == Goto("load_guidance_shipment", updated) IN
  /\ at = "load_guidance_order"
  /\ \/ ~ turn.named /\ loaded(turn)
     \/ /\ turn.named
        /\ \E outcome \in Outcomes :
             CASE outcome = "unavailable" ->
                    loaded([turn EXCEPT !.error = "guidance_order_unavailable"])
               [] outcome = "temporarily_failed" ->
                    loaded([turn EXCEPT !.error = "guidance_order_failed"])
               [] OTHER -> loaded([turn EXCEPT !.order = outcome, !.error = "none"])

LoadGuidanceShipment ==
  LET loaded(updated) == Goto("retrieve_guidance_policy", updated)
      needed == "shipment_status" \in turn.concerns /\ turn.order # "none"
  IN /\ at = "load_guidance_shipment"
     /\ \/ ~ needed /\ loaded(turn)
        \/ needed /\ \E error \in {"none", "guidance_shipment_unavailable",
                                    "guidance_shipment_failed"} :
                       loaded([turn EXCEPT !.shipment = (error = "none"), !.error = error])

\* A mutation: the search forgets what went wrong before it.
SearchError_Last(refs) ==
  IF refs # {} THEN "none" ELSE "guidance_policy_insufficient"

\* A search does not replace an earlier error.
SearchError(refs) ==
  CASE turn.error # "none" -> turn.error
    [] turn.error = "none" /\ refs # {} -> "none"
    [] OTHER -> "guidance_policy_insufficient"

RetrieveGuidancePolicy ==
  LET retrieved(updated) == Goto("assess_guidance_evidence", updated) IN
  /\ at = "retrieve_guidance_policy"
  /\ \/ ~ AsksPolicy /\ retrieved(turn)
     \/ /\ AsksPolicy /\ ~ Current(index, corpus)
        /\ retrieved([turn EXCEPT !.error = "guidance_policy_failed"])
     \/ /\ AsksPolicy /\ Current(index, corpus)
        /\ \E refs \in SearchResults(index, turn.query) :
             retrieved([turn EXCEPT !.refs = refs, !.error = SearchError(refs)])

\* Missing conditions and conflicts leave the error as it is, a lack of
\* evidence replaces it.
AssessGuidanceEvidence ==
  LET missing   == Missing(turn.query, Facts)
      selected  == Applicable(turn.query, Facts)
      conflicts == IF missing = {} THEN Conflicts(selected) ELSE {}
      assessed(updated) == Goto("assemble_service_resolution", updated)
  IN /\ at = "assess_guidance_evidence"
     /\ IF ~ AsksPolicy \/ turn.refs = {} THEN assessed(turn)
        ELSE IF ~ Available THEN assessed([turn EXCEPT !.error = "guidance_policy_failed"])
        ELSE IF missing # {} \/ conflicts # {}
          THEN assessed([turn EXCEPT !.missing = missing, !.conflicts = conflicts])
        ELSE IF selected = {} \/ Unsupported(turn.query, selected) # {}
          THEN assessed([turn EXCEPT !.error = "guidance_policy_insufficient"])
        ELSE assessed([turn EXCEPT !.chosen = {f.id : f \in selected}, !.facts = selected])

StopReason ==
  IF ~ turn.named \/ turn.error = "guidance_missing_order" THEN "needs_user_input"
  ELSE IF turn.error = "guidance_order_unavailable" THEN "order_unavailable"
  ELSE IF turn.error \in {"guidance_order_failed", "guidance_shipment_failed",
                          "guidance_policy_failed"} THEN "tool_failed"
  ELSE IF turn.conflicts # {} THEN "conflicting_evidence"
  ELSE IF turn.missing # {} THEN "needs_user_input"
  ELSE IF turn.error \in {"guidance_shipment_unavailable",
                          "guidance_policy_insufficient"} THEN "insufficient_evidence"
  ELSE "completed"

\* allowed_actions, but for the views.
Offers ==
  {a \in {"request_refund", "provide_information", "upgrade_l2"} :
     CASE a = "request_refund" ->
            "refund_eligibility" \in turn.concerns /\ turn.order = "delivered" /\ turn.facts # {}
       [] a = "provide_information" -> StopReason \in {"needs_user_input", "insufficient_evidence"}
       [] a = "upgrade_l2" -> StopReason \in {"tool_failed", "conflicting_evidence"}}

AssembleServiceResolution ==
  /\ at = "assemble_service_resolution"
  /\ Goto("complete", [turn EXCEPT !.reply = StopReason, !.offers = Offers])

-----------------------------------------------------------------------------
\* The checkpoint of a step reaches the disk behind it, at the latest when
\* the graph ends: only then is the reply stored and shown.
Checkpoint ==
  /\ saved # attempts
  /\ saved' = attempts
  /\ UNCHANGED <<at, turn, attempts, corpus, index, seen, questions>>

CompleteTurn ==
  /\ at = "complete"
  /\ at' = "idle"
  /\ saved' = attempts
  /\ questions' = IF turn.reply = "awaiting_intent_clarification" THEN questions + 1 ELSE questions
  /\ UNCHANGED <<turn, attempts, corpus, index, seen>>

\* A node raises, before or after some of its calls: the run fails with the
\* checkpoints of the steps before it.
Fail ==
  /\ at # "idle"
  /\ at' = "idle"
  /\ turn' = NoTurn
  /\ saved' = attempts
  /\ UNCHANGED <<attempts, corpus, index, seen, questions>>

\* The process stops: the thread goes on from the checkpoint on disk.
Crash ==
  /\ at # "idle"
  /\ at' = "idle"
  /\ turn' = NoTurn
  /\ attempts' = saved
  /\ UNCHANGED <<saved, corpus, index, seen, questions>>

\* The operator changes the corpus; an edit may leave it invalid for a while.
EditCorpus ==
  /\ corpus' \in (Editions \cup {Broken}) \ {corpus}
  /\ UNCHANGED <<at, turn, attempts, saved, index, seen, questions>>

\* build_policy_index writes a new file and moves it over the old one.
BuildIndex ==
  /\ Buildable(corpus)
  /\ index # corpus
  /\ index' = corpus
  /\ seen' = IF at = "idle" THEN seen ELSE seen \cup {corpus}
  /\ UNCHANGED <<at, turn, attempts, saved, corpus, questions>>

DialogueInit ==
  /\ at = "idle"
  /\ turn = NoTurn
  /\ attempts = 0
  /\ saved = 0
  /\ corpus \in Editions
  /\ index \in {NoIndex, corpus}
  /\ seen = {}
  /\ questions = 0

Step ==
  \/ \E m \in Messages : BindAndInterpret(m)
  \/ ClarifyIntent \/ RespondIntentFallback \/ RespondUnsupported
  \/ RequestOrderId \/ QueryOrder \/ QueryShipment
  \/ RetrievePolicy \/ AssessPolicyEvidence \/ SelectPolicyFacts
  \/ ValidatePolicyCitations \/ RespondPolicyAnswer
  \/ LoadGuidanceOrder \/ LoadGuidanceShipment \/ RetrieveGuidancePolicy
  \/ AssessGuidanceEvidence \/ AssembleServiceResolution
  \/ CompleteTurn

DialogueNext == Step \/ Checkpoint \/ Fail \/ Crash \/ EditCorpus \/ BuildIndex

DialogueSpec == DialogueInit /\ [][DialogueNext]_dialoguevars

-----------------------------------------------------------------------------
\* While the editions that were seen agree, a text still means what it meant.
Steady ==
  \A old, new \in seen : \A s \in old, n \in new :
    s.content = n.content =>
      s.facts = n.facts /\ s.topic = n.topic /\ s.aspects = n.aspects

\* A policy answer supports every aspect that was asked, leaves no condition
\* open and holds no two facts that contradict each other, although the index
\* may be rebuilt between the nodes that judge this and the one that answers
\* (unless the manifest says something else of a text that did not change).
AnswerIsComplete ==
  turn.reply = "policy_answered" /\ Steady => Complete(turn.query, turn.facts)

\* A combined consultation that says it is completed has everything it was
\* asked for, whatever failed on its way; and it offers a refund only of a
\* delivered order, beside complete policy facts.
GuidanceIsWhole ==
  turn.intent = "service_guidance" =>
    /\ turn.reply = "completed" =>
         /\ turn.order # "none"
         /\ "shipment_status" \in turn.concerns => turn.shipment
         /\ AsksPolicy => Complete(turn.query, turn.facts)
    /\ "request_refund" \in turn.offers =>
         turn.order = "delivered" /\ Complete(turn.query, turn.facts)

\* The customer is sent at most MaxClarifications questions until a message is
\* understood or the graph gives up, over failed runs and restarts, and the
\* counter always has its message.
ClarificationIsBounded ==
  /\ questions <= MaxClarifications
  /\ at = "clarify_intent" => attempts + 1 \in Clarifications
=============================================================================
