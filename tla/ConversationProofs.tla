--------------------------- MODULE ConversationProofs ---------------------------
(***************************************************************************)
(* For every set of texts and request ids and however many runs: the       *)
(* history of a conversation is a sequence of turns, a closed conversation *)
(* is quiet, and a deleted one is empty and stays so, as far as the old    *)
(* synchronous route is not used; a run has its last event exactly when it *)
(* is over, and a reader whose stream ended has met every event of it.     *)
(* For every corpus and every message: what a run answers from the policy  *)
(* index and to a combined consultation is whole, and the questions that   *)
(* it asks back are counted.                                               *)
(***************************************************************************)
EXTENDS ConversationRuns, Dialogue, SequenceTheorems, TLAPS

RunRows ==
  [key : ClientKeys \cup DecisionKeys \cup ({"legacy"} \X Nat),
   kind : {"chat_message", "decision", "retry"}, text : Texts \cup {Label},
   status : ActiveRuns \cup ClosedRuns]

MessageRows == [run : Nat, role : {"user", "assistant"}, content : Texts \cup {Label}]

RowsType == runs \in Seq(RunRows) /\ messages \in Seq(MessageRows)

DirectType ==
  direct \in [phase : {"none", "running", "stopped", "accepted", "started"},
              text : Texts \cup {Label}, resumes : BOOLEAN, run : Nat,
              action : {"none"} \cup Interrupts, count : Nat]

\* At most the last run is active, and every other one has its answer: the messages of
\* run r are those at 2 * r - 1 and 2 * r.
Turns ==
  /\ \A r \in Active : r = Len(runs)
  /\ Len(messages) = IF Active = {} THEN 2 * Len(runs) ELSE 2 * Len(runs) - 1
  /\ \A r \in DOMAIN runs :
       /\ messages[2 * r - 1].role = "user" /\ messages[2 * r - 1].run = r
       /\ 2 * r <= Len(messages) =>
            messages[2 * r].role = "assistant" /\ messages[2 * r].run = r

RowsInv == RowsType /\ DirectType /\ Turns /\ ClosedIsQuiet

-----------------------------------------------------------------------------
(* What a step may do to the rows                                          *)

Accepts ==
  \E row \in RunRows, content \in Texts \cup {Label} :
    /\ row.status = "accepted" /\ lifecycle = "active" /\ Active = {}
    /\ runs' = Append(runs, row)
    /\ messages' = Append(messages, Message(Len(runs) + 1, "user", content))
    /\ events' = Append(events, <<"accepted">>)
    /\ UNCHANGED lifecycle

Closes ==
  \E r \in DOMAIN runs, status \in ClosedRuns :
    /\ runs' = [runs EXCEPT ![r].status = status]
    /\ messages' = Answers(r)
    /\ \E told \in {events[r], Keyed(events[r], "message-completed")} :
         events' = [events EXCEPT ![r] = Keyed(told, "terminal")]
    /\ UNCHANGED lifecycle

Starts ==
  \E r \in Nat :
    /\ \/ UNCHANGED runs
       \/ runs' = [runs EXCEPT ![r].status = IF @ = "accepted" THEN "running" ELSE @]
    /\ \E key \in {"started", "step"} : events' = Tell(r, key)
    /\ UNCHANGED <<messages, lifecycle>>

Turned ==
  /\ Active = {} /\ UNCHANGED <<runs, messages, events>>
  /\ lifecycle = "deleted" => lifecycle' = "deleted"

Emptied == runs' = <<>> /\ messages' = <<>> /\ events' = <<>> /\ lifecycle' = "deleted"

Kept == UNCHANGED <<runs, messages, events, lifecycle>>

LEMMA Halves ==
  ASSUME NEW i \in Nat, i # 0
  PROVE  LET s == (i + 1) \div 2
         IN /\ s \in Nat
            /\ i % 2 = 1 => i = 2 * s - 1
            /\ i % 2 # 1 => i = 2 * s
OBVIOUS

(* Where the messages of a run are, and which runs have an answer.         *)
LEMMA Positions ==
  ASSUME RowsInv, NEW r \in DOMAIN runs
  PROVE  /\ r \in 1..Len(runs) /\ 2 * r - 1 \in DOMAIN messages
         /\ Answered(r) <=> 2 * r <= Len(messages)
         /\ Answered(r) <=> r \notin Active
<1>1. /\ r \in 1..Len(runs) /\ Len(runs) \in Nat /\ Len(messages) \in Nat
      /\ DOMAIN messages = 1..Len(messages) /\ DOMAIN runs = 1..Len(runs)
  BY DEF RowsInv, RowsType
<1>2. Len(messages) >= 2 * Len(runs) - 1 /\ Len(messages) <= 2 * Len(runs)
  BY <1>1 DEF RowsInv, Turns
<1>3. 2 * r - 1 \in DOMAIN messages
  BY <1>1, <1>2
<1>4. ASSUME NEW i \in DOMAIN messages, messages[i].run = r, messages[i].role = "assistant"
      PROVE  i = 2 * r
  <2>1. PICK s \in DOMAIN runs : i = 2 * s - 1 \/ i = 2 * s
    <3>1. i \in Nat /\ i # 0
      BY <1>1
    <3>2. PICK s \in Nat : i = 2 * s - 1 \/ i = 2 * s
      <4> DEFINE half == (i + 1) \div 2
      <4>1. half \in Nat /\ (i = 2 * half - 1 \/ i = 2 * half)
        BY <3>1, Halves
      <4> HIDE DEF half
      <4> QED BY <4>1
    <3>3. s \in DOMAIN runs
      BY <1>1, <1>2, <3>1, <3>2
    <3> QED BY <3>2, <3>3
  <2>2. CASE i = 2 * s
    BY <1>1, <1>4, <2>1, <2>2 DEF RowsInv, Turns
  <2>3. CASE i = 2 * s - 1
    BY <1>1, <1>4, <2>1, <2>3 DEF RowsInv, Turns
  <2> QED BY <2>1, <2>2, <2>3
<1>5. Answered(r) <=> 2 * r <= Len(messages)
  BY <1>1, <1>4 DEF Answered, RowsInv, Turns
<1>6. 2 * r <= Len(messages) <=> r \notin Active
  BY <1>1 DEF Active, RowsInv, Turns
<1> QED BY <1>1, <1>3, <1>5, <1>6

LEMMA AcceptsRows ==
  ASSUME RowsInv, Accepts
  PROVE  RowsType' /\ Turns' /\ ClosedIsQuiet'
<1> DEFINE k == Len(runs) + 1
<1>1. PICK row \in RunRows, content \in Texts \cup {Label} :
        /\ row.status = "accepted" /\ lifecycle = "active" /\ Active = {}
        /\ runs' = Append(runs, row)
        /\ messages' = Append(messages, Message(k, "user", content))
        /\ UNCHANGED lifecycle
  BY DEF Accepts
<1>2. /\ runs \in Seq(RunRows) /\ messages \in Seq(MessageRows)
      /\ Len(runs) \in Nat /\ Len(messages) = 2 * Len(runs)
  BY <1>1 DEF RowsInv, RowsType, Turns
<1>3. Message(k, "user", content) \in MessageRows
      /\ Message(k, "user", content).role = "user" /\ Message(k, "user", content).run = k
  BY <1>2 DEF Message, MessageRows
<1>4. /\ runs' \in Seq(RunRows) /\ Len(runs') = k /\ DOMAIN runs' = 1..k /\ runs'[k] = row
      /\ \A r \in 1..Len(runs) : runs'[r] = runs[r]
  BY <1>1, <1>2
<1>5. /\ messages' \in Seq(MessageRows) /\ Len(messages') = 2 * k - 1
      /\ messages'[2 * k - 1] = Message(k, "user", content)
      /\ \A i \in 1..Len(messages) : messages'[i] = messages[i]
  <2> DEFINE m == Message(k, "user", content)
  <2>1. m \in MessageRows /\ messages' = Append(messages, m)
    BY <1>1, <1>3
  <2> HIDE DEF m
  <2>2. /\ messages' \in Seq(MessageRows) /\ Len(messages') = Len(messages) + 1
        /\ messages'[Len(messages) + 1] = m
        /\ \A i \in 1..Len(messages) : messages'[i] = messages[i]
    BY <1>2, <2>1
  <2>3. Len(messages) + 1 = 2 * k - 1
    BY <1>2
  <2> QED BY <2>2, <2>3 DEF m
<1>6. \A r \in 1..Len(runs) : runs[r].status \notin ActiveRuns
  BY <1>1, <1>2 DEF Active
<1>7. Active' = {k}
  BY <1>1, <1>4, <1>6 DEF Active, ActiveRuns
<1>8. \A r \in 1..Len(runs) :
        /\ messages'[2 * r - 1] = messages[2 * r - 1] /\ messages'[2 * r] = messages[2 * r]
        /\ 2 * r <= Len(messages)
  BY <1>2, <1>5
<1>9. \A r \in 1..Len(runs) :
        /\ messages[2 * r - 1].role = "user" /\ messages[2 * r - 1].run = r
        /\ messages[2 * r].role = "assistant" /\ messages[2 * r].run = r
  <2> SUFFICES ASSUME NEW r \in 1..Len(runs)
               PROVE  /\ messages[2 * r - 1].role = "user" /\ messages[2 * r - 1].run = r
                      /\ messages[2 * r].role = "assistant" /\ messages[2 * r].run = r
    OBVIOUS
  <2>1. r \in DOMAIN runs /\ 2 * r <= Len(messages)
    BY <1>2
  <2> QED BY <2>1 DEF RowsInv, Turns
<1>10. Turns'
  <2>1. \A r \in DOMAIN runs' :
          /\ messages'[2 * r - 1].role = "user" /\ messages'[2 * r - 1].run = r
          /\ 2 * r <= Len(messages') =>
               messages'[2 * r].role = "assistant" /\ messages'[2 * r].run = r
    <3> SUFFICES ASSUME NEW r \in 1..k
                 PROVE  /\ messages'[2 * r - 1].role = "user" /\ messages'[2 * r - 1].run = r
                        /\ 2 * r <= Len(messages') =>
                             messages'[2 * r].role = "assistant" /\ messages'[2 * r].run = r
      BY <1>4
    <3>1. CASE r = k
      BY <1>2, <1>3, <1>5, <3>1
    <3>2. CASE r \in 1..Len(runs)
      BY <1>8, <1>9, <3>2
    <3> QED BY <1>2, <3>1, <3>2
  <2> QED BY <1>4, <1>5, <1>7, <2>1 DEF Turns
<1> QED BY <1>1, <1>4, <1>5, <1>10 DEF RowsType, ClosedIsQuiet

LEMMA ClosesRows ==
  ASSUME RowsInv, Closes
  PROVE  RowsType' /\ Turns' /\ ClosedIsQuiet'
<1>1. PICK r \in DOMAIN runs, status \in ClosedRuns :
        /\ runs' = [runs EXCEPT ![r].status = status]
        /\ messages' = Answers(r)
        /\ UNCHANGED lifecycle
  BY DEF Closes
<1>2. /\ runs \in Seq(RunRows) /\ messages \in Seq(MessageRows)
      /\ Len(runs) \in Nat /\ DOMAIN runs = 1..Len(runs) /\ r \in 1..Len(runs)
  BY DEF RowsInv, RowsType
<1>3. /\ [runs[r] EXCEPT !.status = status] \in RunRows
      /\ [runs[r] EXCEPT !.status = status].status = status
  <2>1. runs[r] \in RunRows
    BY <1>2
  <2> QED BY <2>1 DEF RunRows
<1>4. /\ runs' \in Seq(RunRows) /\ Len(runs') = Len(runs) /\ DOMAIN runs' = 1..Len(runs)
      /\ runs'[r].status = status /\ \A s \in DOMAIN runs : s # r => runs'[s] = runs[s]
  BY <1>1, <1>2, <1>3
<1>5. Active' = Active \ {r}
  BY <1>1, <1>2, <1>4 DEF Active, ActiveRuns, ClosedRuns
<1>6. ClosedIsQuiet'
  BY <1>1, <1>5 DEF RowsInv, ClosedIsQuiet
<1>7. CASE r \in Active
  <2>1. r = Len(runs) /\ Active' = {} /\ Len(messages) = 2 * r - 1
    BY <1>5, <1>7 DEF RowsInv, Turns
  <2>2. messages' = Append(messages, Message(r, "assistant", Label))
    BY <1>1, <1>7, Positions DEF Answers
  <2>3. Message(r, "assistant", Label) \in MessageRows
        /\ Message(r, "assistant", Label).role = "assistant"
        /\ Message(r, "assistant", Label).run = r
    BY <1>2 DEF Message, MessageRows
  <2>4. /\ messages' \in Seq(MessageRows) /\ Len(messages') = 2 * r
        /\ messages'[2 * r] = Message(r, "assistant", Label)
        /\ \A i \in 1..Len(messages) : messages'[i] = messages[i]
    BY <1>2, <2>1, <2>2, <2>3
  <2>5. \A s \in DOMAIN runs :
          /\ messages'[2 * s - 1].role = "user" /\ messages'[2 * s - 1].run = s
          /\ messages'[2 * s].role = "assistant" /\ messages'[2 * s].run = s
    <3> SUFFICES ASSUME NEW s \in DOMAIN runs
                 PROVE  /\ messages'[2 * s - 1].role = "user" /\ messages'[2 * s - 1].run = s
                        /\ messages'[2 * s].role = "assistant" /\ messages'[2 * s].run = s
      OBVIOUS
    <3>1. /\ messages[2 * s - 1].role = "user" /\ messages[2 * s - 1].run = s
          /\ 2 * s <= Len(messages) => messages[2 * s].role = "assistant" /\ messages[2 * s].run = s
      BY DEF RowsInv, Turns
    <3>2. 2 * s - 1 \in 1..Len(messages)
      BY <1>2, <2>1
    <3>3. CASE s = r
      BY <2>3, <2>4, <3>1, <3>2, <3>3
    <3>4. CASE s # r
      <4>1. 2 * s \in 1..Len(messages)
        BY <1>2, <2>1, <3>4
      <4>2. messages'[2 * s] = messages[2 * s] /\ messages'[2 * s - 1] = messages[2 * s - 1]
        BY <2>4, <3>2, <4>1
      <4>3. 2 * s <= Len(messages)
        BY <1>2, <4>1
      <4> QED BY <3>1, <4>2, <4>3
    <3> QED BY <3>3, <3>4
  <2> QED BY <1>2, <1>4, <1>6, <2>1, <2>4, <2>5 DEF RowsType, Turns
<1>8. CASE r \notin Active
  <2>1. messages' = messages /\ Active' = Active
    BY <1>1, <1>5, <1>8, Positions DEF Answers
  <2> QED BY <1>2, <1>4, <1>6, <2>1 DEF RowsInv, RowsType, Turns
<1> QED BY <1>7, <1>8

LEMMA StartsRows ==
  ASSUME RowsInv, Starts
  PROVE  RowsType' /\ Turns' /\ ClosedIsQuiet'
<1>1. PICK r \in Nat :
        /\ \/ UNCHANGED runs
           \/ runs' = [runs EXCEPT ![r].status = IF @ = "accepted" THEN "running" ELSE @]
        /\ UNCHANGED <<messages, lifecycle>>
  BY DEF Starts
<1>2. runs \in Seq(RunRows) /\ Len(runs) \in Nat /\ DOMAIN runs = 1..Len(runs)
  BY DEF RowsInv, RowsType
<1>3. CASE UNCHANGED runs \/ r \notin DOMAIN runs
  <2>1. runs' = runs
    BY <1>1, <1>2, <1>3
  <2> QED BY <1>1, <2>1 DEF RowsInv, RowsType, Turns, ClosedIsQuiet, Active
<1>4. CASE ~UNCHANGED runs /\ r \in DOMAIN runs
  <2>0. runs[r] \in RunRows
    BY <1>2, <1>4
  <2> DEFINE status == IF runs[r].status = "accepted" THEN "running" ELSE runs[r].status
             row == [runs[r] EXCEPT !.status = status]
  <2>1. /\ status \in ActiveRuns \cup ClosedRuns
        /\ status \in ActiveRuns <=> runs[r].status \in ActiveRuns
    BY <2>0 DEF RunRows, ActiveRuns
  <2> HIDE DEF status
  <2>2. row \in RunRows /\ row.status = status
    BY <2>0, <2>1 DEF RunRows
  <2>3. runs' = [runs EXCEPT ![r] = row]
    BY <1>1, <1>4 DEF status
  <2> HIDE DEF row
  <2>4. /\ runs' \in Seq(RunRows) /\ Len(runs') = Len(runs) /\ DOMAIN runs' = DOMAIN runs
        /\ runs'[r] = row /\ \A s \in DOMAIN runs : s # r => runs'[s] = runs[s]
    BY <1>2, <1>4, <2>2, <2>3
  <2>5. Active' = Active
    BY <1>4, <2>1, <2>2, <2>4 DEF Active
  <2> QED BY <1>1, <2>4, <2>5 DEF RowsInv, RowsType, Turns, ClosedIsQuiet
<1> QED BY <1>3, <1>4

LEMMA OtherRows ==
  ASSUME RowsInv, Turned \/ Emptied \/ Kept
  PROVE  RowsType' /\ Turns' /\ ClosedIsQuiet'
<1>1. CASE Turned \/ Kept
  BY <1>1 DEF RowsInv, RowsType, Turns, ClosedIsQuiet, Turned, Kept, Active
<1>2. CASE Emptied
  BY <1>2 DEF Emptied, RowsType, Turns, ClosedIsQuiet, Active
<1> QED BY <1>1, <1>2

-----------------------------------------------------------------------------
(* Every step is one of these                                              *)

LEMMA DirectRequest ==
  ASSUME ConversationAssumption, RowsInv, [Next]_vars
  PROVE  DirectType'
<1> USE DEF DirectType
<1>1. CASE UNCHANGED direct
  BY <1>1 DEF RowsInv
<1>2. \A n \in Nat : NoDirect(n) \in [phase : {"none", "running", "stopped", "accepted", "started"},
              text : Texts \cup {Label}, resumes : BOOLEAN, run : Nat,
              action : {"none"} \cup Interrupts, count : Nat]
  BY DEF NoDirect
<1>3. DirectType /\ direct.count \in Nat
  BY DEF RowsInv
<1>4. CASE direct' = NoDirect(direct.count)
  BY <1>2, <1>3, <1>4
<1>5. ASSUME NEW text \in OldRoute, BeginDirect(text)  PROVE DirectType'
  <2> DEFINE fresh == NoDirect(direct.count + 1)
  <2>1. text \in Texts \cup {Label} /\ (checkpoint = "user_input") \in BOOLEAN
    BY <1>5 DEF ConversationAssumption
  <2>2. fresh \in [phase : {"none", "running", "stopped", "accepted", "started"},
              text : Texts \cup {Label}, resumes : BOOLEAN, run : Nat,
              action : {"none"} \cup Interrupts, count : Nat]
    BY <1>2, <1>3
  <2>3. direct' = [fresh EXCEPT !.phase = "running", !.text = text,
                                !.resumes = checkpoint = "user_input"]
    BY <1>5 DEF BeginDirect
  <2> QED BY <2>1, <2>2, <2>3
<1>6. CASE DirectGraph
  <2>1. PendingAction' \in {"none"} \cup Interrupts
    BY DEF PendingAction
  <2>2. direct' = [direct EXCEPT !.phase = "stopped", !.action = PendingAction']
    BY <1>6 DEF DirectGraph
  <2> QED BY <1>3, <2>1, <2>2
<1>7. CASE DirectAccept
  <2>1. Len(runs') \in Nat
    <3>1. PICK row : runs' = Append(runs, row)
      BY <1>7 DEF DirectAccept, AcceptAs
    <3>2. Len(runs) \in Nat /\ Len(runs') = Len(runs) + 1
      BY <3>1 DEF RowsInv, RowsType
    <3> QED BY <3>2
  <2>2. direct' = [direct EXCEPT !.phase = "accepted", !.run = Len(runs')]
    BY <1>7 DEF DirectAccept
  <2> QED BY <1>3, <2>1, <2>2
<1>8. CASE DirectStart
  BY <1>3, <1>8 DEF DirectStart, Goes
<1>9. CASE DirectFinish \/ DirectRefused \/ DirectRaise \/ Restart
  BY <1>4, <1>9 DEF DirectFinish, DirectRefused, DirectRaise, DirectEnds, Restart
<1>10. CASE Request
  BY <1>1, <1>10 DEF Request, SubmitMessage, RetryRun, Accept, AskDecision, AcceptDecision,
         AskArchive,
     Archive, Unarchive, SetLifecycle, AskDelete, BeginDelete, ClearCheckpoint, FinishDelete,
     DeleteFails, outside
<1>11. ASSUME NEW r \in Ids, Background(r) \/ Raise(r)  PROVE DirectType'
  BY <1>1, <1>11 DEF Background, StartRun, Mismatch, ExecuteNodes, StopGraph, Finish, Leave,
         Raise, outside
<1>12. CASE \/ Stream \/ BreakStream \/ ReopenStream \/ \E r \in DOMAIN runs : OpenStream(r)
            \/ Shutdown \/ InterruptRun
  BY <1>1, <1>12 DEF Stream, ListEvents, CheckRun, RecheckEvents, BreakStream, ReopenStream,
         OpenStream,
     Follow, Shutdown, InterruptRun, outside
<1>13. CASE UNCHANGED vars
  BY <1>1, <1>13 DEF vars
<1> QED BY <1>5, <1>6, <1>7, <1>8, <1>9, <1>10, <1>11, <1>12, <1>13 DEF Next, DirectStep

\* The graph of a retry gets a text: the message of its run is there.
LEMMA RetryHasText ==
  ASSUME RowsInv, NEW r \in DOMAIN runs
  PROVE  MessageOf(r) \in Texts \cup {Label}
<1> DEFINE mine == CHOOSE i \in DOMAIN messages : messages[i].run = r /\ messages[i].role = "user"
<1>1. \E i \in DOMAIN messages : messages[i].run = r /\ messages[i].role = "user"
  BY Positions DEF RowsInv, Turns
<1>2. mine \in DOMAIN messages /\ MessageOf(r) = messages[mine].content
  BY <1>1 DEF MessageOf
<1> HIDE DEF mine
<1>3. messages[mine] \in MessageRows
  BY <1>2 DEF RowsInv, RowsType
<1> QED BY <1>2, <1>3 DEF MessageRows

LEMMA Acceptance ==
  ASSUME RowsInv,
         NEW key \in ClientKeys \cup DecisionKeys \cup ({"legacy"} \X Nat),
         NEW kind \in {"chat_message", "decision", "retry"},
         NEW content \in Texts \cup {Label}, NEW text \in Texts \cup {Label}, NEW phase,
         AcceptAs(key, kind, content, text, phase)
  PROVE  Accepts
<1> DEFINE row == [key |-> key, kind |-> kind, text |-> text, status |-> "accepted"]
<1>1. row \in RunRows /\ row.status = "accepted"
  BY DEF RunRows, ActiveRuns
<1>2. /\ lifecycle = "active" /\ Active = {} /\ runs' = Append(runs, row)
      /\ messages' = Append(messages, Message(Len(runs) + 1, "user", content))
      /\ events' = Append(events, <<"accepted">>)
      /\ UNCHANGED lifecycle
  BY DEF AcceptAs, IsOpen, NoOneActive
<1> HIDE DEF row
<1> QED BY <1>1, <1>2 DEF Accepts

LEMMA Closing ==
  ASSUME NEW r,
         \/ \E action \in {"none"} \cup Interrupts : CompleteRun(r, action)
         \/ \E status \in {"failed", "interrupted"} : FailRun(r, status)
  PROVE  Closes
<1>1. ASSUME NEW action \in {"none"} \cup Interrupts, CompleteRun(r, action)
      PROVE  Closes
  <2>1. PICK told : told = Keyed(events[r], "message-completed")
    OBVIOUS
  <2> QED BY <1>1, <2>1 DEF CompleteRun, Closes, ClosedRuns
<1>2. ASSUME NEW status \in {"failed", "interrupted"}, FailRun(r, status)
      PROVE  Closes
  BY <1>2 DEF FailRun, Tell, Closes, ClosedRuns
<1> QED BY <1>1, <1>2

\* What the rows may become in one step.
RowStep ==
  Accepts \/ Closes \/ Starts \/ Turned \/ Emptied \/ Kept

LEMMA RequestRows ==
  ASSUME ConversationAssumption, RowsInv, Request
  PROVE  RowStep
<1>1. ASSUME NEW key \in ClientKeys, NEW text \in Texts, SubmitMessage(key, text)
      PROVE  RowStep
  <2>1. AcceptAs(key, "chat_message", text, text, "queued")
    BY <1>1 DEF SubmitMessage, Accept
  <2> QED BY <2>1, Acceptance DEF RowStep
<1>2. ASSUME NEW key \in ClientKeys, NEW r \in DOMAIN runs, RetryRun(key, r)
      PROVE  RowStep
  <2>1. AcceptAs(key, "retry", Label, MessageOf(r), "queued")
    BY <1>2 DEF RetryRun, Accept
  <2> QED BY <2>1, Acceptance, RetryHasText DEF RowStep
<1>3. ASSUME NEW key \in DecisionKeys, AcceptDecision(key)
      PROVE  RowStep
  <2>1. CASE AcceptAs(key, "decision", Label, Label, "queued")
    BY <2>1, Acceptance DEF RowStep
  <2>2. CASE UNCHANGED rows
    BY <2>2 DEF rows, Kept, RowStep
  <2> QED BY <1>3, <2>1, <2>2 DEF AcceptDecision, Accept
<1>4. ASSUME NEW key \in DecisionKeys, AskDecision(key)
      PROVE  RowStep
  BY <1>4 DEF AskDecision, rows, Kept, RowStep
<1>5. CASE Archive \/ Unarchive
  BY <1>5 DEF Archive, Unarchive, SetLifecycle, Found, Turned, Kept, RowStep
<1>6. CASE BeginDelete
  BY <1>6 DEF BeginDelete, MayBeginDelete, Turned, Kept, RowStep
<1>7. CASE FinishDelete
  BY <1>7 DEF FinishDelete, Emptied, RowStep
<1>8. CASE AskArchive \/ AskDelete \/ ClearCheckpoint \/ DeleteFails
  BY <1>8 DEF AskArchive, AskDelete, ClearCheckpoint, DeleteFails, rows, Kept, RowStep
<1> QED BY <1>1, <1>2, <1>3, <1>4, <1>5, <1>6, <1>7, <1>8 DEF Request

LEMMA TaskRows ==
  ASSUME NEW r \in Ids, Background(r) \/ Raise(r)
  PROVE  RowStep
<1>1. CASE StartRun(r)
  <2>1. CASE FailRun(r, "failed")
    BY <2>1, Closing DEF RowStep
  <2>2. CASE /\ runs' = [runs EXCEPT ![r].status = IF @ = "accepted" THEN "running" ELSE @]
             /\ events' = Tell(r, "started")
             /\ UNCHANGED <<lifecycle, pending, messages>>
    <3>1. r \in Nat
      BY DEF Ids
    <3> QED BY <2>2, <3>1 DEF Starts, RowStep
  <2> QED BY <1>1, <2>1, <2>2 DEF StartRun
<1>2. CASE Mismatch(r)
  BY <1>2, Closing DEF Mismatch, RowStep
<1>3. CASE Finish(r)
  <2>1. PendingAction \in {"none"} \cup Interrupts
    BY DEF PendingAction
  <2> QED BY <1>3, <2>1, Closing DEF Finish, RowStep
<1>4. CASE Raise(r)
  BY <1>4, Closing DEF Raise, RowStep
<1>5. CASE StopGraph(r) \/ Leave(r)
  BY <1>5 DEF StopGraph, Leave, rows, Kept, RowStep
<1>6. CASE ExecuteNodes(r)
  <2>1. r \in Nat
    BY DEF Ids
  <2> QED BY <1>6, <2>1 DEF ExecuteNodes, Starts, RowStep
<1> QED BY <1>1, <1>2, <1>3, <1>4, <1>5, <1>6 DEF Background

LEMMA OtherSteps ==
  ASSUME RowsInv,
         \/ DirectStep \/ DirectRaise \/ Stream \/ BreakStream \/ ReopenStream
         \/ \E text \in OldRoute : BeginDirect(text)
         \/ \E r \in DOMAIN runs : OpenStream(r)
         \/ Shutdown \/ InterruptRun \/ Restart
         \/ UNCHANGED vars
  PROVE  RowStep
<1>1. CASE DirectAccept
  <2>1. Len(runs) + 1 \in Nat /\ direct.text \in Texts \cup {Label}
    BY DEF RowsInv, RowsType, DirectType
  <2>2. AcceptAs(<<"legacy", Len(runs) + 1>>, "chat_message", direct.text, direct.text, "none")
    BY <1>1 DEF DirectAccept
  <2> QED BY <2>1, <2>2, Acceptance DEF RowStep
<1>2. CASE DirectStart
  <2>1. direct.run \in Nat
    BY DEF RowsInv, DirectType
  <2> QED BY <1>2, <2>1 DEF DirectStart, Starts, RowStep
<1>3. CASE DirectFinish
  <2>1. direct.action \in {"none"} \cup Interrupts
    BY DEF RowsInv, DirectType
  <2> QED BY <1>3, <2>1, Closing DEF DirectFinish, RowStep
<1>4. CASE InterruptRun
  BY <1>4, Closing DEF InterruptRun, RowStep
<1>5. CASE Restart
  BY <1>5, Closing DEF Restart, rows, Kept, RowStep
<1>6. CASE \/ DirectGraph \/ DirectRefused \/ DirectRaise
           \/ \E text \in OldRoute : BeginDirect(text)
           \/ Shutdown \/ UNCHANGED vars
  BY <1>6 DEF DirectGraph, DirectRefused, DirectRaise, BeginDirect, Shutdown, vars, rows, Kept,
         RowStep
<1>7. CASE Stream \/ BreakStream \/ ReopenStream \/ \E r \in DOMAIN runs : OpenStream(r)
  BY <1>7 DEF Stream, ListEvents, CheckRun, RecheckEvents, BreakStream, ReopenStream, OpenStream,
     Follow, rows, Kept, RowStep
<1> QED BY <1>1, <1>2, <1>3, <1>4, <1>5, <1>6, <1>7 DEF DirectStep

LEMMA RowsKept ==
  ASSUME ConversationAssumption, RowsInv, [Next]_vars
  PROVE  RowsInv'
<1>1. RowStep
  BY RequestRows, TaskRows, OtherSteps DEF Next
<1>2. RowsType' /\ Turns' /\ ClosedIsQuiet'
  BY <1>1, AcceptsRows, ClosesRows, StartsRows, OtherRows DEF RowStep
<1> QED BY <1>2, DirectRequest DEF RowsInv

LEMMA RowsStart ==
  ASSUME ConversationAssumption, Init
  PROVE  RowsInv
<1>1. DirectType
  BY DEF Init, DirectType, NoDirect
<1>2. Active = {}
  BY DEF Init, Active
<1> QED BY <1>1, <1>2 DEF Init, RowsInv, RowsType, Turns, ClosedIsQuiet

LEMMA HistoryFollows ==
  ASSUME RowsInv
  PROVE  HistoryIsTurns
<1> SUFFICES ASSUME NEW i \in DOMAIN messages
             PROVE  /\ messages[i].role = (IF i % 2 = 1 THEN "user" ELSE "assistant")
                    /\ messages[i].run = (i + 1) \div 2
  BY DEF HistoryIsTurns
<1> DEFINE s == (i + 1) \div 2
<1>1. /\ Len(runs) \in Nat /\ Len(messages) \in Nat /\ DOMAIN runs = 1..Len(runs)
      /\ i \in 1..Len(messages) /\ Len(messages) <= 2 * Len(runs)
  BY DEF RowsInv, RowsType, Turns
<1>2. s \in Nat /\ (i % 2 = 1 => i = 2 * s - 1) /\ (i % 2 # 1 => i = 2 * s)
  <2>1. i \in Nat /\ i # 0
    BY <1>1
  <2> QED BY <2>1, Halves
<1> HIDE DEF s
<1>3. s \in DOMAIN runs
  BY <1>1, <1>2
<1>4. /\ messages[2 * s - 1].role = "user" /\ messages[2 * s - 1].run = s
      /\ 2 * s <= Len(messages) => messages[2 * s].role = "assistant" /\ messages[2 * s].run = s
  BY <1>3 DEF RowsInv, Turns
<1>5. CASE i % 2 = 1
  BY <1>2, <1>4, <1>5 DEF s
<1>6. CASE i % 2 # 1
  BY <1>1, <1>2, <1>4, <1>6 DEF s
<1> QED BY <1>5, <1>6

(* The rows of a conversation stay a sequence of turns whatever its        *)
(* requests, its background tasks, the old route and the restarts of the   *)
(* process do to them, in any order.                                       *)
THEOREM RowsAreTurns ==
  ASSUME ConversationAssumption
  PROVE  Spec => []RowsInv
<1>1. Init => RowsInv
  BY RowsStart
<1>2. RowsInv /\ [Next]_vars => RowsInv'
  BY RowsKept
<1> QED BY <1>1, <1>2, PTL DEF Spec

(* Every message of a run stands before its one answer, in the order in    *)
(* which the runs were accepted (accept_chat_message, accept_action,       *)
(* complete_run and fail_run).                                             *)
THEOREM HistoryHolds ==
  ASSUME ConversationAssumption
  PROVE  Spec => []HistoryIsTurns
<1>1. RowsInv => HistoryIsTurns
  BY HistoryFollows
<1> QED BY <1>1, RowsAreTurns, PTL

(* No run is active in a conversation that was archived or deleted         *)
(* (set_lifecycle and begin_delete against the acceptance of runs).        *)
THEOREM ClosedHolds ==
  ASSUME ConversationAssumption
  PROVE  Spec => []ClosedIsQuiet
<1>1. RowsInv => ClosedIsQuiet
  BY DEF RowsInv
<1> QED BY <1>1, RowsAreTurns, PTL

-----------------------------------------------------------------------------
(* What a client is told                                                   *)

\* A run that has ended, and no other, has its terminal event.
EventsInv ==
  /\ events \in Seq(Seq(RunEvents)) /\ Len(events) = Len(runs)
  /\ \A r \in DOMAIN runs : Contains(events[r], "terminal") <=> r \notin Active

\* What a stream has delivered stays the beginning of what there is, and it lists once more
\* when it has seen that its run is over.
StreamInv ==
  /\ stream \in [run : Nat, seen : Nat, phase : Reading \cup {"none", "broken", "closed"}]
  /\ stream.run = 0 \/ stream.run \in DOMAIN runs \/ lifecycle = "deleted"
  /\ stream.run \in DOMAIN runs =>
       /\ stream.seen <= Len(events[stream.run])
       /\ stream.phase = "recheck" => stream.run \notin Active
       /\ stream.phase = "closed" =>
            \E i \in 1..stream.seen : events[stream.run][i] = "terminal"

ToldInv == RowsInv /\ EventsInv /\ StreamInv

LEMMA KeyedIs ==
  ASSUME NEW told \in Seq(RunEvents), NEW key \in RunEvents
  PROVE  LET more == Keyed(told, key)
         IN /\ more \in Seq(RunEvents) /\ Len(told) <= Len(more) /\ Len(more) \in Nat
            /\ \A i \in 1..Len(told) : more[i] = told[i]
            /\ Contains(more, key)
            /\ \A k : k # key => (Contains(more, k) <=> Contains(told, k))
<1>1. Len(told) \in Nat /\ DOMAIN told = 1..Len(told)
  OBVIOUS
<1>2. CASE Contains(told, key)
  BY <1>1, <1>2 DEF Keyed
<1>3. CASE ~Contains(told, key)
  <2> DEFINE more == Append(told, key)
  <2>1. /\ more \in Seq(RunEvents) /\ Len(more) = Len(told) + 1
        /\ \A i \in 1..Len(told) : more[i] = told[i]
        /\ more[Len(told) + 1] = key
    BY <1>1, AppendProperties
  <2>2. Keyed(told, key) = more
    BY <1>3 DEF Keyed
  <2> HIDE DEF more
  <2>3. Contains(more, key)
    BY <1>1, <2>1 DEF Contains
  <2>4. \A k : k # key => (Contains(more, k) <=> Contains(told, k))
    BY <1>1, <2>1 DEF Contains
  <2> QED BY <1>1, <2>1, <2>2, <2>3, <2>4
<1> QED BY <1>2, <1>3

\* What is told of a run only grows, and a run that is over stays over.
Grows(r) ==
  /\ r \in DOMAIN runs'
  /\ r \notin Active => r \notin Active'
  /\ Len(events[r]) <= Len(events'[r])
  /\ \A i \in 1..Len(events[r]) : events'[r][i] = events[r][i]

LEMMA EventsKept ==
  ASSUME RowsInv, EventsInv, RowStep
  PROVE  /\ EventsInv'
         /\ (\A r \in DOMAIN runs : Grows(r)) \/ Emptied
         /\ lifecycle = "deleted" => lifecycle' = "deleted" /\ DOMAIN runs' \subseteq DOMAIN runs
<1>1. /\ runs \in Seq(RunRows) /\ Len(runs) \in Nat /\ DOMAIN runs = 1..Len(runs)
      /\ events \in Seq(Seq(RunEvents)) /\ Len(events) = Len(runs) /\ DOMAIN events = 1..Len(runs)
      /\ \A r \in DOMAIN runs : events[r] \in Seq(RunEvents) /\ Len(events[r]) \in Nat
  BY DEF RowsInv, RowsType, EventsInv
<1>2. CASE Accepts
  <2> PICK k : k = Len(runs) + 1
    OBVIOUS
  <2>1. PICK row \in RunRows :
          /\ row.status = "accepted" /\ lifecycle = "active"
          /\ runs' = Append(runs, row) /\ events' = Append(events, <<"accepted">>)
    BY <1>2 DEF Accepts
  <2>2. /\ Len(runs') = k /\ DOMAIN runs' = 1..k /\ runs'[k] = row
        /\ \A r \in DOMAIN runs : r # k /\ runs'[r] = runs[r]
    BY <1>1, <2>1
  <2>3. <<"accepted">> \in Seq(RunEvents) /\ ~Contains(<<"accepted">>, "terminal")
    BY DEF RunEvents, Contains
  <2>4. /\ events' \in Seq(Seq(RunEvents)) /\ Len(events') = k /\ events'[k] = <<"accepted">>
        /\ \A r \in DOMAIN runs : events'[r] = events[r]
    BY <1>1, <2>1, <2>3
  <2>5. \A r \in DOMAIN runs : r \in DOMAIN runs' /\ (r \in Active' <=> r \in Active)
    BY <1>1, <2>2 DEF Active
  <2>6. k \in Active'
    BY <1>1, <2>1, <2>2 DEF Active, ActiveRuns
  <2>7. EventsInv'
    <3> SUFFICES ASSUME NEW r \in DOMAIN runs'
                 PROVE  Contains(events'[r], "terminal") <=> r \notin Active'
      BY <2>2, <2>4 DEF EventsInv
    <3>1. CASE r = k
      BY <2>3, <2>4, <2>6, <3>1
    <3>2. CASE r \in DOMAIN runs
      BY <2>4, <2>5, <3>2 DEF EventsInv
    <3> QED BY <1>1, <2>2, <3>1, <3>2
  <2>8. \A r \in DOMAIN runs : Grows(r)
    BY <1>1, <2>4, <2>5 DEF Grows
  <2> QED BY <2>1, <2>7, <2>8
<1>3. ASSUME NEW r, NEW told, NEW status, lifecycle' = lifecycle,
             \/ UNCHANGED runs /\ status = runs[r].status
             \/ runs' = [runs EXCEPT ![r].status = status],
             events' = [events EXCEPT ![r] = told],
             r \in DOMAIN runs =>
               /\ told \in Seq(RunEvents) /\ Len(events[r]) <= Len(told)
               /\ \A i \in 1..Len(events[r]) : told[i] = events[r][i]
               /\ Contains(told, "terminal") <=> status \notin ActiveRuns
               /\ r \notin Active => status \notin ActiveRuns
      PROVE  /\ EventsInv' /\ \A x \in DOMAIN runs : Grows(x)
             /\ lifecycle = "deleted" =>
                  lifecycle' = "deleted" /\ DOMAIN runs' \subseteq DOMAIN runs
  <2>1. /\ DOMAIN runs' = DOMAIN runs /\ Len(runs') = Len(runs)
        /\ \A x \in DOMAIN runs : x # r => runs'[x] = runs[x]
        /\ r \in DOMAIN runs => runs'[r].status = status
    <3>1. r \in DOMAIN runs => runs[r] \in RunRows
      BY <1>1
    <3> QED BY <1>1, <1>3, <3>1 DEF RunRows
  <2>2. /\ events' \in Seq(Seq(RunEvents)) /\ Len(events') = Len(runs)
        /\ \A x \in DOMAIN runs : events'[x] = IF x = r THEN told ELSE events[x]
    <3>1. CASE r \in DOMAIN runs
      <4>1. told \in Seq(RunEvents) /\ events' = [events EXCEPT ![r] = told]
        BY <1>3, <3>1
      <4> QED BY <1>1, <3>1, <4>1
    <3>2. CASE r \notin DOMAIN runs
      <4>1. events' = events
        BY <1>1, <1>3, <3>2
      <4> QED BY <1>1, <3>2, <4>1
    <3> QED BY <3>1, <3>2
  <2>3. \A x \in DOMAIN runs :
          x \in Active' <=> (IF x = r THEN status \in ActiveRuns ELSE x \in Active)
    BY <2>1 DEF Active
  <2>4. EventsInv'
    BY <1>3, <2>1, <2>2, <2>3 DEF EventsInv
  <2>5. \A x \in DOMAIN runs : Grows(x)
    <3> SUFFICES ASSUME NEW x \in DOMAIN runs PROVE Grows(x)
      OBVIOUS
    <3> QED BY <1>1, <1>3, <2>1, <2>2, <2>3 DEF Grows
  <2> QED BY <1>3, <2>1, <2>4, <2>5
<1>4. CASE Closes
  <2>0. PICK r \in DOMAIN runs, status \in ClosedRuns :
          /\ runs' = [runs EXCEPT ![r].status = status]
          /\ \E told \in {events[r], Keyed(events[r], "message-completed")} :
               events' = [events EXCEPT ![r] = Keyed(told, "terminal")]
          /\ lifecycle' = lifecycle
    BY <1>4 DEF Closes
  <2>1. PICK told \in {events[r], Keyed(events[r], "message-completed")} :
          events' = [events EXCEPT ![r] = Keyed(told, "terminal")]
    BY <2>0
  <2>2. "message-completed" \in RunEvents /\ "terminal" \in RunEvents
    BY DEF RunEvents
  <2>3. /\ told \in Seq(RunEvents) /\ Len(events[r]) <= Len(told) /\ Len(told) \in Nat
        /\ \A i \in 1..Len(events[r]) : told[i] = events[r][i]
    <3>1. events[r] \in Seq(RunEvents) /\ Len(events[r]) \in Nat
      BY <1>1
    <3>2. /\ Keyed(events[r], "message-completed") \in Seq(RunEvents)
          /\ Len(events[r]) <= Len(Keyed(events[r], "message-completed"))
          /\ Len(Keyed(events[r], "message-completed")) \in Nat
          /\ \A i \in 1..Len(events[r]) :
               Keyed(events[r], "message-completed")[i] = events[r][i]
      BY <2>2, <3>1, KeyedIs
    <3>3. CASE told = events[r]
      BY <3>1, <3>3
    <3>4. CASE told = Keyed(events[r], "message-completed")
      BY <3>2, <3>4
    <3> QED BY <3>3, <3>4
  <2> PICK new : new = Keyed(told, "terminal")
    OBVIOUS
  <2>4. /\ new \in Seq(RunEvents) /\ Len(told) <= Len(new) /\ Len(new) \in Nat
        /\ \A i \in 1..Len(told) : new[i] = told[i]
        /\ Contains(new, "terminal")
    <3>1. /\ Keyed(told, "terminal") \in Seq(RunEvents)
          /\ Len(told) <= Len(Keyed(told, "terminal"))
          /\ Len(Keyed(told, "terminal")) \in Nat
          /\ \A i \in 1..Len(told) : Keyed(told, "terminal")[i] = told[i]
          /\ Contains(Keyed(told, "terminal"), "terminal")
      BY <2>2, <2>3, KeyedIs
    <3> QED BY <3>1
  <2>5. /\ Len(events[r]) <= Len(new) /\ \A i \in 1..Len(events[r]) : new[i] = events[r][i]
    BY <1>1, <2>3, <2>4
  <2>6. status \notin ActiveRuns
    BY DEF ClosedRuns, ActiveRuns
  <2>7. events' = [events EXCEPT ![r] = new]
    BY <2>1
  <2> QED BY <1>3, <2>0, <2>4, <2>5, <2>6, <2>7
<1>5. CASE Starts
  <2>1. PICK r \in Nat, key \in {"started", "step"} :
          /\ \/ UNCHANGED runs
             \/ runs' = [runs EXCEPT ![r].status = IF @ = "accepted" THEN "running" ELSE @]
          /\ events' = Tell(r, key) /\ lifecycle' = lifecycle
    BY <1>5 DEF Starts
  <2> PICK status : status = IF ~UNCHANGED runs /\ runs[r].status = "accepted" THEN "running"
                             ELSE runs[r].status
    OBVIOUS
  <2>2. \/ runs' = runs /\ status = runs[r].status
        \/ runs' = [runs EXCEPT ![r].status = status]
    BY <2>1
  <2>3. status \in ActiveRuns <=> runs[r].status \in ActiveRuns
    BY DEF ActiveRuns
  <2>4. key \in RunEvents /\ key # "terminal"
    BY DEF RunEvents
  <2> PICK told : told = Keyed(events[r], key)
    OBVIOUS
  <2>5. events' = [events EXCEPT ![r] = told]
    BY <2>1 DEF Tell
  <2>6. r \in DOMAIN runs =>
          /\ told \in Seq(RunEvents) /\ Len(events[r]) <= Len(told)
          /\ \A i \in 1..Len(events[r]) : told[i] = events[r][i]
          /\ Contains(told, "terminal") <=> Contains(events[r], "terminal")
    BY <1>1, <2>4, KeyedIs
  <2>7. r \in DOMAIN runs => (r \in Active <=> status \in ActiveRuns)
    BY <2>3 DEF Active
  <2>8. r \in DOMAIN runs => (Contains(told, "terminal") <=> status \notin ActiveRuns)
    BY <2>6, <2>7 DEF EventsInv
  <2>9. r \in DOMAIN runs =>
          /\ told \in Seq(RunEvents) /\ Len(events[r]) <= Len(told)
          /\ \A i \in 1..Len(events[r]) : told[i] = events[r][i]
          /\ Contains(told, "terminal") <=> status \notin ActiveRuns
          /\ r \notin Active => status \notin ActiveRuns
    BY <2>6, <2>7, <2>8
  <2>10. lifecycle' = lifecycle
    BY <2>1
  <2> QED BY <1>3, <2>2, <2>5, <2>9, <2>10
<1>6. CASE Turned \/ Kept
  <2>1. UNCHANGED <<runs, events>> /\ (lifecycle = "deleted" => lifecycle' = "deleted")
    BY <1>6 DEF Turned, Kept
  <2> QED BY <1>1, <2>1 DEF EventsInv, Grows, Active
<1>7. CASE Emptied
  BY <1>7 DEF Emptied, EventsInv, Active
<1> QED BY <1>2, <1>4, <1>5, <1>6, <1>7 DEF RowStep

\* What a step does to the stream: it goes on, it is cut, or nothing.
StreamStep ==
  \/ UNCHANGED stream
  \/ stream' = Cut
  \/ UNCHANGED rows /\ \/ Stream \/ BreakStream \/ ReopenStream
                       \/ \E r \in DOMAIN runs : OpenStream(r)

LEMMA StreamSteps ==
  ASSUME [Next]_vars
  PROVE  StreamStep
<1>1. CASE Request
  BY <1>1 DEF Request, SubmitMessage, RetryRun, Accept, AcceptAs, AskDecision, AcceptDecision,
     AskArchive, Archive, Unarchive, SetLifecycle, AskDelete, BeginDelete, ClearCheckpoint,
     FinishDelete, DeleteFails, outside, StreamStep
<1>2. ASSUME NEW r \in Ids, Background(r) \/ Raise(r)
      PROVE  StreamStep
  BY <1>2 DEF Background, StartRun, Mismatch, ExecuteNodes, StopGraph, Finish, Leave, Raise,
         outside,
     StreamStep
<1>3. CASE DirectStep \/ DirectRaise \/ \E text \in OldRoute : BeginDirect(text)
  BY <1>3 DEF DirectStep, DirectGraph, DirectAccept, AcceptAs, DirectRefused, DirectStart,
         DirectFinish,
     DirectRaise, DirectEnds, BeginDirect, StreamStep
<1>4. CASE Stream \/ BreakStream \/ ReopenStream \/ \E r \in DOMAIN runs : OpenStream(r)
  BY <1>4 DEF Stream, ListEvents, CheckRun, RecheckEvents, BreakStream, ReopenStream, OpenStream,
     Follow, StreamStep
<1>5. CASE Shutdown \/ InterruptRun \/ Restart
  BY <1>5 DEF Shutdown, InterruptRun, Restart, outside, StreamStep
<1>6. CASE UNCHANGED vars
  BY <1>6 DEF vars, StreamStep
<1> QED BY <1>1, <1>2, <1>3, <1>4, <1>5, <1>6 DEF Next

\* A stream that is left alone, or cut, while the rows go on.
LEMMA StreamWaits ==
  ASSUME RowsInv, EventsInv, StreamInv, EventsInv',
         (\A r \in DOMAIN runs : Grows(r)) \/ Emptied,
         lifecycle = "deleted" => lifecycle' = "deleted" /\ DOMAIN runs' \subseteq DOMAIN runs,
         NEW r, r = stream.run, stream'.run = r, stream'.seen = stream.seen,
         stream'.phase = stream.phase \/ stream'.phase = "broken",
         stream' \in [run : Nat, seen : Nat, phase : Reading \cup {"none", "broken", "closed"}]
  PROVE  StreamInv'
<1>1. CASE Emptied
  <2>1. DOMAIN runs' = {} /\ lifecycle' = "deleted"
    BY <1>1 DEF Emptied
  <2> QED BY <2>1 DEF StreamInv
<1>2. CASE r \in DOMAIN runs /\ \A x \in DOMAIN runs : Grows(x)
  <2>1. /\ r \in DOMAIN runs' /\ (r \notin Active => r \notin Active')
        /\ Len(events[r]) <= Len(events'[r])
        /\ \A i \in 1..Len(events[r]) : events'[r][i] = events[r][i]
    BY <1>2 DEF Grows
  <2>2. Len(events[r]) \in Nat /\ Len(events'[r]) \in Nat
    <3>1. r \in DOMAIN events /\ r \in DOMAIN events'
      <4>1. r \in 1..Len(runs) /\ r \in 1..Len(runs)'
        BY <1>2, <2>1 DEF RowsInv, RowsType, EventsInv, Grows, Active
      <4> QED BY <4>1 DEF EventsInv
    <3>2. events[r] \in Seq(RunEvents) /\ events'[r] \in Seq(RunEvents)
      BY <3>1 DEF EventsInv
    <3> QED BY <3>2
  <2>3. stream.seen \in Nat /\ stream.seen <= Len(events[r])
    BY <1>2 DEF StreamInv
  <2>4. stream'.seen <= Len(events'[r])
    BY <2>1, <2>2, <2>3
  <2>5. stream'.phase = "recheck" => r \notin Active'
    BY <1>2, <2>1 DEF StreamInv
  <2>6. stream'.phase = "closed" => \E i \in 1..stream'.seen : events'[r][i] = "terminal"
    <3> SUFFICES ASSUME stream'.phase = "closed"
                 PROVE  \E i \in 1..stream'.seen : events'[r][i] = "terminal"
      OBVIOUS
    <3>1. PICK i \in 1..stream.seen : events[r][i] = "terminal"
      BY <1>2 DEF StreamInv
    <3> QED BY <2>1, <2>2, <2>3, <3>1
  <2> QED BY <2>1, <2>4, <2>5, <2>6 DEF StreamInv
<1>3. CASE r \notin DOMAIN runs /\ \A x \in DOMAIN runs : Grows(x)
  <2>1. r = 0 \/ lifecycle = "deleted"
    BY <1>3 DEF StreamInv
  <2>2. 0 \notin DOMAIN runs'
    BY DEF EventsInv
  <2> QED BY <1>3, <2>1, <2>2 DEF StreamInv
<1> QED BY <1>1, <1>2, <1>3

LEMMA StreamKept ==
  ASSUME ToldInv, RowsInv', EventsInv', StreamStep,
         (\A r \in DOMAIN runs : Grows(r)) \/ Emptied,
         lifecycle = "deleted" => lifecycle' = "deleted" /\ DOMAIN runs' \subseteq DOMAIN runs
  PROVE  StreamInv'
<1> DEFINE Streams == [run : Nat, seen : Nat, phase : Reading \cup {"none", "broken", "closed"}]
<1>1. RowsInv /\ EventsInv /\ StreamInv /\ stream \in Streams
  BY DEF ToldInv, StreamInv
<1>2. CASE UNCHANGED stream
  BY <1>1, <1>2, StreamWaits
<1>3. CASE stream' = Cut
  <2>1. /\ stream'.run = stream.run /\ stream'.seen = stream.seen /\ stream' \in Streams
        /\ stream'.phase = stream.phase \/ stream'.phase = "broken"
    BY <1>1, <1>3 DEF Cut
  <2> QED BY <1>1, <2>1, StreamWaits
<1>4. ASSUME UNCHANGED rows, stream' \in Streams, stream'.run = stream.run,
             stream.run \in DOMAIN runs =>
               /\ stream'.seen <= Len(events[stream.run])
               /\ stream'.phase = "recheck" => stream.run \notin Active
               /\ stream'.phase = "closed" =>
                    \E i \in 1..stream'.seen : events[stream.run][i] = "terminal"
      PROVE  StreamInv'
  BY <1>1, <1>4 DEF rows, StreamInv, Active
<1>5. stream.run \in DOMAIN runs =>
        /\ events[stream.run] \in Seq(RunEvents) /\ Len(events[stream.run]) \in Nat
        /\ stream.seen <= Len(events[stream.run])
  <2> SUFFICES ASSUME stream.run \in DOMAIN runs
               PROVE  /\ events[stream.run] \in Seq(RunEvents)
                      /\ stream.seen <= Len(events[stream.run])
    OBVIOUS
  <2>1. stream.run \in DOMAIN events
    BY <1>1 DEF RowsInv, RowsType, EventsInv
  <2> QED BY <1>1, <2>1 DEF EventsInv, StreamInv
<1>6. ASSUME UNCHANGED rows,
            NEW phase \in {"list", "broken", "check", "recheck", "closed"}, NEW listed \in Nat,
             stream' = [stream EXCEPT !.phase = phase, !.seen = listed],
             stream.run \in DOMAIN runs =>
               /\ listed <= Len(events[stream.run])
               /\ phase = "recheck" => stream.run \notin Active
               /\ phase = "closed" => \E i \in 1..listed : events[stream.run][i] = "terminal"
      PROVE  StreamInv'
  <2>1. /\ stream' \in Streams /\ stream'.run = stream.run /\ stream'.seen = listed
        /\ stream'.phase = phase
    BY <1>1, <1>6 DEF Reading
  <2> QED BY <1>4, <1>6, <2>1
<1>7. CASE UNCHANGED rows /\ ListEvents
  <2> PICK listed : listed = IF Unseen THEN Len(events[stream.run]) ELSE stream.seen
    OBVIOUS
  <2>1. listed \in Nat /\ (stream.run \in DOMAIN runs => listed <= Len(events[stream.run]))
    BY <1>1, <1>5 DEF Unseen
  <2>2. stream' = [stream EXCEPT !.phase = "check", !.seen = listed]
    BY <1>7 DEF ListEvents, Follow
  <2> QED BY <1>6, <1>7, <2>1, <2>2
<1>8. CASE UNCHANGED rows /\ CheckRun
  <2> PICK phase : phase = IF stream.run \in DOMAIN runs /\ runs[stream.run].status \in ActiveRuns
                           THEN "list" ELSE "recheck"
    OBVIOUS
  <2>1. stream' = [stream EXCEPT !.phase = phase, !.seen = stream.seen]
    BY <1>8 DEF CheckRun, Follow
  <2>2. stream.run \in DOMAIN runs /\ phase = "recheck" => stream.run \notin Active
    BY DEF Active
  <2> QED BY <1>1, <1>5, <1>6, <1>8, <2>1, <2>2
<1>9. CASE UNCHANGED rows /\ RecheckEvents
  <2>1. /\ stream.phase = "recheck"
        /\ stream' = [stream EXCEPT !.phase = AfterRecheck, !.seen = stream.seen]
    BY <1>9 DEF RecheckEvents, Follow
  <2>2. CASE Unseen
    <3>1. stream' = [stream EXCEPT !.phase = "list", !.seen = stream.seen]
      BY <2>1, <2>2 DEF AfterRecheck
    <3> QED BY <1>1, <1>5, <1>6, <1>9, <3>1
  <2>3. CASE ~Unseen
    <3>1. stream' = [stream EXCEPT !.phase = "closed", !.seen = stream.seen]
      BY <2>1, <2>3 DEF AfterRecheck
    <3>2. stream.run \in DOMAIN runs => \E i \in 1..stream.seen : events[stream.run][i] = "terminal"
      <4> SUFFICES ASSUME stream.run \in DOMAIN runs
                   PROVE  \E i \in 1..stream.seen : events[stream.run][i] = "terminal"
        OBVIOUS
      <4>1. stream.seen = Len(events[stream.run])
        BY <1>1, <1>5, <2>3 DEF Unseen
      <4>2. Contains(events[stream.run], "terminal")
        BY <1>1, <2>1 DEF StreamInv, EventsInv
      <4> QED BY <4>1, <4>2 DEF Contains
    <3> QED BY <1>1, <1>5, <1>6, <1>9, <3>1, <3>2
  <2> QED BY <2>2, <2>3
<1>10. CASE UNCHANGED rows /\ (BreakStream \/ ReopenStream)
  <2>1. \/ stream' = [stream EXCEPT !.phase = "broken", !.seen = stream.seen]
        \/ stream' = [stream EXCEPT !.phase = "list", !.seen = stream.seen]
    BY <1>10 DEF BreakStream, ReopenStream, Follow
  <2> QED BY <1>1, <1>5, <1>6, <1>10, <2>1
<1>11. ASSUME UNCHANGED rows, NEW r \in DOMAIN runs, OpenStream(r)
       PROVE  StreamInv'
  <2>1. stream' = [run |-> r, phase |-> "list", seen |-> 0]
    BY <1>11 DEF OpenStream
  <2>2. r \in Nat /\ r \in DOMAIN events
    BY <1>1 DEF RowsInv, RowsType, EventsInv
  <2>3. events[r] \in Seq(RunEvents)
    BY <1>1, <2>2 DEF EventsInv
  <2>4. 0 <= Len(events[r])
    BY <2>3
  <2>5. /\ stream' \in Streams /\ stream'.run = r /\ stream'.seen = 0
        /\ stream'.phase \notin {"recheck", "closed"}
    BY <2>1, <2>2 DEF Reading
  <2> QED BY <1>11, <2>4, <2>5 DEF rows, StreamInv
<1> QED BY <1>2, <1>3, <1>7, <1>8, <1>9, <1>10, <1>11 DEF StreamStep, Stream

(* Events, answers and the place of a client that follows them agree with  *)
(* the rows of the runs, through retries, cuts, deletes and restarts.      *)
THEOREM EventsAreTold ==
  ASSUME ConversationAssumption
  PROVE  Spec => []ToldInv
<1>1. Init => ToldInv
  <2> SUFFICES ASSUME Init PROVE ToldInv
    OBVIOUS
  <2>1. EventsInv
    BY DEF Init, EventsInv, Active
  <2>2. StreamInv
    BY DEF Init, StreamInv
  <2> QED BY <2>1, <2>2, RowsStart DEF ToldInv
<1>2. ToldInv /\ [Next]_vars => ToldInv'
  <2> SUFFICES ASSUME ToldInv, [Next]_vars PROVE ToldInv'
    OBVIOUS
  <2>1. RowsInv' /\ RowStep /\ StreamStep
    BY RowsKept, StreamSteps, RequestRows, TaskRows, OtherSteps DEF ToldInv, Next
  <2>2. /\ EventsInv'
        /\ (\A r \in DOMAIN runs : Grows(r)) \/ Emptied
        /\ lifecycle = "deleted" => lifecycle' = "deleted" /\ DOMAIN runs' \subseteq DOMAIN runs
    BY <2>1, EventsKept DEF ToldInv
  <2>3. StreamInv'
    BY <2>1, <2>2, StreamKept
  <2> QED BY <2>1, <2>2, <2>3 DEF ToldInv
<1> QED BY <1>1, <1>2, PTL DEF Spec

(* A run has ended exactly when its terminal event and its answer are      *)
(* there (complete_run, fail_run and interrupt_unfinished_runs, each in    *)
(* any order with the others).                                             *)
THEOREM EndsAreTold ==
  ASSUME ConversationAssumption
  PROVE  Spec => []EndIsTold
<1>1. ToldInv => EndIsTold
  <2> SUFFICES ASSUME ToldInv, NEW r \in DOMAIN runs
               PROVE  /\ runs[r].status \in ClosedRuns <=> Contains(events[r], "terminal")
                      /\ runs[r].status \in ClosedRuns <=> Answered(r)
    BY DEF EndIsTold
  <2>1. runs[r].status \in ClosedRuns <=> r \notin Active
    <3>1. runs[r] \in RunRows
      BY DEF ToldInv, RowsInv, RowsType
    <3> QED BY <3>1 DEF RunRows, ClosedRuns, ActiveRuns, Active
  <2>2. Answered(r) <=> r \notin Active
    BY Positions DEF ToldInv
  <2> QED BY <2>1, <2>2 DEF ToldInv, EventsInv
<1> QED BY <1>1, EventsAreTold, PTL

(* A stream that the server closed has delivered the terminal event of its *)
(* run, whatever was written between its reads (stream_run_events).        *)
THEOREM StreamsAreComplete ==
  ASSUME ConversationAssumption
  PROVE  Spec => []StreamIsComplete
<1>1. ToldInv => StreamIsComplete
  <2> SUFFICES ASSUME ToldInv, stream.phase = "closed", stream.run \in DOMAIN runs
               PROVE  Contains(SubSeq(events[stream.run], 1, stream.seen), "terminal")
    BY DEF StreamIsComplete
  <2> PICK told, n : told = events[stream.run] /\ n = stream.seen
    OBVIOUS
  <2>1. told \in Seq(RunEvents) /\ n \in Nat /\ n <= Len(told)
    <3>1. stream.run \in DOMAIN events
      BY DEF ToldInv, RowsInv, RowsType, EventsInv
    <3> QED BY <3>1 DEF ToldInv, EventsInv, StreamInv
  <2>2. PICK i \in 1..n : told[i] = "terminal"
    BY DEF ToldInv, StreamInv
  <2>3. /\ Len(SubSeq(told, 1, n)) = n
        /\ \A j \in 1..n : SubSeq(told, 1, n)[j] = told[j]
    BY <2>1
  <2> QED BY <2>1, <2>2, <2>3 DEF Contains
<1> QED BY <1>1, EventsAreTold, PTL

-----------------------------------------------------------------------------
(* Nothing comes back after a delete                                       *)

Live == {"queued", "running", "executing", "stopped"}
Gone == {"deleting", "deleted"}

ProcessInv ==
  /\ task \in [Ids -> Live \cup {"none", "leaving"}]
  /\ direct.phase = "none"
  /\ server = "up" \/ (asked = {} /\ underway = {})
  /\ doomed # 0 => server # "up"

\* A task that may still write has an active run until the shutdown, which may interrupt
\* the run under it, and begins no delete any more.
TasksAreActive == server = "up" => \A r \in Ids : task[r] \in Live => r \in Active

\* So a delete that has begun found no such task, and none can start behind it.
GoneInv ==
  /\ lifecycle \in Gone => \A r \in Ids : task[r] \notin Live
  /\ underway \cap {"clear", "finish"} # {} => lifecycle \in Gone
  /\ "finish" \in underway => checkpoint = "none"
  /\ lifecycle = "deleted" =>
       runs = <<>> /\ messages = <<>> /\ events = <<>> /\ checkpoint = "none" /\ pending = "none"

QuietInv == RowsInv /\ ProcessInv /\ TasksAreActive /\ GoneInv

LEMMA OthersStayActive ==
  ASSUME RowsInv, NEW r, NEW status, runs' = [runs EXCEPT ![r].status = status],
         NEW s \in Active, s # r \/ status \in ActiveRuns
  PROVE  s \in Active'
<1>1. runs \in Seq(RunRows) /\ DOMAIN runs' = DOMAIN runs
  BY DEF RowsInv, RowsType
<1>2. CASE s # r
  <2>1. runs'[s] = runs[s]
    BY <1>1, <1>2 DEF Active
  <2> QED BY <1>1, <2>1 DEF Active
<1>3. CASE s = r /\ status \in ActiveRuns
  <2>1. r \in DOMAIN runs /\ runs[r] \in RunRows
    BY <1>1, <1>3 DEF Active
  <2>2. runs'[r] = [runs[r] EXCEPT !.status = status]
    BY <2>1
  <2>3. runs'[r].status = status
    BY <2>1, <2>2 DEF RunRows
  <2> QED BY <1>1, <1>3, <2>1, <2>3 DEF Active
<1> QED BY <1>2, <1>3

LEMMA AcceptQuiet ==
  ASSUME ConversationAssumption, QuietInv, NEW key, NEW kind, NEW content, NEW text,
         AcceptAs(key, kind, content, text, "queued"), UNCHANGED direct,
         asked' \subseteq asked, server = "up"
  PROVE  ProcessInv' /\ TasksAreActive' /\ GoneInv'
<1> DEFINE k == Len(runs) + 1
           row == [key |-> key, kind |-> kind, text |-> text, status |-> "accepted"]
<1>1. runs \in Seq(RunRows) /\ Len(runs) \in Nat
  BY DEF QuietInv, RowsInv, RowsType
<1>2. /\ k \in Ids /\ lifecycle = "active" /\ Active = {}
      /\ runs' = Append(runs, row) /\ task' = [task EXCEPT ![k] = "queued"]
      /\ UNCHANGED <<lifecycle, checkpoint, underway, doomed, server, direct>>
  BY <1>1 DEF AcceptAs, IsOpen, NoOneActive, Ids, ConversationAssumption
<1>3. k \in Active'
  <2>1. k \in DOMAIN runs' /\ runs'[k] = row
    BY <1>1, <1>2
  <2> QED BY <2>1 DEF Active, ActiveRuns
<1>4. ProcessInv'
  BY <1>2 DEF QuietInv, ProcessInv, Live
<1>5. TasksAreActive'
  BY <1>2, <1>3 DEF QuietInv, ProcessInv, TasksAreActive
<1>6. GoneInv'
  BY <1>2 DEF QuietInv, GoneInv, Gone
<1> QED BY <1>4, <1>5, <1>6

LEMMA RequestQuiet ==
  ASSUME ConversationAssumption, QuietInv, Request
  PROVE  ProcessInv' /\ TasksAreActive' /\ GoneInv'
<1>1. ASSUME NEW key \in ClientKeys, NEW text \in Texts, SubmitMessage(key, text)
      PROVE  ProcessInv' /\ TasksAreActive' /\ GoneInv'
  BY <1>1, AcceptQuiet DEF SubmitMessage, Accept
<1>2. ASSUME NEW key \in ClientKeys, NEW r \in DOMAIN runs, RetryRun(key, r)
      PROVE  ProcessInv' /\ TasksAreActive' /\ GoneInv'
  BY <1>2, AcceptQuiet DEF RetryRun, Accept
<1>3. ASSUME NEW key \in DecisionKeys, AcceptDecision(key)
      PROVE  ProcessInv' /\ TasksAreActive' /\ GoneInv'
  <2>1. server = "up" /\ asked' \subseteq asked
    BY <1>3 DEF AcceptDecision, QuietInv, ProcessInv
  <2>2. CASE Accept(key, "decision", Label, Label)
    BY <2>1, <2>2, AcceptQuiet DEF Accept
  <2>3. CASE UNCHANGED <<rows, checkpoint, task, lock, underway, doomed, server, outside>>
    BY <2>1, <2>3 DEF rows, outside, QuietInv, ProcessInv, TasksAreActive, GoneInv, Active
  <2> QED BY <1>3, <2>2, <2>3 DEF AcceptDecision
<1>4. ASSUME NEW key \in DecisionKeys, AskDecision(key)
      PROVE  ProcessInv' /\ TasksAreActive' /\ GoneInv'
  BY <1>4 DEF AskDecision, rows, outside, QuietInv, ProcessInv, TasksAreActive, GoneInv, Active
<1>5. CASE Archive \/ Unarchive
  <2>1. /\ UNCHANGED <<pending, runs, messages, events, checkpoint, task, asked, doomed,
                       server, direct>>
        /\ underway' \subseteq underway
        /\ lifecycle' = lifecycle \/ (lifecycle \notin Gone /\ lifecycle' \notin Gone)
    BY <1>5 DEF Archive, Unarchive, SetLifecycle, Found, Gone, outside
  <2> QED BY <2>1 DEF QuietInv, ProcessInv, TasksAreActive, GoneInv, Gone, Active
<1>6. CASE AskArchive \/ AskDelete
  <2>1. /\ UNCHANGED <<rows, checkpoint, task, asked, doomed, server, outside>> /\ server = "up"
        /\ \/ underway' = underway \cup {"archive"}
           \/ underway' = underway \cup {"delete"}
    BY <1>6 DEF AskArchive, AskDelete, CanDelete
  <2> QED BY <2>1 DEF rows, outside, QuietInv, ProcessInv, TasksAreActive, GoneInv, Active
<1>7. CASE BeginDelete
  <2>1. /\ UNCHANGED <<pending, runs, messages, events, checkpoint, task, asked, doomed,
                       server, direct>>
        /\ server = "up"
    BY <1>7 DEF BeginDelete, outside, QuietInv, ProcessInv
  <2>2. CASE MayBeginDelete
    <3>1. /\ lifecycle' = "deleting" /\ lifecycle # "deleted" /\ Active = {}
          /\ underway' = (underway \ {"delete"}) \cup {"clear"}
      BY <1>7, <2>2 DEF BeginDelete, MayBeginDelete
    <3>2. \A r \in Ids : task[r] \notin Live
      BY <2>1, <3>1 DEF QuietInv, TasksAreActive
    <3> QED BY <2>1, <3>1, <3>2 DEF QuietInv, ProcessInv, TasksAreActive, GoneInv, Gone, Active
  <2>3. CASE ~MayBeginDelete
    <3>1. underway' = underway \ {"delete"} /\ UNCHANGED lifecycle
      BY <1>7, <2>3 DEF BeginDelete
    <3> QED BY <2>1, <3>1 DEF QuietInv, ProcessInv, TasksAreActive, GoneInv, Active
  <2> QED BY <2>2, <2>3
<1>8. CASE ClearCheckpoint
  <2>1. /\ UNCHANGED <<rows, task, asked, doomed, server, outside>>
        /\ "clear" \in underway /\ underway' = (underway \ {"clear"}) \cup {"finish"}
        /\ checkpoint' = "none"
    BY <1>8 DEF ClearCheckpoint
  <2> QED BY <2>1 DEF rows, outside, QuietInv, ProcessInv, TasksAreActive, GoneInv, Active
<1>9. CASE FinishDelete
  <2>1. /\ UNCHANGED <<checkpoint, task, asked, doomed, server, outside>>
        /\ "finish" \in underway /\ underway' = underway \ {"finish"}
        /\ lifecycle' = "deleted" /\ pending' = "none"
        /\ runs' = <<>> /\ messages' = <<>> /\ events' = <<>>
    BY <1>9 DEF FinishDelete
  <2>2. lifecycle \in Gone /\ checkpoint = "none" /\ \A r \in Ids : task[r] \notin Live
    BY <2>1 DEF QuietInv, GoneInv
  <2> QED BY <2>1, <2>2 DEF outside, QuietInv, ProcessInv, TasksAreActive, GoneInv, Gone
<1>10. CASE DeleteFails
  BY <1>10 DEF DeleteFails, rows, outside, QuietInv, ProcessInv, TasksAreActive, GoneInv, Active
<1> QED BY <1>1, <1>2, <1>3, <1>4, <1>5, <1>6, <1>7, <1>8, <1>9, <1>10 DEF Request

\* A task at work shows that no delete has begun: what it writes is not written too late.
LEMMA AtWork ==
  ASSUME QuietInv, NEW r \in Ids, task[r] \in Live,
         NEW phase \in Live \cup {"none", "leaving"}, task' = [task EXCEPT ![r] = phase],
         UNCHANGED <<lifecycle, asked, underway, doomed, server, direct>>,
         \A s \in Active : s # r => s \in Active',
         phase \in Live /\ r \in Active => r \in Active'
  PROVE  ProcessInv' /\ TasksAreActive' /\ GoneInv'
<1>1. lifecycle \notin Gone
  BY DEF QuietInv, GoneInv
<1>2. ProcessInv'
  BY DEF QuietInv, ProcessInv
<1>3. TasksAreActive'
  BY DEF QuietInv, ProcessInv, TasksAreActive
<1>4. GoneInv'
  BY <1>1 DEF QuietInv, GoneInv, Gone
<1> QED BY <1>2, <1>3, <1>4

LEMMA TaskQuiet ==
  ASSUME QuietInv, NEW r \in Ids, Background(r) \/ Raise(r)
  PROVE  ProcessInv' /\ TasksAreActive' /\ GoneInv'
<1> USE DEF Moved
<1>0. RowsInv
  BY DEF QuietInv
<1>1. CASE StartRun(r)
  <2>1. CASE /\ FailRun(r, "failed") /\ Moved(r, "none")
    <3>1. \A s \in Active : s # r => s \in Active'
      BY <1>0, <2>1, OthersStayActive DEF FailRun
    <3> QED BY <1>1, <2>1, <3>1, AtWork DEF StartRun, FailRun, outside, Live
  <2>2. CASE /\ runs' = [runs EXCEPT ![r].status = IF @ = "accepted" THEN "running" ELSE @]
             /\ Moved(r, "running") /\ UNCHANGED lifecycle
    <3> DEFINE status == IF runs[r].status = "accepted" THEN "running" ELSE runs[r].status
    <3>1. runs' = [runs EXCEPT ![r].status = status]
      BY <2>2
    <3>2. r \in Active => status \in ActiveRuns
      BY DEF Active, ActiveRuns
    <3> HIDE DEF status
    <3>3. \A s \in Active : s \in Active'
      BY <1>0, <3>1, <3>2, OthersStayActive
    <3> QED BY <1>1, <2>2, <3>3, AtWork DEF StartRun, outside, Live
  <2> QED BY <1>1, <2>1, <2>2 DEF StartRun
<1>2. CASE Mismatch(r)
  <2>1. \A s \in Active : s # r => s \in Active'
    BY <1>0, <1>2, OthersStayActive DEF Mismatch, CompleteRun
  <2> QED BY <1>2, <2>1, AtWork DEF Mismatch, CompleteRun, outside, Live
<1>3. CASE ExecuteNodes(r)
  BY <1>3, AtWork DEF ExecuteNodes, outside, Live, Active
<1>4. CASE StopGraph(r)
  BY <1>4, AtWork DEF StopGraph, rows, outside, Live, Active
<1>5. CASE Finish(r)
  <2>1. \A s \in Active : s # r => s \in Active'
    BY <1>0, <1>5, OthersStayActive DEF Finish, CompleteRun
  <2> QED BY <1>5, <2>1, AtWork DEF Finish, CompleteRun, outside, Live
<1>6. CASE Raise(r)
  <2>1. \A s \in Active : s # r => s \in Active'
    BY <1>0, <1>6, OthersStayActive DEF Raise, FailRun
  <2> QED BY <1>6, <2>1, AtWork DEF Raise, FailRun, outside, Live
<1>7. CASE Leave(r)
  BY <1>7 DEF Leave, rows, outside, QuietInv, ProcessInv, TasksAreActive, GoneInv, Live, Active
<1> QED BY <1>1, <1>2, <1>3, <1>4, <1>5, <1>6, <1>7 DEF Background

LEMMA ProcessQuiet ==
  ASSUME QuietInv, OldRoute = {},
         \/ \E text \in OldRoute : BeginDirect(text)
         \/ DirectStep \/ DirectRaise
         \/ Stream \/ BreakStream \/ ReopenStream
         \/ \E r \in DOMAIN runs : OpenStream(r)
         \/ Shutdown \/ InterruptRun \/ Restart
         \/ UNCHANGED vars
  PROVE  ProcessInv' /\ TasksAreActive' /\ GoneInv'
<1>1. ~DirectStep /\ ~DirectRaise /\ ~(\E text \in OldRoute : BeginDirect(text))
  BY DEF QuietInv, ProcessInv, DirectStep, DirectGraph, DirectAccept, DirectRefused, DirectStart,
     DirectFinish, DirectRaise
<1>2. CASE UNCHANGED <<rows, checkpoint, task, asked, underway, doomed, server, direct>>
  BY <1>2 DEF rows, QuietInv, ProcessInv, TasksAreActive, GoneInv, Active
<1>3. CASE Stream \/ BreakStream \/ ReopenStream \/ (\E r \in DOMAIN runs : OpenStream(r))
           \/ UNCHANGED vars
  BY <1>2, <1>3 DEF Stream, ListEvents, CheckRun, RecheckEvents, BreakStream, ReopenStream,
         OpenStream,
     Follow, vars
<1>4. CASE Shutdown
  <2>1. /\ UNCHANGED <<rows, checkpoint, task, asked, underway, direct>>
        /\ server' = "stopping" /\ asked = {} /\ underway = {}
    BY <1>4 DEF Shutdown
  <2> QED BY <2>1 DEF rows, QuietInv, ProcessInv, TasksAreActive, GoneInv
<1>5. CASE InterruptRun
  <2>1. /\ doomed \in DOMAIN runs /\ server # "up" /\ doomed' = 0
        /\ UNCHANGED <<lifecycle, checkpoint, task, asked, underway, server, direct>>
    BY <1>5 DEF InterruptRun, FailRun, outside, QuietInv, ProcessInv
  <2>2. runs # <<>>
    BY <2>1
  <2> QED BY <2>1, <2>2 DEF QuietInv, ProcessInv, TasksAreActive, GoneInv
<1>6. CASE Restart
  <2>1. /\ task' = [r \in Ids |-> "none"] /\ direct' = NoDirect(direct.count)
        /\ underway' = {} /\ asked' = {} /\ doomed' = 0
        /\ UNCHANGED <<lifecycle, checkpoint>>
        /\ UNCHANGED <<pending, runs, messages, events>> \/ runs # <<>>
    BY <1>6 DEF Restart, FailRun, rows, Active
  <2>2. ProcessInv' /\ TasksAreActive'
    BY <2>1 DEF NoDirect, ProcessInv, TasksAreActive, Live
  <2>3. GoneInv'
    BY <2>1 DEF QuietInv, GoneInv, Live
  <2> QED BY <2>2, <2>3
<1> QED BY <1>1, <1>3, <1>4, <1>5, <1>6

(* Nothing comes back after a delete, as long as nobody sends messages    *)
(* through the old route, which looks at no lifecycle (begin_delete and    *)
(* finish_delete against the tasks of conversation_runtime.py, the         *)
(* shutdown and the restart of web/app.py).                                *)
THEOREM DeleteIsFinal ==
  ASSUME ConversationAssumption, OldRoute = {}
  PROVE  Spec => []DeletedIsEmpty
<1>1. Init => QuietInv
  <2> SUFFICES ASSUME Init PROVE QuietInv
    OBVIOUS
  <2>1. ProcessInv /\ TasksAreActive /\ GoneInv
    BY DEF Init, NoDirect, ProcessInv, TasksAreActive, GoneInv, Live, Gone
  <2> QED BY <2>1, RowsStart DEF QuietInv
<1>2. QuietInv /\ [Next]_vars => QuietInv'
  <2> SUFFICES ASSUME QuietInv, [Next]_vars PROVE QuietInv'
    OBVIOUS
  <2>1. RowsInv'
    BY RowsKept DEF QuietInv
  <2>2. ProcessInv' /\ TasksAreActive' /\ GoneInv'
    BY RequestQuiet, TaskQuiet, ProcessQuiet DEF Next
  <2> QED BY <2>1, <2>2 DEF QuietInv
<1>3. QuietInv => DeletedIsEmpty
  BY DEF QuietInv, ProcessInv, GoneInv, Gone, DeletedIsEmpty
<1> QED BY <1>1, <1>2, <1>3, PTL DEF Spec

-----------------------------------------------------------------------------
(* What policy references mean                                             *)

Refs(edition) == {Ref(s) : s \in edition}

\* The facts that references to an edition stand for.
Meant(edition, refs) ==
  UNION {{FactOf(s, f) : f \in s.facts} : s \in {t \in edition : Ref(t) \in refs}}

\* Two editions in which a text means the same.
Agree(old, new) ==
  \A s \in old, n \in new :
    s.content = n.content =>
      s.facts = n.facts /\ s.topic = n.topic /\ s.aspects = n.aspects

(* A fact of a section, as references find it.                             *)
LEMMA MeantFact ==
  ASSUME NEW edition, NEW refs, NEW g
  PROVE  g \in Meant(edition, refs) <=>
           \E s \in edition : \E f \in s.facts : Ref(s) \in refs /\ g = FactOf(s, f)
BY DEF Meant

(* References that were found in one edition and all resolve in another    *)
(* stand for the same facts, as long as no text changed its meaning        *)
(* (resolve_evidence_facts, resolve_fact).                                 *)
LEMMA ResolvedIsMeant ==
  ASSUME NEW old, NEW new, NEW refs \in SUBSET Refs(old),
         Agree(old, new), Resolvable(new, refs)
  PROVE  Resolved(new, refs) = Meant(old, refs)
<1>1. ASSUME NEW g \in Resolved(new, refs)
      PROVE  g \in Meant(old, refs)
  <2>1. PICK r \in refs : \E id \in r.ids : g \in LookUp(new, r, id)
    BY DEF Resolved
  <2>2. PICK id \in r.ids : g \in LookUp(new, r, id)
    BY <2>1
  <2>3. PICK n \in new : n.content = r.content /\ \E f \in n.facts : f.id = id /\ g = FactOf(n, f)
    BY <2>2 DEF LookUp
  <2>4. PICK f \in n.facts : g = FactOf(n, f)
    BY <2>3
  <2>5. PICK s \in old : r = Ref(s)
    BY DEF Refs
  <2>6. s.content = n.content
    BY <2>3, <2>5 DEF Ref
  <2>7. f \in s.facts /\ g = FactOf(s, f)
    BY <2>4, <2>6 DEF Agree, FactOf
  <2> QED BY <2>5, <2>7, MeantFact
<1>2. ASSUME NEW g \in Meant(old, refs)
      PROVE  g \in Resolved(new, refs)
  <2>1. PICK s \in old : \E f \in s.facts : Ref(s) \in refs /\ g = FactOf(s, f)
    BY MeantFact
  <2>2. PICK f \in s.facts : Ref(s) \in refs /\ g = FactOf(s, f)
    BY <2>1
  <2>3. f.id \in Ref(s).ids /\ Ref(s).content = s.content
    BY DEF Ref
  <2>4. LookUp(new, Ref(s), f.id) # {}
    BY <2>2, <2>3 DEF Resolvable
  <2>5. PICK n \in new : n.content = s.content
    BY <2>3, <2>4 DEF LookUp
  <2>6. f \in n.facts /\ g = FactOf(n, f)
    BY <2>2, <2>5 DEF Agree, FactOf
  <2>7. g \in LookUp(new, Ref(s), f.id)
    BY <2>3, <2>5, <2>6 DEF LookUp
  <2> QED BY <2>2, <2>3, <2>7 DEF Resolved
<1> QED BY <1>1, <1>2

(* Facts of one edition are told apart by their ids.                       *)
LEMMA MeantIds ==
  ASSUME NEW edition, UniqueIds(edition), NEW refs,
         NEW f \in Meant(edition, refs), NEW g \in Meant(edition, refs), f.id = g.id
  PROVE  f = g
<1>1. PICK s \in edition : \E a \in s.facts : f = FactOf(s, a)
  BY MeantFact
<1>2. PICK a \in s.facts : f = FactOf(s, a)
  BY <1>1
<1>3. PICK t \in edition : \E b \in t.facts : g = FactOf(t, b)
  BY MeantFact
<1>4. PICK b \in t.facts : g = FactOf(t, b)
  BY <1>3
<1>5. a.id = b.id
  BY <1>2, <1>4 DEF FactOf
<1> QED BY <1>2, <1>4, <1>5 DEF UniqueIds

(* Facts that apply, leave nothing open and do not contradict each other   *)
(* are a complete answer.                                                  *)
LEMMA ApplicableIsComplete ==
  ASSUME NEW query, NEW facts, Missing(query, facts) = {},
         Conflicts(Applicable(query, facts)) = {}, Applicable(query, facts) # {},
         Unsupported(query, Applicable(query, facts)) = {}
  PROVE  Complete(query, Applicable(query, facts))
<1> DEFINE selected == Applicable(query, facts)
<1>1. selected \subseteq facts
  BY DEF Applicable
<1>2. Missing(query, selected) = {}
  BY <1>1 DEF Missing
<1>3. ASSUME NEW f \in selected, NEW g \in selected, f.key = g.key, f.value # g.value,
             ScopesOverlap(f.scope, g.scope)
      PROVE  FALSE
  <2>1. <<f, g>> \in Conflicts(selected)
    BY <1>3 DEF Conflicts
  <2> QED BY <2>1
<1> HIDE DEF selected
<1>4. selected # {} /\ Unsupported(query, selected) = {}
  BY DEF selected
<1>5. Complete(query, selected)
  BY <1>2, <1>3, <1>4 DEF Complete
<1> QED BY <1>5 DEF selected

-----------------------------------------------------------------------------
(* Turns                                                                   *)

PolicyNodes ==
  {"assess_policy_evidence", "select_policy_facts", "validate_policy_citations",
   "respond_policy_answer"}
GuidanceNodes ==
  {"load_guidance_order", "load_guidance_shipment", "retrieve_guidance_policy",
   "assess_guidance_evidence", "assemble_service_resolution"}
OtherNodes ==
  {"clarify_intent", "respond_intent_fallback", "respond_unsupported", "request_order_id",
   "query_order", "query_shipment", "retrieve_policy"}

Fields ==
  {"intent", "named", "concerns", "query", "order", "shipment", "refs", "missing",
   "conflicts", "chosen", "facts", "error", "reply", "offers"}

GuidanceErrors ==
  {"none", "guidance_missing_order", "guidance_order_unavailable", "guidance_order_failed",
   "guidance_shipment_unavailable", "guidance_shipment_failed", "guidance_policy_failed",
   "guidance_policy_insufficient"}

\* The route that a message takes, and that it is not answered before its end.
RouteInv ==
  /\ DOMAIN turn = Fields
  /\ at \in PolicyNodes \cup GuidanceNodes \cup OtherNodes \cup {"complete", "idle"}
  /\ at \notin {"complete", "idle"} => turn.reply = "none" /\ turn.offers = {}
  /\ at \in GuidanceNodes => turn.intent = "service_guidance"
  /\ turn.intent = "service_guidance" => at \in GuidanceNodes \cup {"complete", "idle"}

\* The indexes that a turn may have met.
SeenInv ==
  /\ corpus \in Editions \cup {Broken}
  /\ index \in Editions \cup {NoIndex}
  /\ seen \in SUBSET Editions
  /\ at # "idle" => index \in seen \cup {NoIndex}

\* What a policy inquiry has found out, for as long as the texts mean what they did.
Judged(edition) ==
  LET facts == Meant(edition, turn.refs) IN
  /\ turn.refs \in SUBSET Refs(edition)
  /\ at # "assess_policy_evidence" /\ Steady =>
       /\ Missing(turn.query, facts) = {}
       /\ Conflicts(Applicable(turn.query, facts)) = {}
       /\ at # "select_policy_facts" =>
            /\ Applicable(turn.query, facts) # {}
            /\ Unsupported(turn.query, Applicable(turn.query, facts)) = {}
            /\ turn.chosen = {f.id : f \in Applicable(turn.query, facts)}

PolicyInv ==
  /\ AnswerIsComplete
  /\ at \in PolicyNodes => \E edition \in seen : Judged(edition)

\* What a combined consultation holds behind each of its steps.
WholeTurn(t, node) ==
  LET asksPolicy == t.concerns \cap PolicyConcerns # {}
  IN /\ t.error \in GuidanceErrors
     /\ node \in GuidanceNodes \ {"assemble_service_resolution"} =>
          t.missing = {} /\ t.conflicts = {} /\ t.facts = {}
     /\ node \in GuidanceNodes \ {"load_guidance_order"} =>
          (t.named /\ t.error = "none" => t.order # "none")
     /\ node \in GuidanceNodes \ {"load_guidance_order", "load_guidance_shipment"} =>
          (t.named /\ t.error = "none" /\ "shipment_status" \in t.concerns => t.shipment)
     /\ node = "assess_guidance_evidence" =>
          (t.error = "none" /\ asksPolicy => t.refs # {})
     /\ node = "assemble_service_resolution" =>
          /\ t.facts # {} => Complete(t.query, t.facts)
          /\ t.error = "none" /\ t.missing = {} /\ t.conflicts = {} /\ asksPolicy =>
               Complete(t.query, t.facts)

GuidanceInv ==
  /\ GuidanceIsWhole
  /\ at \in GuidanceNodes => WholeTurn(turn, at)

\* A question is counted in the checkpoint before it is sent.
CountInv ==
  /\ attempts \in 0..MaxClarifications /\ saved \in 0..MaxClarifications
  /\ questions \in Nat /\ questions <= attempts /\ questions <= saved
  /\ at = "clarify_intent" => attempts < MaxClarifications
  /\ at = "complete" /\ turn.reply = "awaiting_intent_clarification" =>
       questions < attempts

DialogueInv == RouteInv /\ SeenInv /\ PolicyInv /\ GuidanceInv /\ CountInv

(* A reply names none of the two that are more than a reply.               *)
LEMMA StopReasons ==
  /\ StopReason \notin {"policy_answered", "awaiting_intent_clarification", "none"}
  /\ StopReason = "completed" =>
       /\ turn.named /\ turn.conflicts = {} /\ turn.missing = {}
       /\ turn.error \in GuidanceErrors => turn.error = "none"
BY DEF StopReason, GuidanceErrors

LEMMA DialogueInitial == DialogueAssumption /\ DialogueInit => DialogueInv
BY DEF DialogueInit, DialogueInv, RouteInv, SeenInv, PolicyInv, GuidanceInv, CountInv,
   NoTurn,
   Fields, AnswerIsComplete, GuidanceIsWhole, PolicyNodes, GuidanceNodes, OtherNodes,
   DialogueAssumption

(* The index may be rebuilt at any node: what was found stays found in the *)
(* editions seen before, and if the later ones agree the earlier ones do.  *)
LEMMA SeenGrows ==
  ASSUME PolicyInv, UNCHANGED <<turn, at>>, seen \subseteq seen'
  PROVE  PolicyInv'
<1>1. Steady' => Steady
  BY DEF Steady
<1>2. AnswerIsComplete'
  BY <1>1 DEF PolicyInv, AnswerIsComplete
<1>3. ASSUME NEW edition \in seen, Judged(edition)
      PROVE  Judged(edition)'
  BY <1>1, <1>3 DEF Judged
<1> QED BY <1>2, <1>3 DEF PolicyInv

(* Where a message goes, and that a turn has its reply only when it is     *)
(* over (route_after_interpret and the edges of the graph).                *)
LEMMA RouteKept ==
  ASSUME DialogueAssumption, RouteInv, [DialogueNext]_dialoguevars
  PROVE  RouteInv'
<1> USE DEF RouteInv, Goto, Reply, Fields, PolicyNodes, GuidanceNodes, OtherNodes
<1>1. ASSUME NEW m \in Messages, BindAndInterpret(m)
      PROVE  RouteInv'
  <2>1. m.intent \in Intents
    BY DEF DialogueAssumption
  <2> QED BY <1>1, <2>1 DEF BindAndInterpret, AfterInterpret, NoTurn, Intents
<1>2. ClarifyIntent => RouteInv'
  BY DEF ClarifyIntent
<1>3. RespondIntentFallback => RouteInv'
  BY DEF RespondIntentFallback
<1>4. RespondUnsupported => RouteInv'
  BY DEF RespondUnsupported
<1>5. RequestOrderId => RouteInv'
  BY DEF RequestOrderId
<1>6. QueryOrder => RouteInv'
  BY DEF QueryOrder
<1>7. QueryShipment => RouteInv'
  BY DEF QueryShipment
<1>8. RetrievePolicy => RouteInv'
  BY DEF RetrievePolicy
<1>9. AssessPolicyEvidence => RouteInv'
  BY DEF AssessPolicyEvidence
<1>10. SelectPolicyFacts => RouteInv'
  BY DEF SelectPolicyFacts
<1>11. ValidatePolicyCitations => RouteInv'
  BY DEF ValidatePolicyCitations
<1>12. RespondPolicyAnswer => RouteInv'
  BY DEF RespondPolicyAnswer
<1>13. LoadGuidanceOrder => RouteInv'
  BY DEF LoadGuidanceOrder
<1>14. LoadGuidanceShipment => RouteInv'
  BY DEF LoadGuidanceShipment
<1>15. RetrieveGuidancePolicy => RouteInv'
  BY DEF RetrieveGuidancePolicy
<1>16. AssessGuidanceEvidence => RouteInv'
  BY DEF AssessGuidanceEvidence
<1>17. AssembleServiceResolution => RouteInv'
  BY DEF AssembleServiceResolution
<1>18. CompleteTurn => RouteInv'
  BY DEF CompleteTurn
<1>19. Checkpoint => RouteInv'
  BY DEF Checkpoint
<1>20. Fail => RouteInv'
  BY DEF Fail, NoTurn
<1>21. Crash => RouteInv'
  BY DEF Crash, NoTurn
<1>22. EditCorpus => RouteInv'
  BY DEF EditCorpus
<1>23. BuildIndex => RouteInv'
  BY DEF BuildIndex
<1>24. UNCHANGED dialoguevars => RouteInv'
  BY DEF dialoguevars
<1> QED BY <1>1, <1>2, <1>3, <1>4, <1>5, <1>6, <1>7, <1>8, <1>9, <1>10, <1>11, <1>12,
   <1>13, <1>14, <1>15, <1>16, <1>17, <1>18, <1>19, <1>20, <1>21, <1>22, <1>23,
   <1>24 DEF DialogueNext, Step

(* A turn knows of every edition that the index has been of since it began *)
(* (build_policy_index moves a new file over the old one).                 *)
LEMMA SeenKept ==
  ASSUME DialogueAssumption, RouteInv, SeenInv, [DialogueNext]_dialoguevars
  PROVE  SeenInv'
<1>1. CASE Step \/ Checkpoint \/ Fail \/ Crash \/ UNCHANGED dialoguevars
  <2>1. \/ UNCHANGED <<corpus, index, seen>> /\ (at = "idle" => at' = "idle")
        \/ UNCHANGED <<corpus, index>> /\ seen' = {index} \ {NoIndex}
    BY <1>1 DEF Step, BindAndInterpret, Goto, Reply, dialoguevars,
       ClarifyIntent, RespondIntentFallback, RespondUnsupported, RequestOrderId, QueryOrder,
       QueryShipment, RetrievePolicy, AssessPolicyEvidence, SelectPolicyFacts,
       ValidatePolicyCitations, RespondPolicyAnswer, LoadGuidanceOrder, LoadGuidanceShipment,
       RetrieveGuidancePolicy, AssessGuidanceEvidence, AssembleServiceResolution,
       CompleteTurn, Checkpoint, Fail, Crash
  <2> QED BY <2>1 DEF SeenInv
<1>2. CASE EditCorpus
  BY <1>2 DEF EditCorpus, SeenInv
<1>3. CASE BuildIndex
  BY <1>3 DEF BuildIndex, Buildable, SeenInv
<1> QED BY <1>1, <1>2, <1>3 DEF DialogueNext

(* What is sent at most, over failed runs and restarts (clarify_intent).   *)
LEMMA CountKept ==
  ASSUME DialogueAssumption, RouteInv, CountInv, [DialogueNext]_dialoguevars
  PROVE  CountInv'
<1> USE DEF CountInv, RouteInv, Goto, Reply, Fields, DialogueAssumption
<1>1. ASSUME NEW m \in Messages, BindAndInterpret(m)
      PROVE  CountInv'
  <2>1. m.intent \in Intents
    OBVIOUS
  <2> QED BY <1>1, <2>1 DEF BindAndInterpret, AfterInterpret, NoTurn, Intents, Counted
<1>2. ClarifyIntent => CountInv'
  BY DEF ClarifyIntent
<1>3. RespondIntentFallback => CountInv'
  BY DEF RespondIntentFallback
<1>4. RespondUnsupported \/ RequestOrderId => CountInv'
  BY DEF RespondUnsupported, RequestOrderId
<1>5. QueryOrder => CountInv'
  BY DEF QueryOrder
<1>6. QueryShipment => CountInv'
  BY DEF QueryShipment
<1>7. RetrievePolicy => CountInv'
  BY DEF RetrievePolicy
<1>8. AssessPolicyEvidence => CountInv'
  BY DEF AssessPolicyEvidence
<1>9. SelectPolicyFacts => CountInv'
  BY DEF SelectPolicyFacts
<1>10. ValidatePolicyCitations => CountInv'
  BY DEF ValidatePolicyCitations
<1>11. RespondPolicyAnswer => CountInv'
  BY DEF RespondPolicyAnswer
<1>12. LoadGuidanceOrder => CountInv'
  BY DEF LoadGuidanceOrder
<1>13. LoadGuidanceShipment => CountInv'
  BY DEF LoadGuidanceShipment
<1>14. RetrieveGuidancePolicy => CountInv'
  BY DEF RetrieveGuidancePolicy
<1>15. AssessGuidanceEvidence => CountInv'
  BY DEF AssessGuidanceEvidence
<1>16. AssembleServiceResolution => CountInv'
  BY StopReasons DEF AssembleServiceResolution
<1>17. CompleteTurn => CountInv'
  BY DEF CompleteTurn
<1>18. Checkpoint => CountInv'
  BY DEF Checkpoint
<1>19. Fail => CountInv'
  BY DEF Fail, NoTurn
<1>20. Crash => CountInv'
  BY DEF Crash, NoTurn
<1>21. EditCorpus => CountInv'
  BY DEF EditCorpus
<1>22. BuildIndex => CountInv'
  BY DEF BuildIndex
<1>23. UNCHANGED dialoguevars => CountInv'
  BY DEF dialoguevars
<1> QED BY <1>1, <1>2, <1>3, <1>4, <1>5, <1>6, <1>7, <1>8, <1>9, <1>10, <1>11, <1>12,
   <1>13, <1>14, <1>15, <1>16, <1>17, <1>18, <1>19, <1>20, <1>21, <1>22,
   <1>23 DEF DialogueNext, Step

(* What a combined consultation has found out and what it has failed at,   *)
(* node by node: an error that stands is never forgotten.                  *)
LEMMA GuidanceKept ==
  ASSUME DialogueAssumption, RouteInv, GuidanceInv, [DialogueNext]_dialoguevars
  PROVE  GuidanceInv'
<1>1. ASSUME NEW m \in Messages, BindAndInterpret(m)
      PROVE  GuidanceInv'
  <2>1. m.intent \in Intents
    BY DEF DialogueAssumption
  <2>2. at' \in GuidanceNodes => at' = "load_guidance_order"
    BY <1>1, <2>1 DEF BindAndInterpret, AfterInterpret, NoTurn, Intents, GuidanceNodes
  <2>3. /\ turn'.reply = "none" /\ turn'.offers = {} /\ turn'.error \in GuidanceErrors
        /\ turn'.missing = {} /\ turn'.conflicts = {} /\ turn'.facts = {}
    BY <1>1 DEF BindAndInterpret, NoTurn, GuidanceError, GuidanceErrors
  <2> QED BY <2>2, <2>3 DEF GuidanceInv, GuidanceIsWhole, WholeTurn
<1>2. CASE \/ ClarifyIntent \/ RespondIntentFallback \/ RespondUnsupported \/ RequestOrderId
           \/ QueryOrder \/ QueryShipment \/ RetrievePolicy \/ AssessPolicyEvidence
           \/ SelectPolicyFacts \/ ValidatePolicyCitations \/ RespondPolicyAnswer
  <2>1. at \notin GuidanceNodes \cup {"complete", "idle"}
    BY <1>2 DEF ClarifyIntent, RespondIntentFallback, RespondUnsupported, RequestOrderId,
       QueryOrder, QueryShipment, RetrievePolicy, AssessPolicyEvidence, SelectPolicyFacts,
       ValidatePolicyCitations, RespondPolicyAnswer, GuidanceNodes
  <2>2. turn.intent # "service_guidance"
    BY <2>1 DEF RouteInv
  <2>3. turn'.intent = turn.intent /\ at' \notin GuidanceNodes
    BY <1>2 DEF ClarifyIntent, RespondIntentFallback, RespondUnsupported, RequestOrderId,
       QueryOrder, QueryShipment, RetrievePolicy, AssessPolicyEvidence, SelectPolicyFacts,
       ValidatePolicyCitations, RespondPolicyAnswer, GuidanceNodes, Goto, Reply, RouteInv, Fields
  <2> QED BY <2>2, <2>3 DEF GuidanceInv, GuidanceIsWhole
<1>3. CASE \/ CompleteTurn \/ Checkpoint \/ EditCorpus \/ BuildIndex
           \/ UNCHANGED dialoguevars
  <2>1. turn' = turn /\ at' \in {at, "idle"}
    BY <1>3 DEF CompleteTurn, Checkpoint, EditCorpus, BuildIndex, dialoguevars
  <2> QED BY <2>1 DEF GuidanceInv, GuidanceIsWhole, GuidanceNodes, AsksPolicy
<1>4. CASE Fail \/ Crash
  <2>1. turn' = NoTurn /\ at' = "idle"
    BY <1>4 DEF Fail, Crash
  <2> QED BY <2>1 DEF GuidanceInv, GuidanceIsWhole, GuidanceNodes, NoTurn
\* A step to another node of the consultation.
<1>5. ASSUME NEW to \in GuidanceNodes, NEW updated, Goto(to, updated), DOMAIN updated = Fields,
             updated.reply = "none", updated.offers = {}, WholeTurn(updated, to)
      PROVE  GuidanceInv'
  BY <1>5 DEF Goto, GuidanceInv, GuidanceIsWhole
<1>6. LoadGuidanceOrder => GuidanceInv'
  <2> SUFFICES ASSUME LoadGuidanceOrder
               PROVE  GuidanceInv'
    OBVIOUS
  <2>1. /\ WholeTurn(turn, "load_guidance_order") /\ DOMAIN turn = Fields
        /\ turn.reply = "none" /\ turn.offers = {}
    BY DEF LoadGuidanceOrder, GuidanceInv, RouteInv, GuidanceNodes
  <2>2. PICK updated : /\ Goto("load_guidance_shipment", updated)
                       /\ \/ ~turn.named /\ updated = turn
                          \/ updated = [turn EXCEPT !.error = "guidance_order_unavailable"]
                          \/ updated = [turn EXCEPT !.error = "guidance_order_failed"]
                          \/ \E outcome \in Outcomes :
                               updated = [turn EXCEPT !.order = outcome, !.error = "none"]
    BY DEF LoadGuidanceOrder
  <2>3. DOMAIN updated = Fields /\ updated.reply = "none" /\ updated.offers = {}
    BY <2>1, <2>2 DEF Fields
  <2>4. WholeTurn(updated, "load_guidance_shipment")
    BY <2>1, <2>2 DEF WholeTurn, Fields, GuidanceNodes, GuidanceErrors, Outcomes
  <2> QED BY <1>5, <2>2, <2>3, <2>4 DEF GuidanceNodes
<1>7. LoadGuidanceShipment => GuidanceInv'
  <2> SUFFICES ASSUME LoadGuidanceShipment
               PROVE  GuidanceInv'
    OBVIOUS
  <2>1. /\ WholeTurn(turn, "load_guidance_shipment") /\ DOMAIN turn = Fields
        /\ turn.reply = "none" /\ turn.offers = {}
    BY DEF LoadGuidanceShipment, GuidanceInv, RouteInv, GuidanceNodes
  <2>2. PICK updated :
          /\ Goto("retrieve_guidance_policy", updated)
          /\ \/ /\ ~("shipment_status" \in turn.concerns /\ turn.order # "none")
                /\ updated = turn
             \/ /\ turn.order # "none"
                /\ \E error \in {"none", "guidance_shipment_unavailable",
                                 "guidance_shipment_failed"} :
                     updated = [turn EXCEPT !.shipment = (error = "none"), !.error = error]
    BY DEF LoadGuidanceShipment
  <2>3. DOMAIN updated = Fields /\ updated.reply = "none" /\ updated.offers = {}
    BY <2>1, <2>2 DEF Fields
  <2>4. WholeTurn(updated, "retrieve_guidance_policy")
    BY <2>1, <2>2 DEF WholeTurn, Fields, GuidanceNodes, GuidanceErrors
  <2> QED BY <1>5, <2>2, <2>3, <2>4 DEF GuidanceNodes
<1>8. RetrieveGuidancePolicy => GuidanceInv'
  <2> SUFFICES ASSUME RetrieveGuidancePolicy
               PROVE  GuidanceInv'
    OBVIOUS
  <2>1. /\ WholeTurn(turn, "retrieve_guidance_policy") /\ DOMAIN turn = Fields
        /\ turn.reply = "none" /\ turn.offers = {}
    BY DEF RetrieveGuidancePolicy, GuidanceInv, RouteInv, GuidanceNodes
  <2>2. PICK updated :
          /\ Goto("assess_guidance_evidence", updated)
          /\ \/ ~AsksPolicy /\ updated = turn
             \/ updated = [turn EXCEPT !.error = "guidance_policy_failed"]
             \/ \E refs \in SearchResults(index, turn.query) :
                  updated = [turn EXCEPT !.refs = refs, !.error = SearchError(refs)]
    BY DEF RetrieveGuidancePolicy
  <2>3. \A refs : /\ SearchError(refs) \in GuidanceErrors
                  /\ SearchError(refs) = "none" => turn.error = "none" /\ refs # {}
    BY <2>1 DEF SearchError, WholeTurn, GuidanceErrors
  <2>4. ASSUME NEW refs, updated = [turn EXCEPT !.refs = refs, !.error = SearchError(refs)]
        PROVE  WholeTurn(updated, "assess_guidance_evidence")
    <3>1. /\ updated.refs = refs /\ updated.error = SearchError(refs)
          /\ \A field \in Fields \ {"refs", "error"} : updated[field] = turn[field]
      BY <2>1, <2>4 DEF Fields
    <3> QED BY <2>1, <2>3, <3>1 DEF WholeTurn, Fields, GuidanceNodes
  <2>5. DOMAIN updated = Fields /\ updated.reply = "none" /\ updated.offers = {}
    BY <2>1, <2>2 DEF Fields
  <2>6. ~AsksPolicy /\ updated = turn => WholeTurn(updated, "assess_guidance_evidence")
    BY <2>1 DEF WholeTurn, GuidanceNodes, AsksPolicy
  <2>7. updated = [turn EXCEPT !.error = "guidance_policy_failed"]
          => WholeTurn(updated, "assess_guidance_evidence")
    BY <2>1 DEF WholeTurn, Fields, GuidanceNodes, GuidanceErrors
  <2>8. WholeTurn(updated, "assess_guidance_evidence")
    BY <2>2, <2>4, <2>6, <2>7
  <2> QED BY <1>5, <2>2, <2>5, <2>8 DEF GuidanceNodes
<1>9. AssessGuidanceEvidence => GuidanceInv'
  <2> SUFFICES ASSUME AssessGuidanceEvidence
               PROVE  GuidanceInv'
    OBVIOUS
  <2>1. /\ WholeTurn(turn, "assess_guidance_evidence") /\ DOMAIN turn = Fields
        /\ turn.reply = "none" /\ turn.offers = {}
    BY DEF AssessGuidanceEvidence, GuidanceInv, RouteInv, GuidanceNodes
  <2> DEFINE missing   == Missing(turn.query, Facts)
             selected  == Applicable(turn.query, Facts)
             conflicts == IF missing = {} THEN Conflicts(selected) ELSE {}
  <2>2. PICK updated :
          /\ Goto("assemble_service_resolution", updated)
          /\ \/ (~AsksPolicy \/ turn.refs = {}) /\ updated = turn
             \/ updated = [turn EXCEPT !.error = "guidance_policy_failed"]
             \/ /\ missing # {} \/ conflicts # {}
                /\ updated = [turn EXCEPT !.missing = missing, !.conflicts = conflicts]
             \/ updated = [turn EXCEPT !.error = "guidance_policy_insufficient"]
             \/ /\ missing = {} /\ conflicts = {}
                /\ selected # {} /\ Unsupported(turn.query, selected) = {}
                /\ updated = [turn EXCEPT !.chosen = {f.id : f \in selected},
                                          !.facts = selected]
    BY DEF AssessGuidanceEvidence
  <2>3. missing = {} /\ conflicts = {} /\ selected # {} /\ Unsupported(turn.query, selected) = {}
          => Complete(turn.query, selected)
    BY ApplicableIsComplete
  <2> HIDE DEF missing, selected, conflicts
  <2>4. DOMAIN updated = Fields /\ updated.reply = "none" /\ updated.offers = {}
    BY <2>1, <2>2 DEF Fields
  <2>5. WholeTurn(updated, "assemble_service_resolution")
    BY <2>1, <2>2, <2>3 DEF WholeTurn, Fields, GuidanceNodes, GuidanceErrors, AsksPolicy
  <2> QED BY <1>5, <2>2, <2>4, <2>5 DEF GuidanceNodes
<1>10. AssembleServiceResolution => GuidanceInv'
  <2> SUFFICES ASSUME AssembleServiceResolution
               PROVE  GuidanceInv'
    OBVIOUS
  <2>1. WholeTurn(turn, "assemble_service_resolution") /\ DOMAIN turn = Fields
    BY DEF AssembleServiceResolution, GuidanceInv, RouteInv, GuidanceNodes
  <2>2. at' = "complete" /\ turn' = [turn EXCEPT !.reply = StopReason, !.offers = Offers]
    BY DEF AssembleServiceResolution, Goto
  <2>3. /\ turn'.reply = StopReason /\ turn'.offers = Offers
        /\ turn'.order = turn.order /\ turn'.concerns = turn.concerns
        /\ turn'.shipment = turn.shipment /\ turn'.query = turn.query
        /\ turn'.facts = turn.facts
    BY <2>1, <2>2 DEF Fields
  <2>4. StopReason = "completed" =>
          /\ turn.order # "none"
          /\ "shipment_status" \in turn.concerns => turn.shipment
          /\ AsksPolicy => Complete(turn.query, turn.facts)
    BY <2>1, StopReasons DEF WholeTurn, GuidanceNodes, AsksPolicy
  <2>5. "request_refund" \in Offers =>
          turn.order = "delivered" /\ Complete(turn.query, turn.facts)
    BY <2>1 DEF Offers, WholeTurn
  <2>6. GuidanceIsWhole'
    BY <2>3, <2>4, <2>5 DEF GuidanceIsWhole, AsksPolicy
  <2> QED BY <2>2, <2>6 DEF GuidanceInv, GuidanceNodes
<1> QED BY <1>1, <1>2, <1>3, <1>4, <1>6, <1>7, <1>8, <1>9, <1>10 DEF DialogueNext, Step

(* What a policy inquiry has judged is what the references still mean when *)
(* it answers, whatever edition the index is of by then.                   *)
LEMMA PolicyKept ==
  ASSUME DialogueAssumption, RouteInv, SeenInv, PolicyInv, [DialogueNext]_dialoguevars
  PROVE  PolicyInv'
<1>1. ASSUME at' \notin PolicyNodes, turn'.reply # "policy_answered"
      PROVE  PolicyInv'
  BY <1>1 DEF PolicyInv, AnswerIsComplete
<1>2. ASSUME NEW m \in Messages, BindAndInterpret(m)
      PROVE  PolicyInv'
  <2>1. m.intent \in Intents
    BY DEF DialogueAssumption
  <2>2. at' \notin PolicyNodes /\ turn'.reply = "none"
    BY <1>2, <2>1 DEF BindAndInterpret, AfterInterpret, NoTurn, Intents, PolicyNodes
  <2> QED BY <1>1, <2>2
<1>3. CASE \/ ClarifyIntent \/ RespondIntentFallback \/ RespondUnsupported \/ RequestOrderId
           \/ QueryOrder \/ QueryShipment \/ Fail \/ Crash
  <2> DEFINE Elsewhere == at' \notin PolicyNodes /\ turn'.reply # "policy_answered"
  <2> USE DEF PolicyNodes, Goto, Reply, RouteInv, Fields
  <2>1. ClarifyIntent => Elsewhere
    BY DEF ClarifyIntent
  <2>2. RespondIntentFallback => Elsewhere
    BY DEF RespondIntentFallback
  <2>3. RespondUnsupported \/ RequestOrderId => Elsewhere
    BY DEF RespondUnsupported, RequestOrderId
  <2>4. QueryOrder => Elsewhere
    BY DEF QueryOrder
  <2>5. QueryShipment => Elsewhere
    BY DEF QueryShipment
  <2>6. Fail \/ Crash => Elsewhere
    BY DEF Fail, Crash, NoTurn
  <2> QED BY <1>1, <1>3, <2>1, <2>2, <2>3, <2>4, <2>5, <2>6
<1>4. CASE \/ LoadGuidanceOrder \/ LoadGuidanceShipment \/ RetrieveGuidancePolicy
           \/ AssessGuidanceEvidence \/ AssembleServiceResolution
  <2>1. at' \notin PolicyNodes
    BY <1>4 DEF LoadGuidanceOrder, LoadGuidanceShipment, RetrieveGuidancePolicy,
       AssessGuidanceEvidence, AssembleServiceResolution, PolicyNodes, Goto
  <2>2. CASE AssembleServiceResolution
    <3>1. turn'.reply = StopReason
      BY <2>2 DEF AssembleServiceResolution, Goto, RouteInv, Fields
    <3> QED BY <1>1, <2>1, <3>1, StopReasons
  <2>3. CASE ~AssembleServiceResolution
    <3>1. turn.reply = "none" /\ turn'.reply = turn.reply
      BY <1>4, <2>3 DEF LoadGuidanceOrder, LoadGuidanceShipment, RetrieveGuidancePolicy,
         AssessGuidanceEvidence, Goto, RouteInv, Fields
    <3> QED BY <1>1, <2>1, <3>1
  <2> QED BY <2>2, <2>3
<1>5. CASE CompleteTurn \/ Checkpoint \/ EditCorpus \/ UNCHANGED dialoguevars
  <2>1. UNCHANGED <<turn, seen>> /\ (at' = at \/ at' = "idle")
    BY <1>5 DEF CompleteTurn, Checkpoint, EditCorpus, dialoguevars
  <2>2. UNCHANGED Steady
    BY <2>1 DEF Steady
  <2>3. \A edition \in seen : at' = at /\ Judged(edition) => Judged(edition)'
    BY <2>1, <2>2 DEF Judged
  <2> QED BY <2>1, <2>2, <2>3 DEF PolicyInv, AnswerIsComplete, PolicyNodes
<1>6. CASE BuildIndex
  <2>1. UNCHANGED <<turn, at>> /\ seen \subseteq seen'
    BY <1>6 DEF BuildIndex
  <2> QED BY <2>1, SeenGrows
<1>7. CASE RetrievePolicy
  <2>1. /\ at = "retrieve_policy" /\ DOMAIN turn = Fields /\ UNCHANGED <<index, seen>>
        /\ turn.reply = "none"
    BY <1>7 DEF RetrievePolicy, Goto, Reply, RouteInv
  <2>2. CASE at' = "complete"
    <3>1. turn'.reply # "policy_answered"
      BY <1>7, <2>1, <2>2 DEF RetrievePolicy, Goto, Reply, Fields
    <3> QED BY <1>1, <2>2, <3>1 DEF PolicyNodes
  <2>3. CASE at' # "complete"
    <3>1. PICK refs \in SearchResults(index, turn.query) :
            /\ Current(index, corpus) /\ at' = "assess_policy_evidence"
            /\ turn' = [turn EXCEPT !.refs = refs]
      BY <1>7, <2>3 DEF RetrievePolicy, Goto, Reply
    <3>2. index \in seen'
      BY <2>1, <3>1 DEF Current, SeenInv
    <3>3. refs \in SUBSET Refs(index)
      BY DEF SearchResults, Eligible, Refs
    <3>4. turn'.refs = refs /\ turn'.reply = "none"
      BY <2>1, <3>1 DEF Fields
    <3>5. turn'.refs \in SUBSET Refs(index)
      BY <3>3, <3>4
    <3>6. \E edition \in seen' : Judged(edition)'
      BY <2>1, <3>1, <3>2, <3>5 DEF Judged
    <3> QED BY <3>1, <3>4, <3>6 DEF PolicyInv, AnswerIsComplete
  <2> QED BY <2>2, <2>3
\* From here on: the nodes of a policy inquiry behind its search.
<1>8. ASSUME at \in PolicyNodes
      PROVE  /\ DOMAIN turn = Fields /\ turn.reply = "none"
             /\ \E edition \in seen : Judged(edition)
  BY <1>8 DEF RouteInv, PolicyInv, PolicyNodes
<1>9. ASSUME NEW edition \in seen, at \in PolicyNodes, Judged(edition), Available, Steady
      PROVE  Facts = Meant(edition, turn.refs)
  <2>1. index \in seen
    BY <1>9 DEF Available, Current, SeenInv, PolicyNodes
  <2>2. Agree(edition, index)
    BY <1>9, <2>1 DEF Steady, Agree
  <2>3. turn.refs \in SUBSET Refs(edition) /\ Resolvable(index, turn.refs)
    BY <1>9 DEF Judged, Available
  <2> QED BY <2>2, <2>3, ResolvedIsMeant DEF Facts
\* A node that ends the turn without an answer.
<1>10. ASSUME NEW reply, reply # "policy_answered", at \in PolicyNodes, at' = "complete",
              turn'.reply = reply
       PROVE  PolicyInv'
  BY <1>1, <1>10 DEF PolicyNodes
<1>11. CASE AssessPolicyEvidence
  <2>1. at = "assess_policy_evidence" /\ UNCHANGED seen
    BY <1>11 DEF AssessPolicyEvidence, Goto, Reply
  <2>2. PICK edition \in seen : Judged(edition)
    BY <1>8, <2>1 DEF PolicyNodes
  <2>3. CASE at' = "complete"
    <3>1. turn'.reply # "policy_answered"
      BY <1>8, <1>11, <2>1, <2>3 DEF AssessPolicyEvidence, Goto, Reply, Fields, PolicyNodes
    <3> QED BY <1>10, <2>1, <2>3, <3>1 DEF PolicyNodes
  <2>4. CASE at' # "complete"
    <3>1. /\ Available /\ turn' = turn /\ at' = "select_policy_facts"
          /\ Missing(turn.query, Facts) = {}
          /\ Conflicts(Applicable(turn.query, Facts)) = {}
      BY <1>11, <2>4 DEF AssessPolicyEvidence, Goto, Reply
    <3>2. Steady => Facts = Meant(edition, turn.refs)
      BY <1>9, <2>1, <2>2, <3>1 DEF PolicyNodes
    <3>3. UNCHANGED Steady
      BY <2>1 DEF Steady
    <3>4. Judged(edition)'
      BY <2>2, <3>1, <3>2, <3>3 DEF Judged
    <3>5. turn'.reply = "none"
      BY <1>8, <2>1, <3>1 DEF PolicyNodes
    <3> QED BY <2>1, <3>4, <3>5 DEF PolicyInv, AnswerIsComplete
  <2> QED BY <2>3, <2>4
<1>12. CASE SelectPolicyFacts
  <2>1. at = "select_policy_facts" /\ UNCHANGED seen /\ DOMAIN turn = Fields
    BY <1>12, <1>8 DEF SelectPolicyFacts, Goto, Reply, PolicyNodes
  <2>2. PICK edition \in seen : Judged(edition)
    BY <1>8, <2>1 DEF PolicyNodes
  <2>3. CASE at' = "complete"
    <3>1. turn'.reply # "policy_answered"
      BY <1>12, <2>1, <2>3 DEF SelectPolicyFacts, Goto, Reply, Fields
    <3> QED BY <1>10, <2>1, <2>3, <3>1 DEF PolicyNodes
  <2>4. CASE at' # "complete"
    <3> DEFINE selected == Applicable(turn.query, Facts)
    <3>1. /\ Available /\ at' = "validate_policy_citations"
          /\ turn' = [turn EXCEPT !.chosen = {f.id : f \in selected}]
          /\ selected # {} /\ Unsupported(turn.query, selected) = {}
      BY <1>12, <2>4 DEF SelectPolicyFacts, Goto, Reply
    <3>2. Steady => Facts = Meant(edition, turn.refs)
      BY <1>9, <2>1, <2>2, <3>1 DEF PolicyNodes
    <3>3. /\ turn'.refs = turn.refs /\ turn'.query = turn.query
          /\ turn'.reply = turn.reply /\ turn'.chosen = {f.id : f \in selected}
      BY <2>1, <3>1 DEF Fields
    <3>4. UNCHANGED Steady
      BY <2>1 DEF Steady
    <3>5. Judged(edition)'
      BY <2>1, <2>2, <3>1, <3>2, <3>3, <3>4 DEF Judged
    <3>6. turn'.reply = "none"
      BY <1>8, <2>1, <3>3 DEF PolicyNodes
    <3> QED BY <2>1, <3>5, <3>6 DEF PolicyInv, AnswerIsComplete
  <2> QED BY <2>3, <2>4
<1>13. CASE ValidatePolicyCitations
  <2>1. at = "validate_policy_citations" /\ UNCHANGED seen /\ DOMAIN turn = Fields
    BY <1>13, <1>8 DEF ValidatePolicyCitations, Goto, Reply, PolicyNodes
  <2>2. PICK edition \in seen : Judged(edition)
    BY <1>8, <2>1 DEF PolicyNodes
  <2>3. CASE at' = "complete"
    <3>1. turn'.reply # "policy_answered"
      BY <1>13, <2>1, <2>3 DEF ValidatePolicyCitations, Goto, Reply, Fields
    <3> QED BY <1>10, <2>1, <2>3, <3>1 DEF PolicyNodes
  <2>4. CASE at' # "complete"
    <3>1. turn' = turn /\ at' = "respond_policy_answer"
      BY <1>13, <2>4 DEF ValidatePolicyCitations, Goto, Reply
    <3>2. UNCHANGED Steady
      BY <2>1 DEF Steady
    <3>3. Judged(edition)'
      BY <2>1, <2>2, <3>1, <3>2 DEF Judged
    <3>4. turn'.reply = "none"
      BY <1>8, <2>1, <3>1 DEF PolicyNodes
    <3> QED BY <2>1, <3>3, <3>4 DEF PolicyInv, AnswerIsComplete
  <2> QED BY <2>3, <2>4
<1>14. CASE RespondPolicyAnswer
  <2>1. at = "respond_policy_answer" /\ UNCHANGED seen /\ DOMAIN turn = Fields
    BY <1>14, <1>8 DEF RespondPolicyAnswer, Goto, Reply, PolicyNodes
  <2>2. PICK edition \in seen : Judged(edition)
    BY <1>8, <2>1 DEF PolicyNodes
  <2>3. at' = "complete"
    BY <1>14 DEF RespondPolicyAnswer, Goto, Reply
  <2>4. ASSUME turn'.reply = "policy_answered", Steady
        PROVE  Complete(turn'.query, turn'.facts)
    <3> DEFINE selected == Applicable(turn.query, Facts)
    <3>1. Available /\ turn'.query = turn.query /\ turn'.facts = Chosen
      BY <1>14, <2>1, <2>4 DEF RespondPolicyAnswer, StillChosen, Goto, Reply, Fields
    <3>2. Facts = Meant(edition, turn.refs)
      BY <1>9, <2>1, <2>2, <2>4, <3>1 DEF PolicyNodes
    <3>3. /\ Missing(turn.query, Facts) = {} /\ Conflicts(selected) = {}
          /\ selected # {} /\ Unsupported(turn.query, selected) = {}
          /\ turn.chosen = {f.id : f \in selected}
      BY <2>1, <2>2, <2>4, <3>2 DEF Judged
    <3>4. selected \subseteq Facts
      BY DEF Applicable
    <3>5. UniqueIds(edition)
      BY DEF DialogueAssumption, SeenInv
    <3>6. \A f, g \in Facts : f.id = g.id => f = g
      BY <3>2, <3>5, MeantIds
    <3> HIDE DEF selected
    <3>7. Chosen = selected
      BY <3>3, <3>4, <3>6 DEF Chosen
    <3>8. Complete(turn.query, selected)
      BY <3>3, ApplicableIsComplete DEF selected
    <3> QED BY <3>1, <3>7, <3>8
  <2>5. UNCHANGED Steady
    BY <2>1 DEF Steady
  <2> QED BY <2>3, <2>4, <2>5 DEF PolicyInv, AnswerIsComplete, PolicyNodes
<1> QED BY <1>2, <1>3, <1>4, <1>5, <1>6, <1>7, <1>11, <1>12, <1>13,
   <1>14 DEF DialogueNext, Step

-----------------------------------------------------------------------------
(* In every reachable state of a thread's turns, the node that runs next   *)
(* says what has been found out, and the counters bound what was sent.     *)
THEOREM DialogueInvariant ==
  ASSUME DialogueAssumption
  PROVE  DialogueSpec => []DialogueInv
<1>1. DialogueInit => DialogueInv
  BY DialogueInitial
<1>2. DialogueInv /\ [DialogueNext]_dialoguevars => DialogueInv'
  BY RouteKept, SeenKept, PolicyKept, GuidanceKept, CountKept DEF DialogueInv
<1> QED BY <1>1, <1>2, PTL DEF DialogueSpec

(* A policy answer supports every aspect that was asked, leaves nothing    *)
(* open and does not contradict itself, for any corpus, although the index *)
(* may be replaced between any two of the nodes that judge it              *)
(* (policy_workflow.py).                                                   *)
THEOREM AnswersAreComplete ==
  ASSUME DialogueAssumption
  PROVE  DialogueSpec => []AnswerIsComplete
<1>1. DialogueInv => AnswerIsComplete
  BY DEF DialogueInv, PolicyInv
<1> QED BY <1>1, DialogueInvariant, PTL

(* A consultation that says completed has everything that was asked, and   *)
(* offers a refund only of a delivered order beside complete facts,        *)
(* whichever of its steps failed (service_guidance.py).                    *)
THEOREM GuidanceStaysWhole ==
  ASSUME DialogueAssumption
  PROVE  DialogueSpec => []GuidanceIsWhole
<1>1. DialogueInv => GuidanceIsWhole
  BY DEF DialogueInv, GuidanceInv
<1> QED BY <1>1, DialogueInvariant, PTL

(* No more questions are sent than there are texts for, over failed runs   *)
(* and restarts, and the text of the next one always exists                *)
(* (clarify_intent).                                                       *)
THEOREM QuestionsAreBounded ==
  ASSUME DialogueAssumption
  PROVE  DialogueSpec => []ClarificationIsBounded
<1>1. DialogueInv => ClarificationIsBounded
  BY DEF DialogueInv, CountInv, ClarificationIsBounded, Clarifications, DialogueAssumption
<1> QED BY <1>1, DialogueInvariant, PTL
=============================================================================
