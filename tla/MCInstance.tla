------------------------------ MODULE MCInstance ------------------------------
(* Instance with two processes, interchangeable, that fight for the lock,   *)
(* and the rows of a database that was used before its upgrade.             *)
EXTENDS Instance, TLC

Conversation(guest, order, active, at) ==
  [guest |-> guest, order |-> order, active |-> active, at |-> at]
Event(id, step, at) == [id |-> id, step |-> step, at |-> at, seq |-> NoSeq]

\* Two tasks of one order written in the same second, an older one, one of
\* another order, one without an order, one archived and one of a guest.
UsedRows ==
  [conversations |->
     <<Conversation(FALSE, "o1", TRUE, 2), Conversation(FALSE, "o1", TRUE, 2),
       Conversation(FALSE, "o1", TRUE, 1), Conversation(FALSE, "o2", TRUE, 1),
       Conversation(FALSE, NoOrder, TRUE, 2), Conversation(FALSE, "o1", FALSE, 3),
       Conversation(TRUE, NoOrder, TRUE, 1)>>,
   events |-> <<{Event(1, 2, 1), Event(2, 1, 2), Event(3, 1, 1), Event(4, 1, 1)}, {}>>]

Interchangeable == Permutations(Procs)
=============================================================================
