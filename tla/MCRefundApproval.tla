--------------------------- MODULE MCRefundApproval ---------------------------
(***************************************************************************)
(* Small instances of RefundApproval for TLC.                              *)
(***************************************************************************)
EXTENDS RefundApproval, TLC

MCEvidence == [p \in Policies |-> FactIds]

ActionSymmetry == Permutations(Actions)
Symmetry == ActionSymmetry \cup Permutations(Tasks) \cup Permutations(Policies)
=============================================================================
