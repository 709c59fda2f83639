---------------------------- MODULE MCRefundLedger ----------------------------
(***************************************************************************)
(* Small instances of RefundLedger for TLC.                                *)
(***************************************************************************)
EXTENDS RefundLedger, TLC

(* Both versions carry the evidence a refund needs.                        *)
MCEvidence == [p \in Policies |-> FactIds]

Symmetry == Permutations(Actions) \cup Permutations(Tasks) \cup Permutations(Orders)
              \cup Permutations(Policies)
=============================================================================
