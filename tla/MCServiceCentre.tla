--------------------------- MODULE MCServiceCentre ----------------------------
(***************************************************************************)
(* A small instance of ServiceCentre for TLC.                              *)
(***************************************************************************)
EXTENDS ServiceCentre, TLC

CONSTANTS o1, a1, a2, c1

MCEvidence == [p \in Policies |-> FactIds]
MCRank == (c1 :> 1) @@ (a1 :> 2) @@ (a2 :> 3) @@ (o1 :> 4)
=============================================================================
