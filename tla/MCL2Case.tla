------------------------------- MODULE MCL2Case -------------------------------
(* L2Case with two previews and two model calls per case.                 *)
EXTENDS L2Case

=============================================================================
