---------------------------- MODULE MCPairLease ----------------------------
(* PairLease on small instances. *)
EXTENDS PairLease
=============================================================================
