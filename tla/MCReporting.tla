----------------------------- MODULE MCReporting -----------------------------
(* Small instances of Reporting. *)
EXTENDS Reporting
=============================================================================
