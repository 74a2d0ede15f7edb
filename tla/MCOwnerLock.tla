---------------------------- MODULE MCOwnerLock ----------------------------
(* OwnerLock with three processes of two sessions: p3 reopens p1's session. *)
EXTENDS OwnerLock, TLC
CONSTANTS p1, p2, p3
MCSessionOf == (p1 :> "s1") @@ (p2 :> "s2") @@ (p3 :> "s1")
=============================================================================
