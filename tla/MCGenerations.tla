--------------------------- MODULE MCGenerations ---------------------------
(* Generations with interchangeable workers and two calls at a time: any call, and *)
(* beside it the start of a worker. *)
EXTENDS Generations, TLC

CONSTANTS s1, s2

BesideStart == (s1 :> AllKinds) @@ (s2 :> {"start"})
Recoveries == (s1 :> {"dispatch", "recover"}) @@ (s2 :> {"dispatch", "recover"})

(* bound: in the session after Main's death calls come one at a time *)
OneLater == epoch = 1 \/ job[s2] = Idle

Symmetry == Permutations(Worker)
============================================================================
