----------------------------- MODULE MCSettings -----------------------------
(* Settings with two sessions and the files they may find. *)
EXTENDS Settings, TLC

CONSTANTS s1, s2

Missing == [canon |-> NoFile, legacy |-> NoFile, baks |-> {}]
Current(layer) == [Missing EXCEPT !.canon = [kind |-> "v2", layer |-> layer]]
Shipped == [Missing EXCEPT !.canon = [kind |-> "v1", layer |-> ("enabled" :> 1) @@ ("limit" :> 1)]]
Handoff == [Missing EXCEPT !.legacy = [kind |-> "handoff", layer |-> ("enabled" :> 1) @@ ("limit" :> 1)]]
On == "enabled" :> 1

Files(g, p) == ("global" :> g) @@ ("project" :> p)
AnyFiles == {Files(Current(On), Missing), Files(Current(On), Current("low" :> 1)),
             Files(Shipped, Missing), Files(Handoff, Current(On))}
Symmetry == Permutations(Session)
=============================================================================
