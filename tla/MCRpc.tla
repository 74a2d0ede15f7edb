------------------------------- MODULE MCRpc -------------------------------
(* Rpc with the requests of a run (its prompt, a steer and a liveness ping) and a dialog. *)
EXTENDS Rpc, TLC
MCRun == ("prompt" :> "prompt") @@ ("steer" :> "steer") @@ ("ping" :> "get_state")

(* bound: the prompt and the answer to the dialog, the steer or the ping are followed to *)
(* the end; more of them together, until one is late, revoked or written or a stop runs  *)
Used == {f \in Callers \cup Dialogs : outcome[f] # "new" \/ f \in fenced}
Together ==
  /\ "ping" \notin Used /\ fenced = {} /\ due = {} /\ written = {} /\ stop \in {"none", "called"}
FewAtOnce ==
  \/ Used \subseteq {"prompt", "dialog"} \/ Used \subseteq {"steer"} \/ Used \subseteq {"ping"}
  \/ Together
=============================================================================
