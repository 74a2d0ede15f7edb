----------------------------- MODULE Assignment -----------------------------
(***************************************************************************)
(* What the pair promises Main and the human about an assignment, without  *)
(* any of the machinery that keeps the promise: no intents, no queue, no   *)
(* containment, no process.  Work is done under one lease at a time, a     *)
(* lease is granted only to a worker that is not working, what Main        *)
(* reviews is the report of the last lease and stays still meanwhile, and  *)
(* a report held by a pause comes back as that same report.                *)
(***************************************************************************)
EXTENDS Naturals

VARIABLES
  status,     \* open, granted, running, reported, review, held, done
  lease,      \* leases granted so far; the last one
  working,    \* the lease the worker is working under, 0 when it is idle
  reviewed    \* the last lease of this assignment whose report Main was given

vars == <<status, lease, working, reviewed>>

Init == status = "open" /\ lease = 0 /\ working = 0 /\ reviewed = 0

\* a new assignment
Assign ==
  /\ status \in {"open", "done"} /\ working = 0
  /\ status' = "granted" /\ lease' = lease + 1 /\ reviewed' = 0
  /\ UNCHANGED working

\* a decision, an automatic repair or a resume grants the next lease; a held
\* report is never passed over
Renew ==
  /\ status \in {"review", "reported"} \/ (status = "held" /\ reviewed # lease)
  /\ working = 0
  /\ status' = "granted" /\ lease' = lease + 1
  /\ UNCHANGED <<working, reviewed>>

Start == status = "granted" /\ status' = "running" /\ UNCHANGED <<lease, working, reviewed>>

Work ==
  /\ status = "running" /\ working = 0
  /\ working' = lease
  /\ UNCHANGED <<status, lease, reviewed>>

\* the worker ends its run, is aborted, or exits, whatever the status is
Rest == working # 0 /\ working' = 0 /\ UNCHANGED <<status, lease, reviewed>>

Report == status = "running" /\ status' = "reported" /\ UNCHANGED <<lease, working, reviewed>>

Review ==
  /\ status = "reported" /\ working = 0
  /\ status' = "review" /\ reviewed' = lease
  /\ UNCHANGED <<lease, working>>

Hold ==
  /\ status \in {"granted", "running", "reported", "review"}
  /\ status' = "held" /\ UNCHANGED <<lease, working, reviewed>>

Restore ==
  /\ status = "held" /\ reviewed = lease /\ working = 0
  /\ status' = "review" /\ UNCHANGED <<lease, working, reviewed>>

Approve == status = "review" /\ status' = "done" /\ UNCHANGED <<lease, working, reviewed>>

Cancel ==
  /\ status \notin {"open", "done"}
  /\ status' = "done" /\ UNCHANGED <<lease, working, reviewed>>

Next == \/ Assign \/ Renew \/ Start \/ Work \/ Rest \/ Report \/ Review
        \/ Hold \/ Restore \/ Approve \/ Cancel

Spec == Init /\ [][Next]_vars
=============================================================================
