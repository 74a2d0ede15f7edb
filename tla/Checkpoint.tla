----------------------------- MODULE Checkpoint -----------------------------
(***************************************************************************)
(* Evidence: what the workspace was when a worker reported, whether the    *)
(* configured checks speak of it, and how long that stays readable.        *)
(*                                                                         *)
(* Nothing stops anyone from writing to the workspace while Pair freezes   *)
(* it.  A capture reads one file after the other; the checks run between   *)
(* captures; blobs, snapshots and the manifest are written one by one; and *)
(* a collection may run beside an operation that was revoked meanwhile.    *)
(* A file has a content, named by a number; a tree maps files to contents, *)
(* a blob is a content, a snapshot a tree.  Content is never written twice *)
(* by a Write (see README: a file put back to an earlier content between   *)
(* two captures is indistinguishable to Pair); the user may put the tree   *)
(* of a report back as a whole, while nothing is being frozen.             *)
(***************************************************************************)
EXTENDS Integers, FiniteSets, Functions

CONSTANTS
  NFiles,         \* files of the workspace, read in their order
  Links,          \* those that are symlinks: their blobs are written in place
  Plan,           \* steps of every task
  NChecks,        \* verification.commands
  RequirePassing, \* verification.requirePassing
  AutoRepairs,    \* control.autoRepairsPerStep
  FreezeAttempts, \* FREEZE_ATTEMPTS
  Retained,       \* RETAINED_TASKS
  MaxTasks, MaxReports, MaxWrites,   \* bounds
  MaxEvents,      \* bound: pauses, restarts, failures and restorations
  MaxSum          \* bound: writes and those together

ASSUME CheckpointAssumption ==
  /\ {NFiles, Plan, FreezeAttempts, MaxTasks} \subseteq Nat \ {0} /\ RequirePassing \in BOOLEAN
  /\ Links \subseteq 1..NFiles
  /\ {NChecks, AutoRepairs, Retained, MaxReports, MaxWrites, MaxEvents, MaxSum} \subseteq Nat

VARIABLES
  tree,      \* the workspace
  store,     \* the evidence on disk: blobs, the half-written (torn) of them, snapshots, manifests
  known,     \* Evidence.knownBlobs
  task,      \* the worker's task
  op,        \* the operation that is freezing the workspace
  deal,      \* a decision between its capture and its transaction
  sweep,     \* the collection, and whether one is queued
  n,         \* counters
  accepted,  \* history: the tree up to which Main has accepted the task
  frozen,    \* history: the checkpoints that were recorded
  seen       \* history: the trees there have been

vars == <<tree, store, known, task, op, deal, sweep, n, accepted, frozen, seen>>

Files    == 1..NFiles
Contents == 0..MaxWrites
Trees    == [Files -> Contents]
Pending  == << >>                  \* base-pending.json: not captured yet
NoOp     == [pc |-> "none"]
NoDeal   == [action |-> "none"]
NoReport == [id |-> 0]
NoTask   == [id |-> 0, status |-> "none"]
Moving   == {"activating", "running", "settling"}
Active   == task.status \in Moving \cup {"waiting", "held"}

-----------------------------------------------------------------------------
(* The store. *)

HasBlob(c) == c \in known \/ c \in store.blobs
\* A capture writes the blobs the store lacks, and knows them all from then on.
Storing(cs) == /\ store' = [store EXCEPT !.blobs = @ \cup {c \in cs : ~HasBlob(c)}]
               /\ known' = known \cup cs
\* The bytes of a symlink go straight to the file named by their hash: a write that does not
\* end leaves it half written, and who asks for that blob again finds it there.
Tears(fs) ==
  \/ UNCHANGED store
  \/ \E f \in Links \cap fs :
       /\ ~HasBlob(tree[f])
       /\ store' = [store EXCEPT !.blobs = @ \cup {tree[f]}, !.torn = @ \cup {tree[f]}]
Stored(t) == t \in store.snaps /\ Range(t) \subseteq store.blobs
\* What inspect reads: the manifest, both snapshots, their blobs.
Inspectable(f) == /\ [task |-> f.task, of |-> f.of, base |-> f.base, tree |-> f.tree] \in store.manifests
                  /\ Stored(f.base) /\ Stored(f.tree)

\* Tasks whose evidence is kept: the current one and the last of the history.
Kept == {i \in 1..n.tasks : i >= task.id - Retained}

-----------------------------------------------------------------------------
(* The workspace changes: the worker, the user, another program. *)

Write ==
  /\ n.writes < MaxWrites /\ n.writes + n.events < MaxSum
  /\ \E f \in Files : tree' = [tree EXCEPT ![f] = n.writes + 1]
  /\ n' = [n EXCEPT !.writes = @ + 1] /\ seen' = seen \cup {tree'}
  /\ UNCHANGED <<store, known, task, op, deal, sweep, accepted, frozen>>

Happens == /\ n.events < MaxEvents /\ n.writes + n.events < MaxSum
           /\ n' = [n EXCEPT !.events = @ + 1]
\* "restore the reported state"
Restore ==
  /\ op.pc = "none" /\ task.status = "waiting" /\ tree # task.report.tree
  /\ tree' = task.report.tree /\ seen' = seen \cup {tree'} /\ Happens
  /\ UNCHANGED <<store, known, task, op, deal, sweep, accepted, frozen>>

-----------------------------------------------------------------------------
(* Freezing.  op.pc is the step to take; op.why what the capture is for;   *)
(* op.acc the files read so far; op.snap the tree to be frozen; op.ran the *)
(* captures around the checks; op.verdict what they said.                  *)

Idle    == sweep.pc = "idle"     \* no transaction is held by the collection
Capture(o, why) == [o EXCEPT !.pc = "capture", !.why = why, !.acc = << >>]
Freeze(kind, of) ==
  /\ op.pc = "none"
  /\ op' = [kind |-> kind, task |-> task.id, of |-> of, base |-> task.base, dead |-> FALSE,
            pc |-> "capture", why |-> "first", acc |-> << >>, snap |-> Pending, verdict |-> "none", ran |-> {},
            checks |-> 0, attempt |-> 1]
  /\ UNCHANGED <<tree, store, known, task, deal, sweep, n, accepted, frozen, seen>>

PrepareBase    == task.status = "activating" /\ task.base = Pending /\ Freeze("base", 0)
FinalizeReport == task.status = "settling" /\ Freeze("report", n.reports)
Fixed          == task.status = "waiting" /\ task.fixing /\ deal = NoDeal /\ Freeze("fix", n.reports)

\* One file of the capture: its blob is stored before the next file is read.
NextFile == Cardinality(DOMAIN op.acc) + 1
ReadFile ==
  /\ op.pc = "capture"
  /\ LET f == NextFile IN
     /\ f \in Files
     /\ op' = [op EXCEPT !.acc = [g \in DOMAIN op.acc \cup {f} |-> IF g = f THEN tree[f] ELSE op.acc[g]]]
     /\ Storing({tree[f]})
  /\ UNCHANGED <<tree, task, deal, sweep, n, accepted, frozen, seen>>

Captured(why) == /\ op.pc = "capture" /\ DOMAIN op.acc = Files /\ op.why = why /\ ~op.dead
                 /\ UNCHANGED <<tree, store, known, task, deal, sweep, n, accepted, frozen, seen>>

Checked(o) == o.kind = "fix" \/ (o.kind = "report" /\ task.kind = "review")

First ==
  /\ Captured("first")
  /\ op' = [op EXCEPT !.snap = op.acc, !.pc = IF Checked(op) /\ NChecks > 0 THEN "check" ELSE "save"]

\* verifyConfigured: every check starts from the state the last capture saw.
RunCheck(ok) ==
  /\ op.pc = "check"
  /\ op' = Capture([op EXCEPT !.ran = @ \cup {op.snap}, !.checks = @ + 1,
                              !.verdict = IF ok /\ @ # "fail" THEN "pass" ELSE "fail"], "after")
  /\ UNCHANGED <<tree, store, known, task, deal, sweep, n, accepted, frozen, seen>>

\* VERIFICATION_SOURCE_DRIFT: the checks stop, the last capture is frozen.
After ==
  /\ Captured("after")
  /\ LET drift == op.acc # op.snap
         o == [op EXCEPT !.snap = op.acc, !.ran = @ \cup {op.acc}, !.verdict = IF drift THEN "fail" ELSE @]
     IN op' = IF ~drift /\ op.checks < NChecks THEN [o EXCEPT !.pc = "check"]
              ELSE IF op.kind = "fix" /\ RequirePassing /\ o.verdict = "fail" THEN NoOp   \* the fix stays open
              ELSE [o EXCEPT !.pc = "save"]

\* saveSnapshot of the tree and of the base, then the manifest.
SaveSnapshots ==
  /\ op.pc = "save"
  /\ op.kind # "base" => op.base \in store.snaps
  /\ store' = [store EXCEPT !.snaps = @ \cup ({op.snap, op.base} \ {Pending})]
  /\ op' = [op EXCEPT !.pc = IF op.kind = "base" THEN "commit" ELSE "manifest"]
  /\ UNCHANGED <<tree, known, task, deal, sweep, n, accepted, frozen, seen>>
\* One directory for every report and every fix: a later manifest replaces an earlier one.
SaveManifest ==
  /\ op.pc = "manifest"
  /\ LET m == [task |-> op.task, of |-> <<op.kind, op.of>>, base |-> op.base, tree |-> op.snap] IN
     store' = [store EXCEPT !.manifests = {x \in @ : x.task # m.task \/ x.of # m.of} \cup {m}]
  /\ op' = Capture(op, "again")
  /\ UNCHANGED <<tree, known, task, deal, sweep, n, accepted, frozen, seen>>

\* Frozen only when the tree is read a second time and is still the same.
AgainUnread ==
  /\ Captured("again")
  /\ op' = [op EXCEPT !.pc = "commit"]
Again ==
  /\ Captured("again") /\ (op.acc # op.snap => op.attempt < FreezeAttempts)
  /\ op' = IF op.acc = op.snap THEN [op EXCEPT !.pc = "commit"]
           ELSE Capture([op EXCEPT !.attempt = @ + 1], "recapture")

\* markDrift: checks that passed do not describe what is frozen now.  A Main fix has no such step.
DriftUnmarked(o) == o
MarkDrift(o) == IF o.kind = "report" /\ o.verdict # "none" THEN [o EXCEPT !.verdict = "fail"] ELSE o
Recaptured == Captured("recapture") /\ op' = MarkDrift([op EXCEPT !.snap = op.acc, !.pc = "save"])

\* A failed operation: the report and the first activation are held, the fix stays open.
Failing == task' = IF op.kind = "fix" THEN task ELSE [task EXCEPT !.status = "held"]
KeptChanging ==
  /\ op.pc = "capture" /\ DOMAIN op.acc = Files /\ op.why = "again" /\ ~op.dead
  /\ op.acc # op.snap /\ op.attempt = FreezeAttempts
  /\ op' = NoOp /\ Failing
  /\ UNCHANGED <<tree, store, known, deal, sweep, n, accepted, frozen, seen>>
\* A file changed under a read, a write failed, the runtime did not become idle, the base
\* could not be read.
FreezeFails ==
  /\ op.pc \in {"capture", "save"} /\ ~op.dead /\ Idle
  /\ Tears(IF op.pc = "capture" THEN {NextFile} ELSE {})
  /\ op' = NoOp /\ Failing /\ Happens
  /\ UNCHANGED <<tree, known, deal, sweep, accepted, frozen, seen>>
\* check(): a revoked operation notices after the step it was in, at the latest when its base is gone.
Revoked ==
  /\ op.pc # "none" /\ op.dead
  /\ op.pc \notin {"save", "manifest"} \/ (op.pc = "save" /\ op.base # Pending /\ op.base \notin store.snaps)
  /\ op' = NoOp
  /\ UNCHANGED <<tree, store, known, task, deal, sweep, n, accepted, frozen, seen>>

Commits(kind) == op.pc = "commit" /\ op.kind = kind /\ ~op.dead /\ Idle /\ op' = NoOp
Recorded == [task |-> op.task, of |-> <<op.kind, op.of>>, base |-> op.base, tree |-> op.snap,
             verdict |-> op.verdict, ran |-> op.ran]
\* The step moves: Main's acceptance reaches the tree it was shown.
AcceptingOldBase(t, last, moves) ==   \* the base stays where it was
  /\ accepted' = t
  /\ task' = IF last THEN [task EXCEPT !.status = "completed", !.fixing = FALSE]
             ELSE [task EXCEPT !.status = "activating", !.why = "decision", !.on = t, !.fixing = FALSE,
                               !.step = IF moves THEN @ + 1 ELSE @]
  /\ sweep' = [sweep EXCEPT !.due = @ \/ last]
Accepting(t, last, moves) ==
  /\ accepted' = t
  /\ task' = IF last THEN [task EXCEPT !.base = t, !.status = "completed", !.fixing = FALSE]
             ELSE [task EXCEPT !.base = t, !.status = "activating", !.why = "decision", !.on = t, !.fixing = FALSE,
                               !.step = IF moves THEN @ + 1 ELSE @, !.repairs = IF moves THEN 0 ELSE @]
  /\ sweep' = [sweep EXCEPT !.due = @ \/ last]

CommitBase ==
  /\ Commits("base")
  /\ task' = [task EXCEPT !.base = op.snap] /\ accepted' = op.snap
  /\ UNCHANGED <<tree, store, known, deal, sweep, n, frozen, seen>>

MayRepair == task.kind = "review" /\ task.repairs < AutoRepairs
Publish ==
  /\ Commits("report") /\ (op.verdict = "fail" => ~MayRepair)
  /\ task' = [task EXCEPT !.status = "waiting", !.report =
               [id |-> op.of, tree |-> op.snap, verdict |-> op.verdict, inspected |-> FALSE]]
  /\ frozen' = frozen \cup {Recorded}
  /\ UNCHANGED <<tree, store, known, deal, sweep, n, accepted, seen>>
\* Back to the worker, on what is in the workspace when it starts; other
\* mechanical reasons than a failed check are left open.
AutoRepair ==
  /\ Commits("report") /\ MayRepair
  /\ task' = [task EXCEPT !.status = "activating", !.why = "repair", !.on = op.snap, !.repairs = @ + 1]
  /\ UNCHANGED <<tree, store, known, deal, sweep, n, accepted, frozen, seen>>
CommitFix ==
  /\ Commits("fix")
  /\ frozen' = frozen \cup {Recorded}
  /\ Accepting(op.snap, task.step = Plan, TRUE)
  /\ UNCHANGED <<tree, store, known, deal, n, seen>>

-----------------------------------------------------------------------------
(* The task. *)

Dispatch ==
  /\ Idle /\ ~Active /\ n.tasks < MaxTasks
  /\ n' = [n EXCEPT !.tasks = @ + 1]
  /\ task' = [id |-> n.tasks + 1, status |-> "activating", why |-> "dispatch", on |-> Pending, step |-> 1,
              base |-> Pending, kind |-> "review", report |-> NoReport, fixing |-> FALSE, repairs |-> 0]
  /\ accepted' = Pending
  /\ UNCHANGED <<tree, store, known, op, deal, sweep, frozen, seen>>

\* The activation's guard captures the tree again, after a decision only.
StillCurrent == task.why = "decision" => tree = task.on
Activate ==
  /\ Idle /\ task.status = "activating" /\ task.base # Pending /\ op.pc = "none"
  /\ Storing(IF task.why = "decision" THEN Range(tree) ELSE {})
  /\ task' = [task EXCEPT !.status = IF StillCurrent THEN "running" ELSE "held"]
  /\ UNCHANGED <<tree, op, deal, sweep, n, accepted, frozen, seen>>

Report(kind) ==
  /\ Idle /\ task.status = "running" /\ n.reports < MaxReports
  /\ n' = [n EXCEPT !.reports = @ + 1]
  /\ task' = [task EXCEPT !.status = "settling", !.kind = kind]
  /\ UNCHANGED <<tree, store, known, op, deal, sweep, accepted, frozen, seen>>

Killed == op' = IF op.pc = "none" THEN op ELSE [op EXCEPT !.dead = TRUE]
Pause ==
  /\ Idle /\ task.status \in Moving /\ Happens
  /\ task' = [task EXCEPT !.status = "held"] /\ Killed
  /\ UNCHANGED <<tree, store, known, deal, sweep, accepted, frozen, seen>>
Resume ==
  /\ Idle /\ task.status = "held"
  /\ task' = [task EXCEPT !.status = "activating", !.why = "resume"]
  /\ UNCHANGED <<tree, store, known, op, deal, sweep, n, accepted, frozen, seen>>
Cancel ==
  /\ Idle /\ Active
  /\ task' = [task EXCEPT !.status = "cancelled", !.fixing = FALSE] /\ Killed /\ deal' = NoDeal
  /\ sweep' = [sweep EXCEPT !.due = TRUE]
  /\ UNCHANGED <<tree, store, known, n, accepted, frozen, seen>>
\* Main's process ends at any point, inside a write too, and starts again: what was in memory
\* is gone.  A capture is that of an operation, of a decision or of the activation after one.
Capturing(f) ==
  \/ op.pc = "capture" /\ f = NextFile
  \/ Idle /\ task.status = "waiting" /\ ~task.fixing
  \/ Idle /\ task.status = "activating" /\ task.why = "decision"
Restart ==
  /\ Happens /\ Tears({f \in Files : Capturing(f)})
  /\ op' = NoOp /\ deal' = NoDeal /\ known' = {} /\ sweep' = [pc |-> "idle", due |-> FALSE]
  /\ task' = IF task.status \in Moving THEN [task EXCEPT !.status = "held"] ELSE task
  /\ UNCHANGED <<tree, accepted, frozen, seen>>

Inspect ==
  /\ Idle /\ task.status = "waiting" /\ Stored(task.report.tree)
  /\ task' = [task EXCEPT !.report.inspected = TRUE]
  /\ UNCHANGED <<tree, store, known, op, deal, sweep, n, accepted, frozen, seen>>

\* decide(): the live tree is captured outside the transaction.
Exact  == {"approve", "repair", "fix"}    \* the workspace must be the reported one
Admissible(action) ==
  /\ action \in {"approve", "fix"} => task.report.inspected /\ task.kind = "review"
  /\ action = "answer" => task.kind = "question"
  /\ action = "repair" => task.report.verdict = "fail"
Refused(action) == \/ action \in Exact /\ tree # task.report.tree
                   \/ action = "approve" /\ RequirePassing /\ task.report.verdict = "fail"
Decide(action) ==
  /\ Idle /\ task.status = "waiting" /\ ~task.fixing /\ deal = NoDeal /\ Admissible(action)
  /\ deal' = IF Refused(action) THEN NoDeal
             ELSE [action |-> IF action \in {"approve", "fix"} THEN action ELSE "continue", live |-> tree]
  /\ Storing(Range(tree))
  /\ UNCHANGED <<tree, task, op, sweep, n, accepted, frozen, seen>>

Settles(action) == Idle /\ deal.action = action /\ deal' = NoDeal
Approve(complete) ==
  /\ Settles("approve")
  /\ Accepting(task.report.tree, complete /\ task.step = Plan, complete)
  /\ UNCHANGED <<tree, store, known, op, n, frozen, seen>>
\* An answer or a revision goes on from the captured tree, and names what changed.
Continue ==
  /\ Settles("continue")
  /\ task' = [task EXCEPT !.status = "activating", !.why = "decision", !.on = deal.live]
  /\ UNCHANGED <<tree, store, known, op, sweep, n, accepted, frozen, seen>>
Fix ==
  /\ Settles("fix")
  /\ task' = [task EXCEPT !.fixing = TRUE]
  /\ UNCHANGED <<tree, store, known, op, sweep, n, accepted, frozen, seen>>

-----------------------------------------------------------------------------
(* Collection: reports, then snapshots, then blobs, in one transaction.    *)

SweepReports ==
  /\ Idle /\ sweep.due
  /\ IF Active THEN sweep' = [sweep EXCEPT !.due = FALSE] /\ UNCHANGED store
     ELSE LET left == {m \in store.manifests : m.task \in Kept} IN
          /\ store' = [store EXCEPT !.manifests = left]
          /\ sweep' = [pc |-> "snaps", due |-> FALSE,
                       live |-> {m.tree : m \in left} \cup {m.base : m \in left} \cup {task.base}
                                \cup (IF task.report = NoReport THEN {} ELSE {task.report.tree})]
  /\ UNCHANGED <<tree, known, task, op, deal, n, accepted, frozen, seen>>
SweepSnapshots ==
  /\ sweep.pc = "snaps"
  /\ store' = [store EXCEPT !.snaps = @ \cap sweep.live]
  /\ sweep' = [pc |-> "blobs", due |-> FALSE, live |-> UNION {Range(t) : t \in store.snaps \cap sweep.live}]
  /\ UNCHANGED <<tree, known, task, op, deal, n, accepted, frozen, seen>>
SweepRemembering ==   \* what is known to be stored is not forgotten
  /\ sweep.pc = "blobs"
  /\ store' = [store EXCEPT !.blobs = @ \cap sweep.live, !.torn = @ \cap sweep.live]
  /\ sweep' = [pc |-> "idle", due |-> FALSE]
  /\ UNCHANGED <<tree, known, task, op, deal, n, accepted, frozen, seen>>
SweepBlobs ==
  /\ sweep.pc = "blobs"
  /\ store' = [store EXCEPT !.blobs = @ \cap sweep.live, !.torn = @ \cap sweep.live] /\ known' = {}
  /\ sweep' = [pc |-> "idle", due |-> FALSE]
  /\ UNCHANGED <<tree, task, op, deal, n, accepted, frozen, seen>>

-----------------------------------------------------------------------------
Init ==
  /\ tree = [f \in Files |-> 0] /\ seen = {tree}
  /\ store = [blobs |-> {}, torn |-> {}, snaps |-> {}, manifests |-> {}] /\ known = {}
  /\ task = NoTask /\ op = NoOp /\ deal = NoDeal /\ sweep = [pc |-> "idle", due |-> FALSE]
  /\ n = [tasks |-> 0, reports |-> 0, writes |-> 0, events |-> 0]
  /\ accepted = Pending /\ frozen = {}

Freezing == \/ ReadFile \/ First \/ \E ok \in BOOLEAN : RunCheck(ok)
            \/ After \/ SaveSnapshots \/ SaveManifest \/ Again \/ Recaptured \/ KeptChanging
            \/ Revoked \/ CommitBase \/ Publish \/ AutoRepair \/ CommitFix
Sweeping == SweepReports \/ SweepSnapshots \/ SweepBlobs
Main     == \/ Inspect \/ Fixed \/ Fix \/ Continue \/ \E c \in BOOLEAN : Approve(c)
            \/ \E a \in Exact \cup {"answer", "revise"} : Decide(a)
People   == Write \/ Restore \/ Dispatch \/ Pause \/ Resume \/ Cancel \/ Restart
Worker   == \E k \in {"review", "question"} : Report(k)
Next     == \/ Freezing \/ Sweeping \/ Main \/ People \/ Worker
            \/ PrepareBase \/ FinalizeReport \/ FreezeFails \/ Activate

Spec == Init /\ [][Next]_vars

-----------------------------------------------------------------------------
Partial  == UNION {[D -> Contents] : D \in SUBSET Files}
Frozen   == {"report", "fix"} \X Nat      \* what a manifest is of
OpType   ==
  [kind : {"base", "report", "fix"}, task : Nat, of : Nat, base : Trees \cup {Pending}, dead : BOOLEAN,
   pc : {"capture", "check", "save", "manifest", "commit"}, why : {"first", "after", "again", "recapture"},
   acc : Partial, snap : Trees \cup {Pending}, verdict : {"none", "pass", "fail"}, ran : SUBSET Trees,
   checks : Nat, attempt : Nat]
ReportType == [id : Nat, tree : Trees, verdict : {"none", "pass", "fail"}, inspected : BOOLEAN]
TaskType ==
  [id : 1..MaxTasks, status : Moving \cup {"waiting", "held", "completed", "cancelled"},
   why : {"dispatch", "repair", "resume", "decision"}, on : Trees \cup {Pending}, step : 1..Plan,
   base : Trees \cup {Pending}, kind : {"review", "question"}, report : ReportType \cup {NoReport},
   fixing : BOOLEAN, repairs : Nat]
SweepType == [pc : {"idle"}, due : BOOLEAN]
        \cup [pc : {"snaps"}, due : {FALSE}, live : SUBSET (Trees \cup {Pending})]
        \cup [pc : {"blobs"}, due : {FALSE}, live : SUBSET Contents]
StoreType == [blobs : SUBSET Contents, torn : SUBSET Contents, snaps : SUBSET Trees,
              manifests : SUBSET [task : Nat, of : Frozen, base : Trees, tree : Trees]]
Counts    == [tasks : 0..MaxTasks, reports : 0..MaxReports, writes : 0..MaxWrites, events : 0..MaxEvents]
RecordType == [task : Nat, of : Frozen, base : Trees, tree : Trees, verdict : {"none", "pass", "fail"},
               ran : SUBSET Trees]

\* Types of every variable.
TypeOK ==
  /\ tree \in Trees /\ seen \subseteq Trees /\ known \subseteq Contents /\ store \in StoreType
  /\ task \in TaskType \cup {NoTask} /\ op \in OpType \cup {NoOp} /\ n \in Counts
  /\ deal \in [action : {"approve", "fix", "continue"}, live : Trees] \cup {NoDeal}
  /\ sweep \in SweepType /\ accepted \in Trees \cup {Pending} /\ frozen \subseteq RecordType

\* A checkpoint is a tree the workspace really was, at one moment, although
\* its files were read one after the other while others wrote to them.
FrozenExisted == \A f \in frozen : f.tree \in seen

\* Checks that passed ran on the tree that is frozen with them: for every
\* report, whatever was written to the workspace before, during and after.
ChecksDescribe == \A f \in frozen : f.of[1] = "report" /\ f.verdict = "pass" => f.ran = {f.tree}

\* Main decides on evidence of a workspace that was there, with the checks that ran on it.
CheckpointsAreReal == FrozenExisted /\ ChecksDescribe

\* What Main is shown starts where its last acceptance ended, so that between
\* the first base and the end no change to the workspace goes unreviewed.
ReviewsTile == task.status = "waiting" =>
  \E f \in frozen : /\ f.task = task.id /\ f.of = <<"report", task.report.id>>
                    /\ f.tree = task.report.tree /\ f.base = accepted

OnlyLinksTorn == store.torn \subseteq {t[f] : t \in seen, f \in Links}
\* Every recorded checkpoint of a retained task, and the base of the current one,
\* has its manifest, its snapshots and all their blobs at every moment: during a
\* collection, after a Main that died in the middle of one, and beside revoked
\* operations.  What of it cannot be read is the target of a symlink, whose blob a
\* failed write or the death of Main left half written (evidence.js:268).
EvidenceKept ==
  /\ OnlyLinksTorn
  /\ \A f \in frozen : f.task \in Kept => Inspectable(f)
  /\ Active /\ task.base # Pending => Stored(task.base)

-----------------------------------------------------------------------------
(* Why they hold: the inductive invariant. *)

Reading(why) == op.pc = "capture" /\ op.why = why
Alive == op # NoOp /\ ~op.dead

\* There is a tree to freeze from the end of the first capture on, and a base to compare it with.
InvStages ==
  op # NoOp => /\ op.snap = Pending => Reading("first")
               /\ op.kind # "base" => op.base # Pending
               /\ op.pc = "manifest" => op.kind # "base"

\* The contents of a file only grow while an operation reads, so that what is read once more and still the same has
\* not changed in between: all files were as captured at the moment the second capture began.
Between(t) == \A f \in Files : /\ op.snap[f] <= t[f] /\ t[f] <= tree[f]
                               /\ f \in DOMAIN op.acc => t[f] <= op.acc[f]
InvReads ==
  /\ tree \in seen /\ \A t \in seen : \A f \in Files : t[f] <= n.writes
  /\ op # NoOp => /\ \A f \in DOMAIN op.acc : op.acc[f] <= tree[f]
                  /\ op.snap # Pending => \A f \in Files : op.snap[f] <= tree[f]
                  /\ Reading("again") => \E t \in seen : Between(t)
                  /\ op.pc = "commit" /\ op.kind # "base" => op.snap \in seen

\* Checks that passed have seen nothing but the tree to be frozen.
InvVerdict ==
  op # NoOp => /\ Reading("first") => op.verdict = "none"
               /\ Reading("after") => op.verdict # "none"
               /\ op.verdict = "none" => op.ran = {}
               /\ op.kind = "report" /\ op.verdict = "pass" => op.ran = {op.snap}

\* An operation that was not revoked is that of the task, at the status it began in.
InvWork ==
  /\ Alive => /\ op.task = task.id /\ op.base = task.base
              /\ op.kind = "base" => task.status = "activating" /\ task.base = Pending
              /\ op.kind = "report" => task.status = "settling" /\ op.of = n.reports
              /\ op.kind = "fix" => task.status = "waiting" /\ task.fixing /\ op.of = n.reports
  /\ deal # NoDeal => task.status = "waiting" /\ ~task.fixing

\* The base of the task is what Main accepted last, and there is one from the activation on.
InvTask ==
  /\ task.id = n.tasks
  /\ task # NoTask => accepted = task.base
  /\ task.status \in {"running", "settling", "waiting"} => task.base # Pending
  /\ task.status = "waiting" => task.report # NoReport

\* Nothing is recorded twice: a manifest that is being written is not that of a recorded checkpoint.
Recorded1(id, kind, of) == \E f \in frozen : f.task = id /\ f.of = <<kind, of>>
InvFresh ==
  /\ \A f \in frozen : f.task <= n.tasks /\ f.of[2] <= n.reports
  /\ op # NoOp => op.task <= n.tasks /\ ~Recorded1(op.task, op.kind, op.of)
  /\ task.status = "settling" => ~Recorded1(task.id, "report", n.reports)
  /\ task.status \in {"settling", "waiting"} => ~Recorded1(task.id, "fix", n.reports)

\* What an operation has read is stored, and what it has saved is still there when it commits.
InvStored ==
  /\ known \subseteq store.blobs
  /\ Alive =>
       /\ Range(op.acc) \subseteq store.blobs /\ (op.snap # Pending => Range(op.snap) \subseteq store.blobs)
       /\ op.pc \in {"manifest", "commit"} \/ Reading("again") => op.snap \in store.snaps
       /\ op.kind # "base" /\ (op.pc = "commit" \/ Reading("again")) =>
            [task |-> op.task, of |-> <<op.kind, op.of>>, base |-> op.base, tree |-> op.snap] \in store.manifests

\* A collection runs while no task does, and spares what the recorded checkpoints of the retained tasks need.
InvSweep ==
  /\ sweep.due => task # NoTask
  /\ sweep.pc # "idle" => ~Active
  /\ \A f \in frozen : f.task \in Kept =>
       /\ sweep.pc = "snaps" => {f.base, f.tree} \subseteq sweep.live
       /\ sweep.pc = "blobs" => Range(f.base) \cup Range(f.tree) \subseteq sweep.live

CheckpointInv ==
  /\ TypeOK /\ InvStages /\ InvReads /\ InvVerdict /\ InvWork /\ InvTask /\ InvFresh /\ InvStored /\ InvSweep
  /\ CheckpointsAreReal /\ ReviewsTile /\ EvidenceKept
=============================================================================
