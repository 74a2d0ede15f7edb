------------------------------ MODULE Records ------------------------------
(***************************************************************************)
(* What Pair retains of a task, and the contract every save of it must     *)
(* meet.                                                                   *)
(*                                                                         *)
(* Every transaction changes the state in memory and then calls persist(), *)
(* which checks the whole of it against contracts.js (validateStoredState) *)
(* before it writes state.json.  A save that is refused throws inside the  *)
(* transaction, after memory has changed; only dispatch puts memory back.  *)
(* From then on memory is a state the contract does not allow, every later *)
(* save is refused as well, and a restart of Main returns to the last      *)
(* state saved.  So the handlers and the contract should agree about every *)
(* state the handlers can reach.  In three places they do not; this module *)
(* names them (StepReplaced, ReportArchived, RepairsOverflow) and checks   *)
(* that there is no fourth.                                                *)
(*                                                                         *)
(* A transaction is one step here: PairLease has their interleavings, and  *)
(* a decision that was overtaken is refused there without a trace.         *)
(***************************************************************************)
EXTENDS Integers, Sequences, FiniteSets

CONSTANTS
  Plan,           \* number of steps a task is dispatched with
  FinalOnly,      \* policy.mode is final-only
  MaxRevisions,   \* effectiveCaps(task).maxRevisions
  PerStep,        \* policy.maxRevisionsPerStep
  MaxReplans,     \* MAX_STEP_REPLANS, and the contract's own limit for it
  AutoRepairs,    \* control.autoRepairsPerStep
  RepairsKept,    \* how many repair entries the contract accepts
  HistoryKept,    \* entries of the worker's history that are retained
  MaxTasks,       \* bound: tasks dispatched
  MaxReports,     \* bound: reports accepted
  MaxIds,         \* bound: step identities Main uses
  Failures,       \* how a step of Pair's own may fail, of AllFailures
  Events,         \* what the user, the worker's process and Main may do, of AllEvents
  MaxEvents       \* bound: how many of those there are

AllFailures == {"activation", "limit", "freeze", "reservation"}
AllEvents   == {"pause", "resume", "stop", "crash", "cancel", "recovery", "restart"}

ASSUME RecordsAssumption ==
  /\ {Plan, MaxIds, MaxTasks, MaxReports} \subseteq Nat \ {0} /\ Plan <= MaxIds
  /\ {MaxRevisions, PerStep, MaxReplans, AutoRepairs, RepairsKept, HistoryKept, MaxEvents} \subseteq Nat
  /\ FinalOnly \in BOOLEAN /\ Events \subseteq AllEvents /\ Failures \subseteq AllFailures

VARIABLES
  mem,     \* the state in memory: the task, the worker's history, the notices
  saved,   \* the state in state.json
  worker,  \* r.status: live, error, stopped
  work,    \* the attempt whose activation is under way, 0 if none
  n        \* how many tasks, attempts, reports and events there have been

recordVars == <<mem, saved, worker, work, n>>

Kinds    == {"question", "blocked", "checkpoint", "final_review"}
Waiting  == {"question", "blocked", "review"}
Unwaiting == {"activating", "running", "awaiting_settle", "interrupted"}
Terminal == {"completed", "cancelled"}
Statuses == Waiting \cup Unwaiting \cup Terminal \cup {"paused"}
Actions  == {"answer", "approve", "revise", "repair", "fixed", "cancel"}

NoReport == [id |-> 0]
NoTask   == [id |-> 0, status |-> "completed"]
NoEntries == << >>                       \* the function with no argument
Adding(f, id, entry) == [x \in DOMAIN f \cup {id} |-> IF x = id THEN entry ELSE f[x]]

Active(t) == t.status \notin Terminal   \* activeTask

\* Types of every variable.
RecordsTypeOK ==
  /\ \A m \in {mem, saved} :
       /\ DOMAIN m = {"task", "history", "notices"}
       /\ m.history \in Seq(1..MaxTasks) /\ Len(m.history) <= HistoryKept
       /\ m.task.id \in 0..MaxTasks /\ m.task.status \in Statuses
       /\ m.task.id # 0 =>
            /\ m.task.prev \in Statuses \cup {"none"} /\ m.task.index \in 1..Len(m.task.steps)
            /\ m.task.report.id \in 0..MaxReports /\ m.task.pending.id \in 0..MaxReports
            /\ \A r \in DOMAIN m.task.decisions : m.task.decisions[r].action \in Actions
       /\ \A r \in DOMAIN m.notices : m.notices[r].status \in {"pending", "resolved", "superseded"}
  /\ worker \in {"live", "error", "stopped"} /\ work \in 0..n.attempts
  /\ n.tasks \in 0..MaxTasks /\ n.reports \in 0..MaxReports /\ n.events \in 0..MaxEvents

RecordsInit ==
  /\ mem = [task |-> NoTask, history |-> << >>, notices |-> NoEntries] /\ saved = mem
  /\ worker = "stopped" /\ work = 0
  /\ n = [tasks |-> 0, attempts |-> 0, reports |-> 0, events |-> 0]

-----------------------------------------------------------------------------
(* The contract (contracts.js), one operator per thing it relates. *)

StepIds(t) == {t.steps[i].id : i \in DOMAIN t.steps}

\* Does the contract hold this report against the attempt the task is at?
Current(t, r, pending) ==
  \/ pending
  \/ /\ r.id \notin DOMAIN t.decisions
     /\ t.status \in Waiting \/ (t.status \in {"paused", "interrupted"} /\ r.attempt = t.attempt)

\* A report is about a step of the plan.
ReportsInPlan(m) == \A r \in {m.task.report, m.task.pending} \ {NoReport} : r.step \in StepIds(m.task)

\* validateTaskReportIdentity, the rest of it
ReportAgrees(t, r, pending) ==
  /\ Current(t, r, pending) \/ r.attempt = t.attempt => r.attempt = t.attempt /\ r.plan = t.plan
  /\ Current(t, r, pending) =>
       /\ r.step = t.steps[t.index].id
       /\ FinalOnly => r.kind # "checkpoint"
       /\ r.kind = "final_review" => FinalOnly \/ t.index = Len(t.steps)

DecisionAgrees(t, r, pending) ==
  r.id \in DOMAIN t.decisions =>
    LET d == t.decisions[r.id] IN
    d.action # "cancel" =>
      /\ d.attempt = r.attempt
      /\ d.action = "answer" => r.kind = "question"
      /\ d.action = "approve" => ~pending /\ r.kind \in {"checkpoint", "final_review"}

ReportsAgree(m) ==
  LET t == m.task IN
  /\ t.report # NoReport => ReportAgrees(t, t.report, FALSE) /\ DecisionAgrees(t, t.report, FALSE)
  /\ t.pending # NoReport => ReportAgrees(t, t.pending, TRUE) /\ DecisionAgrees(t, t.pending, TRUE)
  /\ t.report # NoReport /\ t.pending # NoReport =>
       /\ t.report.id # t.pending.id
       /\ t.report.attempt = t.pending.attempt => t.report.plan = t.pending.plan

LastAgrees(m) ==
  LET t == m.task IN
  t.last.report # 0 => t.last.report \in DOMAIN t.decisions /\ t.decisions[t.last.report].action = t.last.action

FixIsRetained(m) == m.task.fix # 0 => m.task.fix = m.task.report.id

ReplansFit(m) == m.task.replans.index \in DOMAIN m.task.steps /\ m.task.replans.count <= MaxReplans
RepairsFit(m) == m.task.repairs.kept <= RepairsKept

StepsOnce(m) == Cardinality(StepIds(m.task)) = Len(m.task.steps)

\* A task is retained once: in the worker's history or as its task.
HistoryOnce(m) == \A i, j \in DOMAIN m.history : m.history[i] = m.history[j] => i = j
TaskNotEnded(m) == m.task.id \notin {m.history[i] : i \in DOMAIN m.history}
TasksOnce(m) == HistoryOnce(m) /\ TaskNotEnded(m)

NoticesAgree(m) ==
  \A id \in DOMAIN m.notices :
    /\ m.task.id # 0 /\ id \in {m.task.report.id, m.task.pending.id} =>
         LET r == IF m.task.report.id = id THEN m.task.report ELSE m.task.pending IN
         m.notices[id].task = m.task.id /\ m.notices[id].attempt = r.attempt
    /\ m.task.id # 0 /\ id \in DOMAIN m.task.decisions =>
         /\ m.notices[id].task = m.task.id
         /\ m.task.decisions[id].action # "cancel" => m.notices[id].attempt = m.task.decisions[id].attempt

\* validateStoredState
Contract(m) ==
  /\ TasksOnce(m) /\ NoticesAgree(m)
  /\ m.task.id # 0 => /\ StepsOnce(m) /\ ReportsInPlan(m) /\ ReportsAgree(m)
                      /\ LastAgrees(m) /\ FixIsRetained(m) /\ ReplansFit(m) /\ RepairsFit(m)

-----------------------------------------------------------------------------
(* Saving, and the pieces the handlers share. *)

\* persist: memory keeps what the transaction did to it, whether or not it could be saved.
Stored(m) == mem' = m /\ saved' = IF Contract(m) THEN m ELSE saved

Count(what) == n' = [n EXCEPT ![what] = @ + 1]
CountBoth(what, other) == n' = [n EXCEPT ![what] = @ + 1, ![other] = @ + 1]
Event(e) == e \in Events /\ n.events < MaxEvents

\* publishControl: a worker whose new authority could not be published is stopped.
ControlStored(m) ==
  /\ Stored(m)
  /\ worker' = IF Contract(m) \/ worker # "live" THEN worker ELSE "error"
  /\ work' = 0

WithTask(t) == [mem EXCEPT !.task = t]

Notices(m, status) == [m EXCEPT !.notices = [id \in DOMAIN @ |->
  IF @[id].task = m.task.id THEN [@[id] EXCEPT !.status = status] ELSE @[id]]]

\* resume: what is still open is superseded
Superseded(m) == [m EXCEPT !.notices = [id \in DOMAIN @ |->
  IF @[id].task = m.task.id /\ @[id].status # "resolved" THEN [@[id] EXCEPT !.status = "superseded"] ELSE @[id]]]

MayStart == worker # "error"                                \* reserveStart

\* rotateAttempt; the reserved activation starts only if the save succeeds.
NotRotated(t) == [t EXCEPT !.status = "activating"]
Rotated(t) == [t EXCEPT !.attempt = n.attempts + 1, !.status = "activating"]
ActivatesUnsaved(m) == Stored(m) /\ worker' = "live" /\ work' = m.task.attempt
Activates(m) ==
  /\ Stored(m) /\ worker' = "live"
  /\ work' = IF Contract(m) THEN m.task.attempt ELSE 0

Interrupted(t) == IF t.status \in Unwaiting THEN [t EXCEPT !.status = "interrupted"] ELSE t

-----------------------------------------------------------------------------
(* A task and the activation of its attempts. *)

NewTask(id, attempt) ==
  [id |-> id, status |-> "activating", prev |-> "none",
   steps |-> [i \in 1..Plan |-> [id |-> i, text |-> 1]], index |-> 1, plan |-> 1,
   attempt |-> attempt, pending |-> NoReport, report |-> NoReport, decisions |-> NoEntries,
   last |-> [report |-> 0, action |-> "none"], fix |-> 0, revisions |-> 0, stepRevisions |-> 0,
   replans |-> [index |-> 1, count |-> 0], repairs |-> [step |-> 1, used |-> 0, kept |-> 0]]

\* Ended tasks leave the notices that were settled (archiveNotices) and enter the history.
Archived(m) ==
  LET waiting == {id \in DOMAIN m.notices : m.notices[id].status = "pending"}
  IN  [m EXCEPT !.notices = [id \in waiting |-> m.notices[id]]]
RetainedIn(history, id) ==
  LET all == Append(history, id) IN SubSeq(all, IF Len(all) > HistoryKept THEN Len(all) - HistoryKept + 1 ELSE 1, Len(all))
Succeeded(m, t) ==
  [m EXCEPT !.task = t, !.history = IF m.task.id = 0 THEN @ ELSE RetainedIn(@, m.task.id)]

\* dispatch: the one handler that puts memory back when the save is refused (the archived notices aside).
DispatchTask ==
  LET m == Succeeded(Archived(mem), NewTask(n.tasks + 1, n.attempts + 1)) IN
  /\ ~Active(mem.task) /\ MayStart /\ n.tasks < MaxTasks
  /\ CountBoth("tasks", "attempts")
  /\ IF Contract(m)
     THEN Stored(m) /\ worker' = "live" /\ work' = m.task.attempt
     ELSE mem' = Archived(mem) /\ UNCHANGED <<saved, worker, work>>

WorkCurrent == work # 0 /\ mem.task.attempt = work /\ mem.task.status = "activating" /\ worker = "live"

\* activate: the attempt is granted and saved before the prompt is sent.
Grant ==
  LET m == WithTask([mem.task EXCEPT !.status = "running"]) IN
  /\ WorkCurrent
  /\ IF Contract(m) THEN Stored(m) /\ worker' = worker
                    ELSE mem' = WithTask(Interrupted(m.task)) /\ worker' = "error" /\ UNCHANGED saved
  /\ work' = 0 /\ UNCHANGED n

\* activate: a limit is reached, nothing is sent; previousStatus is left as it was.
HoldsAtLimit ==
  /\ "limit" \in Failures /\ WorkCurrent
  /\ Stored(WithTask([mem.task EXCEPT !.status = "paused"]))
  /\ work' = 0 /\ UNCHANGED <<worker, n>>

\* activationFailed: the attempt is held, the worker stopped.
ActivationFails ==
  /\ "activation" \in Failures /\ WorkCurrent
  /\ Stored(WithTask(Interrupted(mem.task))) /\ worker' = "error"
  /\ work' = 0 /\ UNCHANGED n

-----------------------------------------------------------------------------
(* Reports: accepted, frozen, sent back or published, inspected. *)

\* acceptReport
Accept(kind, complete) ==
  LET t == mem.task
      r == [id |-> n.reports + 1, kind |-> kind, attempt |-> t.attempt, plan |-> t.plan,
            step |-> t.steps[t.index].id, complete |-> complete, inspected |-> FALSE] IN
  /\ t.status = "running" /\ worker = "live" /\ n.reports < MaxReports
  /\ FinalOnly => kind # "checkpoint"
  /\ kind = "final_review" => FinalOnly \/ t.index = Len(t.steps)
  /\ t.pending = NoReport
  /\ t.report # NoReport => t.report.attempt # t.attempt
  /\ ControlStored(WithTask([t EXCEPT !.pending = r, !.status = "awaiting_settle"]))
  /\ Count("reports")

Freezing == mem.task.status = "awaiting_settle" /\ mem.task.pending # NoReport /\ worker = "live"

StatusFor(kind) == IF kind \in {"question", "blocked"} THEN kind ELSE "review"

\* finalizeReport: the report is published and Main notified.
Publishes(t) ==
  LET r == t.pending IN
  [mem EXCEPT !.task = [t EXCEPT !.report = r, !.pending = NoReport, !.status = StatusFor(r.kind)],
              !.notices = Adding(@, r.id, [task |-> t.id, attempt |-> t.attempt, status |-> "pending"])]
PublishReport ==
  /\ Freezing
  /\ Stored(Publishes(mem.task))
  /\ UNCHANGED <<worker, work, n>>

\* watchdogFor: the automatic repairs of the step, and how many of their entries are carried over.
RepairsUsed(t) == IF t.repairs.step = t.index THEN t.repairs.used ELSE 0
RepairEntries(t) ==
  IF t.repairs.step # t.index THEN 0 ELSE IF t.repairs.kept > RepairsKept THEN RepairsKept ELSE t.repairs.kept
Booked(t, more) == [step |-> t.index, used |-> RepairsUsed(t) + more, kept |-> RepairEntries(t) + more]   \* setWatchdog
Repairing(t) == [t EXCEPT !.repairs = Booked(t, 1), !.pending = NoReport]
MayRepair(t) == t.pending.kind \in {"checkpoint", "final_review"} /\ t.pending.complete
                /\ RepairsUsed(t) < AutoRepairs                               \* planAutoRepair

\* finalizeReport: Pair sends a mechanical failure back itself.
AutoRepair ==
  /\ Freezing /\ MayRepair(mem.task)
  /\ Activates(WithTask(Rotated(Repairing(mem.task)))) /\ Count("attempts")

\* The same, but the worker could not be reserved: memory has changed and is not saved.
AutoRepairRefused ==
  /\ "reservation" \in Failures /\ Freezing /\ MayRepair(mem.task)
  /\ mem' = WithTask(Repairing(mem.task))
  /\ UNCHANGED <<saved, worker, work, n>>

\* finalizeReport: the checkpoint could not be frozen; the report stays pending.
Unfrozen ==
  /\ "freeze" \in Failures /\ Freezing
  /\ ControlStored(WithTask([mem.task EXCEPT !.status = "interrupted"])) /\ UNCHANGED n

\* inspect, the summary
Inspect ==
  /\ mem.task.id # 0 /\ mem.task.report # NoReport /\ ~mem.task.report.inspected
  /\ mem.task.status \in Waiting
  /\ Stored(WithTask([mem.task EXCEPT !.report.inspected = TRUE]))
  /\ UNCHANGED <<worker, work, n>>

-----------------------------------------------------------------------------
(* Decisions. *)

\* decide: what every decision needs.
MayDecideAgain(action) ==
  /\ mem.task.status \in Waiting /\ mem.task.report # NoReport
  /\ mem.task.fix # 0 => action \in {"fixed", "cancel"}
MayDecide(action) ==
  LET t == mem.task IN
  /\ t.status \in Waiting /\ t.report # NoReport
  /\ t.report.id \notin DOMAIN t.decisions
  /\ t.fix # 0 => action \in {"fixed", "cancel"}

Finishes(t) == t.report.kind = "final_review" \/ (t.report.complete /\ t.index = Len(t.steps))

\* The decision on the report; "at" and "moved" are history: which step it ended, if it did.
Verdict(t, action) ==
  [action |-> action, attempt |-> t.attempt, at |-> t.index,
   moved |-> action = "fixed" \/ (action = "approve" /\ (t.report.complete \/ Finishes(t)))]
Decided(t, action) ==
  [t EXCEPT !.decisions = Adding(@, t.report.id, Verdict(t, action)),
            !.last = [report |-> t.report.id, action |-> action]]
Resolved(m) == [m EXCEPT !.notices = [id \in DOMAIN @ |->
  IF id = m.task.report.id THEN [@[id] EXCEPT !.status = "resolved"] ELSE @[id]]]
Continues(t) == Activates(Resolved(WithTask(Rotated(t)))) /\ Count("attempts")

NextStep(t) == [t EXCEPT !.index = @ + 1, !.stepRevisions = 0]
Completed(t) == Stored(Resolved(WithTask([t EXCEPT !.status = "completed"]))) /\ work' = 0 /\ UNCHANGED <<worker, n>>

\* answer, and repair
SendBack(action) ==
  /\ MayDecide(action) /\ MayStart
  /\ action = "answer" => mem.task.report.kind = "question"
  /\ action = "repair" => mem.task.status \in {"review", "blocked"}
  /\ Continues(Decided(mem.task, action))

MayApprove(t) == t.status = "review" /\ t.report.inspected
Approve ==
  LET t == Decided(mem.task, "approve") IN
  /\ MayDecide("approve") /\ MayApprove(mem.task)
  /\ IF Finishes(mem.task) THEN Completed(t)
     ELSE MayStart /\ Continues(IF mem.task.report.complete THEN NextStep(t) ELSE t)

\* The plans a revise may carry: the current step kept, reworded, replaced or split in two, the later ones kept or dropped.
After(t) == SubSeq(t.steps, t.index + 1, Len(t.steps))
Before(t) == SubSeq(t.steps, 1, t.index - 1)
FreshIds(t) == (1..MaxIds) \ StepIds(t)
NewSteps(t) ==
  LET here == t.steps[t.index] IN
  {<<here>>, <<[here EXCEPT !.text = 3 - @]>>}
  \cup {<<[id |-> id, text |-> 1]>> : id \in FreshIds(t)} \cup {<<here, [id |-> id, text |-> 1]>> : id \in FreshIds(t)}
NewPlans(t) == {Before(t) \o new \o after : new \in NewSteps(t), after \in {After(t), << >>}}

Replans(t, steps) == steps[t.index] # t.steps[t.index]      \* replansCurrentStep
ReplansSpent(t) == IF t.replans.index = t.index THEN t.replans.count ELSE 0
\* Past the limit of its step, a revise needs a re-plan, which is counted before anything else.
AtStepLimit(t) == t.stepRevisions >= PerStep
CountedReplan(t) == IF AtStepLimit(t) THEN [t EXCEPT !.replans = [index |-> t.index, count |-> ReplansSpent(t) + 1]] ELSE t
MayRevise(t, steps) ==
  /\ t.revisions < MaxRevisions
  /\ AtStepLimit(t) => Replans(t, steps) /\ ReplansSpent(t) < MaxReplans

Revised(t, steps) ==
  [Decided(t, "revise") EXCEPT !.revisions = @ + 1,
     !.stepRevisions = IF Replans(t, steps) THEN 0 ELSE @ + 1,
     !.steps = steps, !.plan = IF steps = t.steps THEN @ ELSE @ + 1]
Revise ==
  /\ MayDecide("revise")
  /\ \E steps \in NewPlans(mem.task) :
    /\ MayRevise(mem.task, steps)
    /\ IF MayStart THEN Continues(Revised(CountedReplan(mem.task), steps))
       ELSE mem' = WithTask(CountedReplan(mem.task)) /\ UNCHANGED <<saved, worker, work, n>>

\* fix: Main takes the step over.
Fix ==
  /\ MayDecide("fix") /\ mem.task.status \in {"review", "blocked"} /\ mem.task.report.inspected
  /\ Stored(WithTask([mem.task EXCEPT !.fix = mem.task.report.id]))
  /\ UNCHANGED <<worker, work, n>>

\* completeMainFix: the decision and the next step are in memory before the worker is reserved.
FixedTask(t) == [Decided(t, "fixed") EXCEPT !.fix = 0]
Fixed ==
  LET t == FixedTask(mem.task) IN
  /\ MayDecide("fixed") /\ mem.task.fix = mem.task.report.id
  /\ IF t.index = Len(t.steps) THEN Completed(t)
     ELSE LET moved == [NextStep(t) EXCEPT !.replans = [index |-> 1, count |-> 0]] IN
          IF MayStart THEN Continues(moved)
          ELSE mem' = Resolved(WithTask(moved)) /\ UNCHANGED <<saved, worker, work, n>>

\* cancelUnlocked, by the user or as a decision
Cancelled(t) == ControlStored(Notices(WithTask([t EXCEPT !.status = "cancelled"]), "resolved"))
DecideCancel ==
  /\ MayDecide("cancel")
  /\ Cancelled([mem.task EXCEPT !.decisions = Adding(@, mem.task.report.id, Verdict(mem.task, "cancel"))])
  /\ UNCHANGED n

Decide == \/ \E a \in {"answer", "repair"} : SendBack(a)
          \/ Approve \/ Revise \/ Fix \/ Fixed \/ DecideCancel

-----------------------------------------------------------------------------
(* The user, the worker's process, and a restart of Main. *)

Cancel ==
  /\ Event("cancel") /\ Active(mem.task)
  /\ Cancelled(mem.task) /\ Count("events")

\* pauseUnlocked
Pause ==
  /\ Event("pause") /\ Active(mem.task)
  /\ ControlStored(WithTask([mem.task EXCEPT !.prev = IF mem.task.status = "paused" THEN @ ELSE mem.task.status,
                                     !.status = "paused"]))
  /\ Count("events")

\* The process faults or exits: interrupt
ProcessEnds ==
  /\ Event("crash") /\ worker = "live" /\ mem.task.id # 0
  /\ Stored(WithTask(Interrupted(mem.task))) /\ worker' = "error"
  /\ work' = 0 /\ Count("events")

\* stopReserved; reconcile. Both saves must succeed for the worker to be recorded as stopped.
Stop ==
  LET m == WithTask(Interrupted(mem.task)) IN
  /\ Event("stop") /\ worker # "stopped"
  /\ Stored(m) /\ worker' = IF Contract(m) THEN "stopped" ELSE "error"
  /\ work' = 0 /\ Count("events")

RestoredKeepingPrevious(t) == [t EXCEPT !.status = t.prev]
RestoredTask(t) == [t EXCEPT !.status = t.prev, !.prev = "none"]
Restorable(t) == t.report # NoReport /\ t.pending = NoReport /\ t.prev \in Waiting
Resumed(m) ==
  LET t == m.task IN
  Superseded([m EXCEPT !.task = Rotated([t EXCEPT !.pending = NoReport]),
                       !.history = IF t.pending = NoReport THEN @ ELSE RetainedIn(@, t.id)])
Resume ==
  /\ Event("resume") /\ mem.task.status \in {"paused", "interrupted"}
  /\ IF Restorable(mem.task)
     THEN /\ Stored(WithTask(RestoredTask(mem.task)))
          /\ UNCHANGED <<worker, work>> /\ Count("events")
     ELSE /\ MayStart /\ Activates(Resumed(mem)) /\ CountBoth("events", "attempts")

\* autoRecover: the recovery is counted and saved before the worker is stopped and the task resumed.
BookRecovery ==
  /\ Event("recovery") /\ mem.task.status = "interrupted"
  /\ Stored(WithTask([mem.task EXCEPT !.repairs = Booked(mem.task, 0)]))
  /\ UNCHANGED <<worker, work>> /\ Count("events")

\* init: a task that was under way is held; one paused while it waited for Main stays so.
RestartedAfresh(t) ==
  IF t.status \in {"activating", "running", "awaiting_settle"} \/ (t.status = "paused" /\ t.prev \notin Waiting)
  THEN [t EXCEPT !.status = "interrupted", !.attempt = n.attempts + 1] ELSE t
Restarted(t) ==
  IF t.status \in {"activating", "running", "awaiting_settle"} \/ (t.status = "paused" /\ t.prev \notin Waiting)
  THEN [t EXCEPT !.status = "interrupted"] ELSE t
LoadedState == [saved EXCEPT !.task = Restarted(@)]
Restart ==
  /\ Event("restart")
  /\ Stored(LoadedState) /\ work' = 0 /\ Count("events")
  /\ \E w \in {"stopped", "error"} : worker' = IF worker = "stopped" THEN worker ELSE w

RecordsNext ==
  \/ DispatchTask \/ Grant \/ HoldsAtLimit \/ ActivationFails
  \/ \E kind \in Kinds, complete \in BOOLEAN : Accept(kind, complete)
  \/ PublishReport \/ AutoRepair \/ AutoRepairRefused \/ Unfrozen \/ Inspect
  \/ Decide \/ Cancel \/ Pause \/ ProcessEnds \/ Stop \/ Resume \/ BookRecovery \/ Restart

RecordsSpec == RecordsInit /\ [][RecordsNext]_recordVars

-----------------------------------------------------------------------------
(* Properties. *)

\* The contract refuses what three handlers leave in memory.  A revise replaces or removes the step the report it
\* decides is about (contracts.js 545; the report is kept until the next one):
StepReplaced(t) == t.report.id \in DOMAIN t.decisions /\ t.decisions[t.report.id].action = "revise"
\* resume puts a report aside that could not be frozen and lists its task as ended (controller.js 2799-2804, contracts.js
\* 838-844), while the report is still pending on disk:
ReportArchived ==
  mem.task.pending = NoReport /\ saved.task.id = mem.task.id /\ saved.task.pending # NoReport
\* and a step repaired more often than repairs are retained has one entry too many (contracts.js 660), which takes
\* control.autoRepairsPerStep above that number:
RepairsOverflow(t) ==
  t.repairs.kept = RepairsKept + 1 /\ RepairsKept < t.repairs.used /\ t.repairs.used <= AutoRepairs

\* Whatever handlers ran, and whether or not their saves went through, memory meets the whole contract of a task
\* (checkStoredTask and checkRetainedReferences, contracts.js 581-682 and 812-891), but for these three: reports, decisions,
\* the last decision, a Main fix, the plan, the counters, the history and the notices agree about who produced what.
RecordsAgree ==
  /\ NoticesAgree(mem) /\ HistoryOnce(mem)
  /\ mem.task.id # 0 =>
       /\ StepsOnce(mem) /\ ReportsAgree(mem) /\ LastAgrees(mem) /\ FixIsRetained(mem) /\ ReplansFit(mem)
       /\ ReportsInPlan(mem) \/ StepReplaced(mem.task)
       /\ TaskNotEnded(mem) \/ ReportArchived
       /\ RepairsFit(mem) \/ RepairsOverflow(mem.task)

\* Main can always be restarted: what init makes of any state that was saved is again a state that may
\* be saved (controller.js 319-357), so a Pair that refuses its own saves is one restart from working.
LoadsAgain == Contract(LoadedState)

\* In memory and on disk, every step behind the current one, and every step of a completed plan, was
\* approved or fixed by exactly one decision: no interruption, restart or refused save makes the plan
\* skip a step or count one twice (decide, controller.js 2395-2416; completeMainFix 2494-2521).
EndedAt(t, i) == {r \in DOMAIN t.decisions : t.decisions[r].moved /\ t.decisions[r].at = i}
StepsEndedOnce ==
  \A m \in {mem, saved} : m.task.id # 0 /\ ~FinalOnly =>
    \A i \in DOMAIN m.task.steps :
      Cardinality(EndedAt(m.task, i)) = IF i < m.task.index \/ m.task.status = "completed" THEN 1 ELSE 0

\* The attempt the worker is started or running on is the one state.json names, so a restart knows of it;
\* and a task left activating with nothing under way (decide and finalizeReport, controller.js 2413 and
\* 1873) is one whose state the contract refuses, never one that was saved.
ActivationsAreSaved ==
  /\ work # 0 \/ mem.task.status = "running" =>
       saved.task.id = mem.task.id /\ saved.task.attempt = mem.task.attempt
  /\ mem.task.status = "activating" /\ work = 0 => ~Contract(mem)

\* Main is not asked twice: a task waits on a decided report only when a Main fix could not continue with
\* its worker (completeMainFix, controller.js 2509-2519), whatever was paused, restored or restarted.
DecidedMovesOn ==
  mem.task.status \in Waiting /\ mem.task.report.id \in DOMAIN mem.task.decisions =>
    mem.task.decisions[mem.task.report.id].action = "fixed"

\* A decision ends its step, and its step has no other.
DecisionsCountOnce == StepsEndedOnce /\ DecidedMovesOn
=============================================================================
