------------------------------ MODULE PairLease ------------------------------
(***************************************************************************)
(* The life of one assignment on one worker: what PairController and the   *)
(* PiRuntime it owns do between pair_dispatch and the end of the task.     *)
(*                                                                         *)
(* Every attempt at a step holds a lease.  A lease is revoked by bumping   *)
(* the worker's intent, synchronously and outside the controller's queue   *)
(* of transactions; everything that was started under an older intent must *)
(* notice before it takes effect.  Each action below is one transaction    *)
(* (they are serialised), one step between two awaits of a job that runs   *)
(* outside the queue, or one event of the worker process.                  *)
(***************************************************************************)
EXTENDS Integers, FiniteSets

CONSTANTS
  ReportKinds,   \* the waiting statuses a report of this run may lead to
  Callers,       \* which of pause, cancel, stop the human calls in this run
  IdleCalls,     \* bound: also when there is no task to act on
  Watchdog,      \* control.watchdog: automatic recovery is on
  MaxLease,      \* bound: leases ever granted
  MaxGen,        \* bound: worker processes ever launched
  MaxIntent      \* bound: pause, cancel and stop calls end once intent is there

Waiting == {"question", "review", "blocked"}

ASSUME LeaseAssumption ==
  /\ ReportKinds \subseteq Waiting
  /\ Callers \subseteq {"pause", "cancel", "stop"}
  /\ Watchdog \in BOOLEAN /\ IdleCalls \in BOOLEAN
  /\ MaxLease \in Nat /\ MaxGen \in Nat /\ MaxIntent \in Nat

VARIABLES
  \* TaskRecord (0 stands for an absent lease or report)
  phase,       \* task.status, "none" before the first dispatch
  lease,       \* attemptId/leaseId: both are fresh together, so one number
  previous,    \* task.previousStatus
  pausedBy,    \* task.pausedBy, "none" when absent
  pending,     \* the lease whose report is task.pendingReport
  report,      \* the lease whose report is task.report
  \* WorkerRecord
  refused,     \* history names the current task: the contract refuses every save
  worker,      \* record.status; "unproven" is error with EXIT_UNCONFIRMED
  gen,         \* record.workerGeneration
  \* PairController
  intent,      \* intents.get(id)
  serial,      \* the transaction that holds the queue across an await
  works,       \* activation jobs: startReserved, activate
  contains,    \* containment and stop jobs
  requests,    \* pause, cancel and stop calls whose transaction is queued
  freeze,      \* finalizeReport's reservation (verificationAbort)
  decision,    \* decide()'s reservation
  recover,     \* progress of an automatic recovery
  \* PiRuntime and the bookkeeping kept beside it
  rt,          \* none, cold (not ready), barred (#revokedStartup), live, fault, closed
  act,         \* #activation: its lease and stage
  actIntent,   \* data.activationIntent
  controls,    \* data.pendingControls
  settled,     \* settledSequence > task.dispatchSettleSequence
  aborting,    \* an abort (or the settling of an accepted report) is in progress
  \* the worker process and the files it shares with the controller
  run,         \* the lease whose prompt the process is working on
  draft,       \* the lease a pair_report call in progress was authorized for
  latch,       \* the lease of the report last retained in latch.json and inbox/
  authority    \* authority.json

taskVars    == <<phase, lease, previous, pausedBy, pending, report, refused>>
workerVars  == <<worker, gen>>
runtimeVars == <<rt, act, actIntent, controls, settled, aborting>>
procVars    == <<run, draft, latch>>
vars == <<taskVars, workerVars, intent, serial, works, contains, requests, freeze,
          decision, recover, runtimeVars, procVars, authority>>

Statuses == {"none", "activating", "running", "awaiting_settle", "paused",
             "interrupted", "completed", "cancelled"} \cup Waiting
Failed   == {"error", "unproven"}
Free       == [op |-> "free", intent |-> 0, by |-> "none"]
NoActivation == [lease |-> 0, stage |-> "none"]
NoFreeze   == [lease |-> 0, intent |-> 0]
NoDecision == [action |-> "none", lease |-> 0, intent |-> 0, gen |-> 0]

Work    == [lease : Nat, intent : Nat, gen : Nat, by : {"human", "main", "auto"},
            pc : {"start", "prepare", "grant", "write", "written", "attempt",
                  "prompt", "ack", "failed"}]
Control == [op : {"abort", "kill", "stop"}, intent : Nat, gen : Nat,
            by : {"human", "auto", "scan", "work"}, pc : {"begin", "wait"}]
Request == [op : {"pause", "cancel", "stop"}, intent : Nat, by : {"human", "auto"}]

\* Types of every variable.
TypeOK ==
  /\ phase \in Statuses /\ previous \in Statuses
  /\ lease \in Nat /\ pending \in Nat /\ report \in Nat
  /\ pausedBy \in {"none", "human"} /\ refused \in BOOLEAN
  /\ worker \in {"stopped", "starting", "ready", "working", "settling", "paused"}
               \cup Failed \cup Waiting
  /\ gen \in Nat /\ intent \in Nat
  /\ serial \in [op : {"free", "grant"}, intent : Nat, by : {"none"}]
       \cup [op : {"dispatch", "resume", "continue"}, intent : Nat,
             by : {"human", "main", "auto"}]
  /\ works \subseteq Work /\ contains \subseteq Control
  /\ requests \subseteq Request
  /\ freeze \in [lease : Nat, intent : Nat]
  /\ decision \in [action : {"none", "approve", "continue", "cancel"},
                   lease : Nat, intent : Nat, gen : Nat]
  /\ recover \in {"none", "due", "decided", "stopping", "resume"}
  /\ rt \in {"none", "cold", "barred", "live", "fault", "closed"}
  /\ act \in [lease : Nat, stage : {"none", "reserved", "prepared", "attempted",
                                    "accepted", "settled"}]
  /\ actIntent \in Nat /\ controls \in Int
  /\ settled \in BOOLEAN /\ aborting \in BOOLEAN
  /\ run \in Nat /\ draft \in Nat /\ latch \in Nat
  /\ authority \in [phase : {"running", "waiting", "paused", "idle", "stopped"},
                    lease : Nat]

-----------------------------------------------------------------------------
(* What the guards of the code ask. *)

Active      == phase \notin {"none", "completed", "cancelled"}
HumanPaused == pausedBy = "human"
Idle        == serial = Free
Prompting   == \E w \in works : w.pc = "ack" /\ w.gen = gen   \* #promptPending

LaunchCurrent(w) == rt # "none" /\ w.gen = gen /\ w.intent = intent
WorkCurrent(w)   == /\ LaunchCurrent(w) /\ w.lease = lease
                    /\ phase \in {"activating", "running"}
\* requireWork: the runtime still holds this very activation and answers for it
RequireWork(w)   == /\ WorkCurrent(w) /\ actIntent = intent
                    /\ act.lease = w.lease /\ rt \in {"cold", "barred", "live"}
ControlCurrent(c) == rt # "none" /\ c.gen = gen /\ c.intent = intent
ReportCurrent ==
  /\ rt = "live" /\ controls = 0 /\ worker \notin Failed \cup {"stopped"}
  /\ phase = "running" => actIntent = intent
  /\ phase = "awaiting_settle" => actIntent + 1 = intent
\* reserveStart accepts the runtime it already holds
ReusableWhileContained == rt \in {"cold", "barred", "live"} /\ worker \notin Failed
Reusable  == rt \in {"cold", "barred", "live"} /\ worker \notin Failed /\ controls = 0
\* reserveActivation does not throw
ReserveOK == ~Prompting /\ (act = NoActivation \/ act.stage = "settled")

-----------------------------------------------------------------------------
(* Parts of actions. *)

\* revoke(): the intent moves on, the activation is dropped, startup is barred.
\* The abort signal of a freeze needs no variable: the freeze compares intents.
Revoke ==
  /\ intent' = intent + 1 /\ act' = NoActivation
  /\ rt' = IF rt = "cold" THEN "barred" ELSE rt

\* reserveControl() under intent i, and the job that will run contain() for it;
\* publishControl: when the save is refused the caller fails, and the runtime is
\* stopped by a containment nobody waits for
Contained(op, by, i) ==
  [op |-> IF refused THEN "kill" ELSE op, by |-> IF refused THEN "work" ELSE by,
   intent |-> i, gen |-> gen, pc |-> "begin"]
AddControl(op, by, i) ==
  /\ controls' = IF rt = "none" THEN controls ELSE controls + 1
  /\ contains' = IF rt = "none" THEN contains ELSE contains \cup {Contained(op, by, i)}

Publish(p) == authority' = [phase |-> p, lease |-> lease]

Keep(w, status) == IF w \in Failed \cup {"stopped"} THEN w ELSE status

\* interrupt() followed by contain(control, reason, op = "kill")
Interrupt(op, by) ==
  /\ Revoke /\ AddControl(op, by, intent + 1) /\ Publish("paused")
  /\ phase' = IF Active /\ phase \notin Waiting \cup {"paused"} THEN "interrupted"
              ELSE phase
  /\ worker' = IF worker = "stopped" THEN worker ELSE "error"

\* A report that was not decided is archived under the task's own name.
Archived(op) == op = "resume" /\ pending # 0

\* A fresh attempt and lease, status activating, and reserveWork(): when the
\* reservation throws or the save is refused, the status has been assigned and no
\* job exists.
NewLease(op, by) ==
  /\ refused' = (refused \/ Archived(op))
  /\ lease' = lease + 1 /\ phase' = "activating" /\ pending' = 0
  /\ report'   = IF op = "dispatch" THEN 0 ELSE report
  /\ previous' = IF op = "dispatch" THEN "none" ELSE previous
  /\ pausedBy' = IF op \in {"dispatch", "resume"} THEN "none" ELSE pausedBy
  /\ actIntent' = intent
  /\ act' = IF ReserveOK THEN [lease |-> lease + 1, stage |-> "reserved"] ELSE act
  /\ works' = IF ReserveOK /\ ~refused'
              THEN works \cup {[lease |-> lease + 1, intent |-> intent, gen |-> gen',
                                by |-> by, pc |-> "start"]}
              ELSE works

\* a dispatch that is not saved puts the former task back
DispatchUndone ==
  /\ act' = IF ReserveOK THEN NoActivation ELSE act
  /\ UNCHANGED <<taskVars, works, actIntent>>

\* reserveStart() inside the transaction op: the retained runtime is taken at
\* once; a fresh process first goes through awaits that hold the queue.  A launch
\* that is not saved takes its record back.
Acquire(op, by) ==
  /\ lease < MaxLease
  /\ \/ /\ Reusable /\ UNCHANGED gen
        /\ IF refused /\ op = "dispatch" THEN DispatchUndone ELSE NewLease(op, by)
        /\ UNCHANGED <<worker, serial, rt, controls, settled, aborting, authority>>
     \/ /\ rt = "none" /\ worker = "stopped" /\ gen < MaxGen
        /\ gen' = gen + 1
        /\ IF refused
           THEN /\ Publish("stopped") /\ UNCHANGED <<worker, serial>>
           ELSE /\ Publish("paused") /\ worker' = "starting"
                /\ serial' = [op |-> op, intent |-> intent, by |-> by]
        /\ UNCHANGED <<taskVars, works, runtimeVars>>
  /\ UNCHANGED <<intent, contains, requests, freeze, procVars>>

-----------------------------------------------------------------------------
Init ==
  /\ refused = FALSE /\ phase = "none" /\ lease = 0 /\ previous = "none" /\ pausedBy = "none"
  /\ pending = 0 /\ report = 0 /\ worker = "stopped" /\ gen = 0 /\ intent = 0
  /\ serial = Free /\ works = {} /\ contains = {} /\ requests = {}
  /\ freeze = NoFreeze /\ decision = NoDecision /\ recover = "none"
  /\ rt = "none" /\ act = NoActivation /\ actIntent = 0 /\ controls = 0
  /\ settled = FALSE /\ aborting = FALSE /\ run = 0 /\ draft = 0 /\ latch = 0
  /\ authority = [phase |-> "stopped", lease |-> 0]

(* Granting a lease. *)

Dispatch ==
  /\ Idle /\ ~Active /\ Acquire("dispatch", "main")
  /\ UNCHANGED <<decision, recover>>

\* reserveStart finishes: the runtime exists and the transaction goes on
LaunchEnd ==
  /\ serial.op \in {"dispatch", "resume", "continue"} /\ serial.intent = intent
  /\ rt' = "cold" /\ controls' = 0 /\ settled' = FALSE /\ aborting' = FALSE
  /\ UNCHANGED gen /\ NewLease(serial.op, serial.by)
  /\ serial' = Free /\ decision' = NoDecision
  /\ UNCHANGED <<worker, intent, contains, requests, freeze, recover, procVars,
                 authority>>

\* "Start was revoked": nothing was spawned, the record is stopped again
LaunchRevoked ==
  /\ serial.op \in {"dispatch", "resume", "continue"} /\ serial.intent # intent
  /\ serial' = Free /\ decision' = NoDecision
  /\ worker' = "stopped" /\ Publish("stopped")
  /\ UNCHANGED <<taskVars, gen, intent, works, contains, requests, freeze, recover,
                 runtimeVars, procVars>>

\* resume(): a paused report is waiting again, otherwise a new attempt starts
RestoreHeld(before) ==
  /\ report # 0 /\ pending = 0 /\ previous \in Waiting
  /\ phase' = previous /\ previous' = before /\ pausedBy' = "none"
  /\ worker' = IF worker \in Failed THEN "error" ELSE Keep(worker, previous)
  /\ Publish("waiting")
  /\ UNCHANGED <<lease, pending, report, refused, gen, intent, serial, works, contains,
                 requests, freeze, runtimeVars, procVars>>

RestoreKeepingPrevious == RestoreHeld(previous)
RestoreWaiting == RestoreHeld("none")

Resume(by) ==
  /\ Idle /\ phase \in {"paused", "interrupted"}
  /\ \/ RestoreWaiting
     \/ /\ ~(report # 0 /\ pending = 0 /\ previous \in Waiting)
        /\ Acquire("resume", by)

HumanResume == Resume("human") /\ UNCHANGED <<decision, recover>>

-----------------------------------------------------------------------------
(* startReserved and activate: the job of a reserved lease. *)

Advance(w, pc) == works' = (works \ {w}) \cup {[w EXCEPT !.pc = pc]}

WorkStarted(w) ==
  /\ w.pc = "start" /\ Idle /\ rt = "live" /\ RequireWork(w)
  /\ worker' = IF worker = "starting" THEN "ready" ELSE worker
  /\ Advance(w, "prepare")
  /\ UNCHANGED <<taskVars, gen, intent, serial, contains, requests, freeze, decision,
                 recover, runtimeVars, procVars, authority>>

\* the probe answers behind whatever was sent before it, so a run that was
\* going or an abort in progress is over when it does
WorkPrepared(w) ==
  /\ w.pc = "prepare" /\ rt = "live" /\ RequireWork(w) /\ run = 0 /\ ~aborting
  /\ act' = [act EXCEPT !.stage = "prepared"]
  /\ Advance(w, "grant")
  /\ UNCHANGED <<taskVars, workerVars, intent, serial, contains, requests, freeze,
                 decision, recover, rt, actIntent, controls, settled, aborting,
                 procVars, authority>>

WorkGrant(w) ==
  /\ w.pc = "grant" /\ Idle /\ RequireWork(w)
  /\ phase' = "running" /\ worker' = "working" /\ settled' = FALSE
  /\ serial' = [op |-> "grant", intent |-> intent, by |-> "none"]
  /\ Advance(w, "write")
  /\ UNCHANGED <<lease, previous, pausedBy, pending, report, refused, gen, intent, contains,
                 requests, freeze, decision, recover, rt, act, actIntent, controls,
                 aborting, procVars, authority>>

\* a limit was reached before the grant: paused, and nothing was sent
WorkOverLimit(w) ==
  /\ w.pc = "grant" /\ Idle /\ RequireWork(w)
  /\ Revoke /\ phase' = "paused" /\ worker' = "paused" /\ Publish("paused")
  /\ works' = works \ {w}
  /\ UNCHANGED <<lease, previous, pausedBy, pending, report, refused, gen, serial, contains,
                 requests, freeze, decision, recover, actIntent, controls, settled,
                 aborting, procVars>>

\* still inside the grant transaction: authority.json, then the fence again
WorkAuthorize(w) ==
  /\ w.pc = "write" /\ RequireWork(w)
  /\ Publish("running") /\ Advance(w, "written")
  /\ UNCHANGED <<taskVars, workerVars, intent, serial, contains, requests, freeze,
                 decision, recover, runtimeVars, procVars>>

WorkGranted(w) ==
  /\ w.pc = "written" /\ RequireWork(w)
  /\ serial' = Free /\ Advance(w, "attempt")
  /\ UNCHANGED <<taskVars, workerVars, intent, contains, requests, freeze, decision,
                 recover, runtimeVars, procVars, authority>>

\* the grant transaction throws at one of its fences and leaves the queue
WorkUngranted(w) ==
  /\ w.pc \in {"write", "written"} /\ ~RequireWork(w)
  /\ serial' = Free /\ Advance(w, "failed")
  /\ UNCHANGED <<taskVars, workerVars, intent, contains, requests, freeze, decision,
                 recover, runtimeVars, procVars, authority>>

WorkAttempt(w) ==
  /\ w.pc = "attempt" /\ rt = "live" /\ RequireWork(w) /\ act.stage = "prepared"
  /\ act' = [act EXCEPT !.stage = "attempted"]
  /\ Advance(w, "prompt")
  /\ UNCHANGED <<taskVars, workerVars, intent, serial, contains, requests, freeze,
                 decision, recover, rt, actIntent, controls, settled, aborting,
                 procVars, authority>>

\* the prompt is written under the fence and lifecycleIdle
SendPrompt(w) ==
  /\ w.pc = "prompt" /\ rt = "live" /\ run = 0
  /\ run' = w.lease /\ Advance(w, "ack")
  /\ UNCHANGED <<taskVars, workerVars, intent, serial, contains, requests, freeze,
                 decision, recover, runtimeVars, draft, latch, authority>>

WorkPromptUnfenced(w) == SendPrompt(w)
WorkPrompt(w) == RequireWork(w) /\ SendPrompt(w)

WorkAck(w) ==
  /\ w.pc = "ack" /\ rt = "live" /\ RequireWork(w)
  /\ act' = [act EXCEPT !.stage = IF @ = "settled" THEN @ ELSE "accepted"]
  /\ works' = works \ {w}
  /\ UNCHANGED <<taskVars, workerVars, intent, serial, contains, requests, freeze,
                 decision, recover, rt, actIntent, controls, settled, aborting,
                 procVars, authority>>

\* activationFailed(): contained when the work is still current, dropped when
\* the lease was revoked, reported on or superseded meanwhile
Fail(w, current) ==
  /\ Idle /\ works' = works \ {w}
  /\ IF current
     THEN Interrupt("kill", "work")
     ELSE UNCHANGED <<phase, worker, intent, contains, rt, act, controls, authority>>
  /\ UNCHANGED <<lease, previous, pausedBy, pending, report, refused, gen, serial, requests,
                 freeze, decision, recover, actIntent, settled, aborting, procVars>>

WorkFailsIfHeld(w)   == Fail(w, RequireWork(w))
WorkFailsSilently(w) == Fail(w, FALSE)
WorkFails(w)         == Fail(w, WorkCurrent(w))

-----------------------------------------------------------------------------
(* The runtime and the process it supervises. *)

RuntimeReady ==
  /\ rt = "cold" /\ \E w \in works : w.pc = "start" /\ RequireWork(w)
  /\ rt' = "live"
  /\ UNCHANGED <<taskVars, workerVars, intent, serial, works, contains, requests,
                 freeze, decision, recover, act, actIntent, controls, settled,
                 aborting, procVars, authority>>

\* #hold(): a startup, protocol or session error; the activation is dropped
RuntimeFault ==
  /\ \/ rt = "live"
     \/ (rt \in {"cold", "barred"} /\ \E w \in works : w.pc = "start")
  /\ rt' = "fault" /\ act' = NoActivation /\ aborting' = FALSE
  /\ UNCHANGED <<taskVars, workerVars, intent, serial, works, contains, requests,
                 freeze, decision, recover, actIntent, controls, settled, procVars,
                 authority>>

\* the process exits by itself or is killed; what it was doing is lost
ProcessExit ==
  /\ rt \in {"live", "fault"}
  /\ rt' = "closed" /\ aborting' = FALSE /\ run' = 0 /\ draft' = 0
  /\ UNCHANGED <<taskVars, workerVars, intent, serial, works, contains, requests,
                 freeze, decision, recover, act, actIntent, controls, settled, latch,
                 authority>>

\* an abort ends at verified idle, or the runtime is held as faulted
AbortDone ==
  /\ aborting /\ rt = "live" /\ draft = 0 /\ ~Prompting
  /\ aborting' = FALSE /\ run' = 0 /\ settled' = (settled \/ run # 0)
  /\ UNCHANGED <<taskVars, workerVars, intent, serial, works, contains, requests,
                 freeze, decision, recover, rt, act, actIntent, controls, draft, latch,
                 authority>>

\* pair_report: the gate is read, then the report is published
ReportBegin ==
  /\ run # 0 /\ draft = 0 /\ rt \in {"live", "fault"}
  /\ authority.phase = "running" /\ latch # authority.lease
  /\ draft' = authority.lease
  /\ UNCHANGED <<taskVars, workerVars, intent, serial, works, contains, requests,
                 freeze, decision, recover, runtimeVars, run, latch, authority>>

ReportPublish ==
  /\ draft # 0
  /\ latch' = draft /\ draft' = 0
  /\ UNCHANGED <<taskVars, workerVars, intent, serial, works, contains, requests,
                 freeze, decision, recover, runtimeVars, run, authority>>

\* agent_settled: the run is over, with or without a report
WorkerSettle ==
  /\ run # 0 /\ draft = 0 /\ rt \in {"live", "fault"}
  /\ run' = 0 /\ settled' = TRUE
  /\ act' = IF act = NoActivation THEN act ELSE [act EXCEPT !.stage = "settled"]
  /\ UNCHANGED <<taskVars, workerVars, intent, serial, works, contains, requests,
                 freeze, decision, recover, rt, actIntent, controls, aborting, draft,
                 latch, authority>>

-----------------------------------------------------------------------------
(* The scan.  It is not queued again until its jobs and follow-ups are done. *)

ScanReady ==
  /\ Idle /\ rt # "none" /\ worker \notin Failed
  /\ freeze = NoFreeze /\ recover = "none"
  /\ \A c \in contains : c.by # "scan"
  /\ \A w \in works : w.by # "auto"

\* an automatic recovery follows, within its budgets
MayRecover == recover' \in (IF Watchdog /\ Active /\ ~refused THEN {"none", "due"} ELSE {"none"})

ScanFault ==
  /\ ScanReady /\ rt \in {"fault", "closed"}
  /\ Interrupt("kill", "scan") /\ MayRecover
  /\ UNCHANGED <<lease, previous, pausedBy, pending, report, refused, gen, serial, works,
                 requests, freeze, decision, actIntent, settled, aborting, procVars>>

\* acceptReport(): the lease ends here; the run gets a grace period to settle
ScanAccept ==
  /\ ScanReady /\ ReportCurrent /\ phase = "running" /\ latch = lease
  /\ Revoke /\ aborting' = TRUE
  /\ phase' = "awaiting_settle" /\ pending' = lease /\ worker' = "settling"
  /\ Publish("waiting")
  /\ UNCHANGED <<lease, previous, pausedBy, report, refused, gen, serial, works, contains,
                 requests, freeze, decision, recover, actIntent, controls, settled,
                 procVars>>

Unsettled == phase = "awaiting_settle" /\ pending # 0 /\ ~settled

ScanSettleAbort ==
  /\ ScanReady /\ ReportCurrent /\ Unsettled
  /\ AddControl("abort", "scan", intent)
  /\ UNCHANGED <<taskVars, workerVars, intent, serial, works, requests, freeze,
                 decision, recover, rt, act, actIntent, settled, aborting, procVars,
                 authority>>

ScanSettleTimeout ==
  /\ ScanReady /\ ReportCurrent /\ Unsettled
  /\ Interrupt("kill", "scan") /\ MayRecover
  /\ UNCHANGED <<lease, previous, pausedBy, pending, report, refused, gen, serial, works,
                 requests, freeze, decision, actIntent, settled, aborting, procVars>>

\* the run is over and left no report of the current lease
ScanNoReport ==
  /\ ScanReady /\ ReportCurrent /\ phase = "running" /\ settled /\ latch # lease
  /\ Interrupt("abort", "scan") /\ MayRecover
  /\ UNCHANGED <<lease, previous, pausedBy, pending, report, refused, gen, serial, works,
                 requests, freeze, decision, actIntent, settled, aborting, procVars>>

\* a limit was reached: paused, but not by the human
ScanLimit ==
  /\ ScanReady /\ ReportCurrent /\ phase = "running" /\ latch # lease
  /\ Revoke /\ aborting' = TRUE
  /\ phase' = "paused" /\ previous' = phase /\ worker' = Keep(worker, "paused")
  /\ AddControl("abort", "scan", intent + 1) /\ Publish("paused")
  /\ UNCHANGED <<lease, pausedBy, pending, report, refused, gen, serial, works, requests,
                 freeze, decision, recover, actIntent, settled, procVars>>

-----------------------------------------------------------------------------
(* finalizeReport: the checkpoint of an accepted report. *)

FreezeStart ==
  /\ ScanReady /\ ReportCurrent
  /\ phase = "awaiting_settle" /\ pending # 0 /\ settled
  /\ freeze' = [lease |-> lease, intent |-> intent]
  /\ UNCHANGED <<taskVars, workerVars, intent, serial, works, contains, requests,
                 decision, recover, runtimeVars, procVars, authority>>

FreezeCurrent ==
  /\ freeze.lease = lease /\ freeze.intent = intent /\ ReportCurrent
  /\ pending = lease /\ phase = "awaiting_settle"

\* waitIdle answered and the runtime is still idle inside the transaction
FreezeProven == freeze # NoFreeze /\ Idle /\ FreezeCurrent /\ run = 0 /\ ~aborting

FreezeCommit(kind) ==
  /\ FreezeProven
  /\ report' = pending /\ pending' = 0 /\ phase' = kind /\ worker' = kind
  /\ freeze' = NoFreeze
  /\ UNCHANGED <<lease, previous, pausedBy, refused, gen, intent, serial, works, contains,
                 requests, decision, recover, runtimeVars, procVars, authority>>

\* planAutoRepair: the step goes back to the worker under a new lease
FreezeRepair ==
  /\ FreezeProven /\ Reusable /\ lease < MaxLease
  /\ UNCHANGED gen /\ NewLease("repair", "main")
  /\ freeze' = NoFreeze
  /\ UNCHANGED <<worker, intent, serial, contains, requests, decision, recover, rt,
                 controls, settled, aborting, procVars, authority>>

EndFreeze(current) ==
  /\ freeze # NoFreeze /\ Idle /\ freeze' = NoFreeze
  /\ IF current
     THEN /\ Revoke /\ phase' = "interrupted" /\ worker' = "ready"
          /\ AddControl("abort", "scan", intent + 1) /\ Publish("paused")
     ELSE UNCHANGED <<phase, worker, intent, contains, rt, act, controls, authority>>
  /\ UNCHANGED <<lease, previous, pausedBy, pending, report, refused, gen, serial, works,
                 requests, decision, recover, actIntent, settled, aborting, procVars>>

FreezeFailSilently == EndFreeze(FALSE)
FreezeFail == EndFreeze(FreezeCurrent)

-----------------------------------------------------------------------------
(* pause, cancel and stop: revoked at once, recorded in a queued transaction. *)

Call(op) ==
  /\ op \in Callers /\ intent < MaxIntent
  /\ IdleCalls \/ Active \/ serial.op = "dispatch"
  /\ Revoke
  /\ aborting' = (aborting \/ (op # "stop" /\ rt = "live"))
  /\ requests' = requests \cup {[op |-> op, intent |-> intent + 1, by |-> "human"]}
  /\ UNCHANGED <<taskVars, workerVars, serial, works, contains, freeze, decision,
                 recover, actIntent, controls, settled, procVars, authority>>

Take(q) == Idle /\ requests' = requests \ {q}

\* a call that was overtaken by a later one, or that finds nothing to act on
CallDropped(q) ==
  /\ Take(q)
  /\ \/ q.intent # intent
     \/ (IF q.op = "stop" THEN gen = 0 ELSE ~Active)
  /\ recover' = IF q.by = "auto" THEN "resume" ELSE recover
  /\ UNCHANGED <<taskVars, workerVars, intent, serial, works, contains, freeze,
                 decision, runtimeVars, procVars, authority>>

PauseTxn(q) ==
  /\ q.op = "pause" /\ Take(q) /\ q.intent = intent /\ Active
  /\ previous' = IF phase = "paused" THEN previous ELSE phase
  /\ phase' = "paused" /\ pausedBy' = "human" /\ worker' = Keep(worker, "paused")
  /\ AddControl("abort", "human", intent) /\ Publish("paused")
  /\ UNCHANGED <<lease, pending, report, refused, gen, intent, serial, works, freeze, decision,
                 recover, rt, act, actIntent, settled, aborting, procVars>>

CancellingUnpublished(by, i) ==
  /\ phase' = "cancelled" /\ worker' = Keep(worker, "ready")
  /\ AddControl("abort", by, i) /\ UNCHANGED authority
Cancelling(by, i) ==
  /\ phase' = "cancelled" /\ worker' = Keep(worker, "ready")
  /\ AddControl("abort", by, i) /\ Publish("paused")

CancelTxn(q) ==
  /\ q.op = "cancel" /\ Take(q) /\ q.intent = intent /\ Active
  /\ Cancelling("human", intent)
  /\ UNCHANGED <<lease, previous, pausedBy, pending, report, refused, gen, intent, serial,
                 works, freeze, decision, recover, rt, act, actIntent, settled,
                 aborting, procVars>>

StopTxn(q) ==
  /\ q.op = "stop" /\ Take(q) /\ q.intent = intent
  /\ rt # "none" \/ worker = "stopped"
  /\ phase' = IF phase \in {"activating", "running", "awaiting_settle"}
              THEN "interrupted" ELSE phase
  /\ worker' = IF rt = "none" THEN worker ELSE "error"
  /\ AddControl("stop", q.by, intent) /\ Publish("stopped")
  /\ recover' = IF q.by = "auto" /\ (rt = "none" \/ refused)
                THEN (IF refused THEN "none" ELSE "resume") ELSE recover
  /\ UNCHANGED <<lease, previous, pausedBy, pending, report, refused, gen, intent, serial,
                 works, freeze, decision, rt, act, actIntent, settled, aborting,
                 procVars>>

-----------------------------------------------------------------------------
(* contain() and the rest of stopReserved(). *)

\* abortCurrent or abortAndStop is called: either drops the activation
ContainBegin(c) ==
  /\ c.pc = "begin"
  /\ contains' = (contains \ {c}) \cup {[c EXCEPT !.pc = "wait"]}
  /\ IF c.gen # gen \/ rt \in {"none", "closed"}
     THEN UNCHANGED <<rt, act, aborting>>
     ELSE /\ act' = NoActivation
          /\ \/ rt = "live" /\ c.op = "abort" /\ aborting' = TRUE /\ UNCHANGED rt
             \/ rt = "live" /\ c.op # "abort" /\ aborting' = FALSE /\ rt' = "fault"
             \/ rt \in {"cold", "barred"} /\ rt' \in {"fault", "closed"} /\ UNCHANGED aborting
             \/ rt = "fault" /\ UNCHANGED <<rt, aborting>>
  /\ UNCHANGED <<taskVars, workerVars, intent, serial, works, requests, freeze,
                 decision, recover, actIntent, controls, settled, procVars, authority>>

\* the awaited call is over: an abort has reached idle or lost the runtime
Returned(c) == c.gen = gen /\ c.op = "abort" => ~aborting

\* pendingControls--, in finally
DecrementIfCurrent(c) == controls' = IF ControlCurrent(c) THEN controls - 1 ELSE controls
Decrement(c) == controls' = IF c.gen = gen THEN controls - 1 ELSE controls

Unproven(c) == rt = "fault" \/ (c.op # "abort" /\ rt # "closed")

ContainEnd(c) ==
  /\ c.pc = "wait" /\ Idle /\ Returned(c)
  /\ contains' = contains \ {c}
  /\ Decrement(c)
  /\ IF ControlCurrent(c)
     THEN /\ worker' \in (CASE Unproven(c) -> {"unproven"}
                            [] rt = "closed" /\ c.op = "stop" -> {"stopped"}
                            [] rt = "closed" /\ c.op = "kill" -> {"error"}
                            [] rt = "closed" -> {"error", "unproven"}
                            [] OTHER -> {worker})
          /\ IF worker' = "stopped" THEN rt' = "none" /\ act' = NoActivation
                                    ELSE UNCHANGED <<rt, act>>
     ELSE UNCHANGED <<worker, rt, act>>
  /\ recover' = IF c.by # "auto" THEN recover
                ELSE IF Unproven(c) \/ (refused /\ ControlCurrent(c)) THEN "none" ELSE "resume"
  /\ UNCHANGED <<taskVars, gen, intent, serial, works, requests, freeze, decision,
                 actIntent, settled, aborting, procVars, authority>>

-----------------------------------------------------------------------------
(* autoRecover: guard, stop when the record is in error, resume. *)

RecoverGuard ==
  /\ recover = "due" /\ Idle /\ \A c \in contains : c.by # "scan"
  /\ recover' = IF phase \in {"paused", "interrupted"} /\ ~HumanPaused
                   /\ worker # "unproven" /\ ~refused
                THEN "decided" ELSE "none"
  /\ UNCHANGED <<taskVars, workerVars, intent, serial, works, contains, requests,
                 freeze, decision, runtimeVars, procVars, authority>>

RecoverStop ==
  /\ recover = "decided" /\ worker \in Failed
  /\ Revoke /\ recover' = "stopping"
  /\ requests' = requests \cup {[op |-> "stop", intent |-> intent + 1, by |-> "auto"]}
  /\ UNCHANGED <<taskVars, workerVars, serial, works, contains, freeze, decision,
                 actIntent, controls, settled, aborting, procVars, authority>>

Resuming == recover = "resume" \/ (recover = "decided" /\ worker \notin Failed)

RecoverResume ==
  /\ Resuming
  /\ Resume("auto") /\ recover' = "none" /\ UNCHANGED decision

\* the resume is refused: the task is left to the human
RecoverRefused ==
  /\ Resuming
  /\ recover' = "none"
  /\ UNCHANGED <<taskVars, workerVars, intent, serial, works, contains, requests,
                 freeze, decision, runtimeVars, procVars, authority>>

-----------------------------------------------------------------------------
(* decide(): reserved, then evidence is captured, then recorded. *)

DecideCall(action) ==
  /\ Idle /\ phase \in Waiting /\ decision = NoDecision
  /\ action = "approve" => phase = "review"
  /\ decision' = [action |-> action, lease |-> lease, intent |-> intent, gen |-> gen]
  /\ UNCHANGED <<taskVars, workerVars, intent, serial, works, contains, requests,
                 freeze, recover, runtimeVars, procVars, authority>>

DecisionCurrent ==
  /\ decision.intent = intent /\ decision.gen = gen /\ decision.lease = lease
  /\ phase \in Waiting

DecideFinished ==
  /\ Idle /\ decision.action = "approve" /\ DecisionCurrent
  /\ Revoke /\ phase' = "completed" /\ worker' = Keep(worker, "ready")
  /\ Publish("idle") /\ decision' = NoDecision
  /\ UNCHANGED <<lease, previous, pausedBy, pending, report, refused, gen, serial, works,
                 contains, requests, freeze, recover, actIntent, controls, settled,
                 aborting, procVars>>

DecideContinue ==
  /\ Idle /\ decision.action \in {"approve", "continue"} /\ DecisionCurrent
  /\ Acquire("continue", "main") /\ UNCHANGED recover
  /\ decision' = IF serial' = Free THEN NoDecision ELSE decision

DecideCancel ==
  /\ Idle /\ decision.action = "cancel" /\ DecisionCurrent
  /\ Revoke /\ Cancelling("human", intent + 1) /\ decision' = NoDecision
  /\ UNCHANGED <<lease, previous, pausedBy, pending, report, refused, gen, serial, works,
                 requests, freeze, recover, actIntent, settled, aborting, procVars>>

\* superseded, or refused by a cap, the evidence or reserveStart
DecideRefused ==
  /\ Idle /\ decision # NoDecision /\ decision' = NoDecision
  /\ UNCHANGED <<taskVars, workerVars, intent, serial, works, contains, requests,
                 freeze, recover, runtimeVars, procVars, authority>>

-----------------------------------------------------------------------------
WorkStep(w) ==
  \/ WorkStarted(w) \/ WorkPrepared(w) \/ WorkGrant(w) \/ WorkOverLimit(w)
  \/ WorkAuthorize(w) \/ WorkGranted(w) \/ WorkUngranted(w) \/ WorkAttempt(w)
  \/ WorkPrompt(w) \/ WorkAck(w) \/ WorkFails(w)

RequestStep(q) == CallDropped(q) \/ PauseTxn(q) \/ CancelTxn(q) \/ StopTxn(q)
ContainStep(c) == ContainBegin(c) \/ ContainEnd(c)
Launch  == LaunchEnd \/ LaunchRevoked
Runtime == RuntimeReady \/ RuntimeFault \/ ProcessExit \/ AbortDone
Process == ReportBegin \/ ReportPublish \/ WorkerSettle
Scan    == \/ ScanFault \/ ScanAccept \/ ScanSettleAbort \/ ScanSettleTimeout
           \/ ScanNoReport \/ ScanLimit \/ FreezeStart
Freeze  == \/ \E kind \in ReportKinds : FreezeCommit(kind)
           \/ FreezeRepair \/ FreezeFail
Recover == RecoverGuard \/ RecoverStop \/ RecoverResume \/ RecoverRefused
Decide  == \/ \E action \in {"approve", "continue", "cancel"} : DecideCall(action)
           \/ DecideFinished \/ DecideContinue \/ DecideCancel \/ DecideRefused

Next ==
  \/ Dispatch \/ HumanResume \/ Launch \/ Runtime \/ Process \/ Scan \/ Freeze
  \/ Recover \/ Decide
  \/ \E w \in works : WorkStep(w)
  \/ \E q \in requests : RequestStep(q)
  \/ \E c \in contains : ContainStep(c)
  \/ \E op \in {"pause", "cancel", "stop"} : Call(op)

Spec == Init /\ [][Next]_vars

\* What the scheduling justifies.  The queue is first in, first out; every RPC,
\* startup and abort the jobs await has a timeout, after which the job fails;
\* the scan runs on a timer.  Nothing is assumed of the human, of Main or of the
\* worker.  An abort ends at idle or holds the runtime as faulted.
Fairness ==
  /\ WF_vars(Launch) /\ WF_vars(Scan) /\ WF_vars(Freeze)
  /\ WF_vars(aborting /\ (AbortDone \/ RuntimeFault))
  /\ WF_vars(\E w \in works : WorkStep(w))
  /\ WF_vars(\E q \in requests : RequestStep(q))
  /\ WF_vars(\E c \in contains : ContainStep(c))
  /\ WF_vars(Recover)

FairSpec == Spec /\ Fairness

-----------------------------------------------------------------------------
(* The promise this machinery keeps. *)

StandingOf(p) ==
  CASE p = "none" -> "open"
    [] p = "activating" -> "granted"
    [] p = "running" -> "running"
    [] p = "awaiting_settle" -> "reported"
    [] p \in Waiting -> "review"
    [] p \in {"paused", "interrupted"} -> "held"
    [] p \in {"completed", "cancelled"} -> "done"
Standing == StandingOf(phase)

Task == INSTANCE Assignment WITH status <- Standing, working <- run, reviewed <- report

\* Every step of the pair is a step of the Assignment it promises, or none.
ImplementsAssignment == Task!Spec

-----------------------------------------------------------------------------
(* Safety. *)

\* While Main has a report to look at (waiting, or paused from there), and when
\* a new lease is about to be granted, the process is not working on anything.
QuietWorkspace ==
  phase \in Waiting \cup {"activating"} => run = 0 /\ draft = 0

\* What a resume of a held report restores is the report of the last lease:
\* never one Main has already decided.
HeldReportIsLatest ==
  (phase \in Waiting \/ (phase \in {"paused", "interrupted"} /\ previous \in Waiting))
    => report = lease /\ pending = 0

\* When no transaction holds the queue, running authority on disk is for the
\* lease of a task recorded as running.
AuthorityFollowsTask ==
  Idle /\ authority.phase = "running" => phase = "running" /\ authority.lease = lease

\* A lease in force is never left to nobody: either its job is still current,
\* or the run it started is supervised, or the call that revoked it is queued.
\* The one exception is an activation whose save the contract refused.
NoOrphanLease ==
  Idle /\ phase \in {"activating", "running"} =>
    \/ \E w \in works : WorkCurrent(w)
    \/ phase = "running" /\ actIntent = intent
    \/ \E q \in requests : q.intent = intent
    \/ refused /\ phase = "activating"

\* Whoever may act for the task, on disk or in the runtime, has a task that says so.
LeasesAreHeld == AuthorityFollowsTask /\ NoOrphanLease

\* The inductive invariant behind QuietWorkspace and the refinement, in named parts.

\* leases only grow, each has one job, and the status of a lease follows its job
InvWork ==
  /\ phase # "none" => lease > 0
  /\ \A w \in works :
       /\ w.lease <= lease
       /\ w.lease = lease /\ phase = "activating"
            => w.pc \in {"start", "prepare", "grant", "failed"}
       /\ w.lease = lease /\ phase = "running"
            => w.pc \notin {"start", "prepare", "grant"}
       /\ \A v \in works : v.lease = w.lease => v = w

\* the process works only while there is one, and only a process at work reports
InvRun == (draft # 0 => run # 0) /\ (run # 0 => rt \in {"live", "fault"})

\* a launch in the queue has no runtime yet, and nothing of its reason changed
InvLaunch ==
  /\ rt # "none" => worker # "stopped"
  /\ serial.op \in {"dispatch", "resume", "continue"}
       => rt = "none" /\ worker = "starting" /\ \A c \in contains : c.gen < gen
  /\ serial.op = "dispatch" => ~Active
  /\ serial.op = "resume" => phase \in {"paused", "interrupted"} /\ previous \notin Waiting
  /\ serial.op = "continue" => phase \in Waiting

\* the report Main was last given is of an earlier lease, except while Main has it
InvReport ==
  /\ report <= lease
  /\ phase \in {"activating", "running", "awaiting_settle", "interrupted"}
       \/ (phase = "paused" /\ previous \notin Waiting) => report < lease

\* every containment of this runtime is counted, and none is open under a lease
InvCounted ==
  /\ IsFiniteSet(contains) /\ \A c \in contains : c.gen <= gen
  /\ rt # "none" => controls >= Cardinality({c \in contains : c.gen = gen})
InvFree ==
  rt # "none" /\ phase \in {"activating", "running"} => \A c \in contains : c.gen # gen

\* a containment whose call returned has ended the run, or the process is lost
InvContained ==
  \A c \in contains : c.gen = gen /\ c.pc = "wait" =>
     IF c.op = "abort" THEN rt = "live" /\ ~aborting => run = 0
                       ELSE rt \in {"none", "fault", "closed"}

\* a run that outlives its lease is still being contained, or the record is in
\* error: reserveStart refuses the runtime either way
InvHeld ==
  phase \in {"paused", "interrupted", "cancelled"} /\ rt = "live" /\ controls = 0
    /\ worker \notin Failed => run = 0

\* a report is held only by a pause, which leaves the worker as quiet as it was
InvPrevious ==
  previous \in Waiting =>
    phase \in {"paused", "cancelled"} /\ (phase = "paused" => run = 0)

InvQuiet == phase \in Waiting \cup {"none", "activating", "completed"} => run = 0

LeaseInv == /\ InvWork /\ InvRun /\ InvLaunch /\ InvReport /\ InvCounted /\ InvFree
            /\ InvContained /\ InvHeld /\ InvPrevious /\ InvQuiet /\ HeldReportIsLatest

\* The inductive invariant behind LeasesAreHeld, on top of LeaseInv, in named parts.

\* running authority on disk is for the running task, inside transactions too
InvAuthority == authority.phase = "running" => phase = "running" /\ authority.lease = lease

\* a lease in force has an owner, inside transactions too
InvOwned ==
  phase \in {"activating", "running"} =>
    \/ \E w \in works : WorkCurrent(w)
    \/ phase = "running" /\ actIntent = intent
    \/ \E q \in requests : q.intent = intent
    \/ refused /\ phase = "activating"

\* no job is of a process still to be launched, and a task has had a process
InvGens ==
  /\ \A w \in works :
       w.gen <= gen /\ (serial.op \in {"dispatch", "resume", "continue"} => w.gen < gen)
  /\ gen = 0 => phase = "none" /\ rt = "none" /\ serial = Free

\* outside a lease the runtime's activation is gone, over, or about to be dropped
Dropping == \E c \in contains : c.gen = gen /\ c.pc = "begin"
InvReserved ==
  /\ rt = "none" => act = NoActivation
  /\ rt \in {"cold", "barred", "live"} /\ phase \notin {"activating", "running"}
       => act = NoActivation \/ act.stage = "settled" \/ Dropping

\* outside a run a prompt still unanswered is being aborted
InvPrompting ==
  rt \in {"cold", "barred", "live"} /\ Prompting =>
    \/ phase = "running"
    \/ phase = "awaiting_settle" /\ aborting
    \/ \E c \in contains : c.gen = gen /\ (c.pc = "begin" \/ aborting)

HeldInv == InvAuthority /\ InvOwned /\ InvGens /\ InvReserved /\ InvPrompting

-----------------------------------------------------------------------------
(* Liveness. *)

\* A granted lease does not stay in activation: the work is sent, or the task is
\* held where a human, Main or the watchdog can act on it.
ActivationResolves == phase = "activating" ~> (phase # "activating" \/ refused)

\* An accepted report reaches Main, goes back to the worker, or is held.  The one
\* exception: the containment of its own run found the process lost, and contain()
\* leaves the task as it is, for a human call.
SettleLost == worker \in Failed /\ rt \in {"fault", "closed"}
ReportResolves ==
  phase = "awaiting_settle" ~> (phase # "awaiting_settle" \/ SettleLost)

\* Containment ends: whatever happens to the process, a later lease is not
\* refused for ever because an earlier containment is still counted.
ContainmentEnds == controls > 0 ~> (controls = 0 \/ rt = "none")

\* What was begun for a lease ends: its activation, its report's settlement, its containment.
LeasesResolve == ActivationResolves /\ ReportResolves /\ ContainmentEnds

=============================================================================
