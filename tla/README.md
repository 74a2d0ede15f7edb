# Formal models of pi-fabric-pair

pi-fabric-pair lets one coding agent (*Main*, a Pi session driven by a human) hand
steps of work to another (*a worker*, a second Pi process that may write the
repository) and review what comes back. Nearly everything that can go wrong in it is
a matter of order: Main, the human, a timer, a worker process and the filesystem act
on the same assignment at the same time, and any of them may stop in the middle.

This directory holds TLA+ models of that behaviour, TLC configurations that check
them on small instances, and TLAPS proofs for every value of the constants. Line
numbers in `PROJECT.json` refer to the files under `src/`.

## 1. Inventory

| Component (source) | State it keeps | Operations |
|---|---|---|
| Assignment lifecycle: `PairController` in `controller.js`, the activation half of `PiRuntime` in `actor-runtime.js` | `TaskRecord` (status, attempt and lease, previous status, pending and accepted report), `WorkerRecord` (status, generation), per-worker intent, reservations (launch, control, freeze, decision) | dispatch, activate, scan, acceptReport, finalizeReport, decide, pause, resume, cancel, stop, contain, autoRecover |
| Worker generations and Main restart: `controller.js` | `workerGeneration`, `ownerEpoch`, process fingerprints, `EXIT_UNCONFIRMED` | start, restart, switchTo, removeWorker, init, exitProof, reconcile, recover |
| Notice delivery: `controller.js`, `main.js` | notices (pending, delivery_pending, offered, resolved, superseded), attempts, observed branch, yields | autoDeliver, boundaryOffer, claim, complete, revert, inspect, yieldMain |
| Watchdog budgets: `controller.js`, `provider.js`, `liveness.js` | recovery, nudge, repair, steer and wait counters per step, hang rungs, active provider | autoRecover, stepNudge, steer, switchToFallback, dueProviderWaits, planAutoRepair |
| Pi runtime: `actor-runtime.js` | lifecycle axes (streaming, settled, compacting, retrying, queued), activation, dialogs, session identity | start, prepare, activate, steer, waitIdle, settleOrAbort, abortCurrent, abortAndStop |
| RPC transport: `rpc.js` | two request lanes, two write lanes, byte counts, one active write, phase of the process | request, send, write completion, response, cancel, expire, fail, closeIdle, abortAndStop |
| Worker extension: `worker.js` | the cached authority, `latch.json`, the inbox, tool gate | pair_report, tool gating, telemetry, retained reports |
| Low runtime: `low-runtime.js` | one process per step, result file, heartbeat | launch, poll, publish, abort |
| Evidence and checkpoints: `evidence.js` | captures, snapshots, refs | capture, verify, freeze loop, collect |
| Ownership locks: `acquireLock` in `util.js`, `ensureRepoLock` in `controller.js` | a directory with `owner.json` per session and per repository | acquire, release, takeover of a dead owner |
| Wire and state contracts: `contracts.js`, `schema.js`, `observations.js` | none | validation, migration, budget schedules |
| Configuration: `config.js`, `worker-config.js` | layered settings and their checkpoint | merge, update, detection of external change |
| Main extension: `main.js`, `cue.js`, `extension.js`, `commands.js` | wake and yield flags, idle supervision | tools and commands that call the controller |
| Usage and classification: `metrics.js`, `scope.js`, `provider.js`, `liveness.js` | none | pure functions: limits, scope of changed paths, provider errors, hang classes |
| Native profile, peer review, timeline and transcript, screens | display and inspection only | - |

**How they interact.** Main's tools and the human's commands call `PairController`.
Its state changes run in *transactions*: a promise chain that is a first-in,
first-out queue (`transaction`, controller.js:385), each persisting the state before
the next begins. Three kinds of step are *not* in that queue. `revoke()` is
synchronous: pause, cancel and stop bump the worker's `intent` at once, before their
transaction is queued, so that anything started under an older intent can notice.
Long work (starting a process, the probe, the prompt, capturing evidence, waiting
for an abort) is awaited between transactions and compares intent, generation and
lease before it takes effect. And the worker process shares files with the
controller: it reads `authority.json` before it accepts `pair_report`, and retains
the report in `latch.json` and `inbox/`, which the timer's scan picks up.

**What is hard, and what makes each part correct.**

- *Assignment lifecycle*: a call lands between any two awaits of an activation, a
  freeze or a recovery. Main must only ever review the last lease's report on a
  workspace nobody is changing; a lease in force must always have somebody
  responsible for it; a containment must be counted exactly once.
- *Generations*: a crashed Main finds a worker that may still be alive; no second
  writer may start before the first is proven gone.
- *Delivery*: a report reaches Main, once, although Main may stop between the claim
  and the offer, change branch, or yield.
- *Watchdog*: counters per step bound what is done without a human, are reset
  exactly when the step moves on, and no rung overrides a human pause.
- *Runtime*: events of several axes arrive in any order; idle is reported only when
  a run can no longer start by itself; an activation is sent at most once.
- *Transport*: bounded lanes never starve the control lane, a cancelled frame is never
  taken for one that was not sent, shutdown ends every promise.
- *Locks*: at most one live owner, and a dead owner never locks everybody out.
- *Evidence*: what Main approves is the snapshot that was verified.

`PROJECT.json` lists every hazard at its line, with the properties that cover it.

## 2. Plan and status

| # | Module | What it models | Composes | Status |
|---|---|---|---|---|
| 1 | `PairLease`, `Assignment` | the life of one assignment on one worker; what it promises | `PairLease` implements `Assignment` | checked, proved (section 6) |
| 2 | `OwnerLock` | `acquireLock`, release, takeover | - | checked, proved (section 6) |
| 3 | `Generations` | every call that gives or takes a worker's process; Main's crash, init, close; removal | - | checked, proved (section 6) |
| 4 | `Rpc` | lanes, capacities, deadlines, one active write, shutdown | - | checked, proved (section 6) |
| 5 | `Delivery` | notices from freeze to decision: claims, caps, branches, yields, Main's restart | - | checked, proved (section 6) |
| 6 | `Watchdog` | budgets per step, rungs, provider waits, fallback, steers | - | checked, proved (section 6) |
| 7 | `Records` | what is retained of a task, against the contract of every save | - | checked, proved (section 6) |
| 8 | `Reporting` | latch, inbox and archive between a worker and the scan; both backends | the report steps of `PairLease` in detail | checked, proved (section 6) |
| 9 | `Checkpoint` | captures, checks, the freeze loop, acceptance, collection | the freeze steps of `PairLease` in detail | checked, proved (section 6) |
| 10 | `Session` | the session Pi runs and what `PiRuntime` believes of it | the settle and abort steps of `PairLease` in detail | checked, proved (section 6) |
| 11 | `Settings` | the settings files, the sessions that share them, staging | - | checked, proved (section 6) |
| 12 | `Algorithms` | hang, provider and scope classification, budget schedules | - | not begun |

The order is that of consequence: a writer let loose on a workspace under review (1), two
writers (2, 3), a transport that lies (4), a report lost or delivered twice (5), a worker driven
for ever (6), a state that cannot be saved (7), then what the first module takes as one step.

## 3. What is modelled

### `PairLease`

One task on one worker. Variables correspond to fields one to one (see the comments
at `VARIABLES`); `attemptId` and `leaseId` are always fresh together and become one
number, so "the report of an older lease" is a comparison of numbers.

- *The queue.* An action guarded by `Idle` is a whole transaction: transactions are
  serialised, so nothing else of the controller's queue happens inside it. Two
  transactions hold the queue across awaits in which the outside can act, and are
  split there: the launch of a fresh process (`Acquire`, then `LaunchEnd` or
  `LaunchRevoked`) and the grant of a lease (`WorkGrant`, `WorkAuthorize`,
  `WorkGranted` or `WorkUngranted`). Meanwhile `serial` says who holds the queue.
- *The jobs.* `works` are the activation jobs (`startReserved`, then `activate`),
  with the await each is at; `contains` are the containment jobs with the intent and
  generation their control was reserved under; `requests` are pause, cancel and stop
  calls whose synchronous half (`Call`) has happened and whose transaction is queued;
  `freeze`, `decision` and `recover` are the reservations of `finalizeReport`,
  `decide` and `autoRecover`.
- *The runtime and the process.* `rt` is the handle: none, cold (constructed), barred
  (its startup was revoked), live, fault (held) or closed (exited). `run` is the lease
  the process is working on, `draft` a `pair_report` call between its gate and its
  publication, `latch` the lease of the report last retained. The process may exit, or
  be killed, at any time, and may finish a run with or without a report.
- *Fences.* `RequireWork`, `WorkCurrent`, `LaunchCurrent`, `ControlCurrent`,
  `ReportCurrent`, `FreezeCurrent` and `DecisionCurrent` are the predicates of the same
  names (`current()` and `check()` inside `finalizeReport` and `decide`).

- *Refused saves.* `refused` is set when a resume archives a report that was never decided under the
  task's own id: the contract refuses that save and every later one. What runs on without the file is
  modelled: a resume or continuation that has assigned `activating` leaves no job, a call fails and its
  containment becomes one nobody waits for, a dispatch is put back, a launch takes its record back.
  `Records` has the other saves the contract refuses.

Left out of this module, on purpose: Main
fixes (in `Records`); repository locks (in `OwnerLock`); fallback providers (in `Watchdog`);
native-profile hygiene; a human's start, restart and configuration change, Main's restart and
`recover()` (in `Generations` and `Settings`). `IdleCalls` is a bound: with FALSE a human pauses or cancels
only while there is a task or a dispatch to act on. A failed post-acknowledgement handler is covered by the error status of the
record. `latch.json` and `inbox/` are one variable. Drift of the model's identity
and telemetry faults are among the causes of `RuntimeFault`. The abort signal of a
freeze has no variable: the freeze compares intents, and a set signal implies they
differ. What the freeze finds in the repository is a choice (commit, repair, fail), as
are the budgets of automatic recovery.

### `Assignment`

What the pair promises, in ten actions over four variables: one lease at a time, granted
only to a worker at rest; the report under review is that of the last lease, the worker
stays at rest while it is reviewed, and a report held by a pause comes back as that same
report and is never passed over. `PairLease` instantiates it with `status <- Standing`,
`working <- run`, `reviewed <- report`.

### `OwnerLock`

`acquireLock` with every filesystem call a step of its own: rename of the staged
directory, read of `owner.json`, the orphan check, the judgement (`ownerAlive`, and the
takeover rule of `ensureRepoLock`), removal, next attempt; the release; the death of a
process at any point. `fs.rm` is external: it unlinks the entries, then the
directory if it is empty. Nothing keeps attempts apart: a contender may have judged one owner and remove
another that has acquired the lock since. `purpose` is the lock's: a session's, where any dead owner is
removed, or a repository's, where the takeover rule reads the dead owner's saved state; that read may
fail, and `.catch(() => null)` (controller.js:950) then takes it for no task (`blind`). Two history
variables name what the properties except: `robbed` has who lost the lock to a removal that was not meant for
it, `beaten` the contenders during whose attempt another acquired it. `ownerAlive` is exact here: the process start time recorded
in `owner.json` excludes a reused pid. The 60 seconds an ownerless directory must be
old are modelled as "nobody alive is in the middle of removing it". Writing the staged
directory cannot collide (its name is unique) and is not a step.

### `Rpc`

`PiRpc`, one handle. A request ends in five ways (an answer, a deadline, a cancellation, a
fault, the end of the process) and each of them calls into the write lanes, which call
back into the requests; the order of those nested calls is what can go wrong, so the model
keeps it. `sync` is the stack of calls still to run in the current turn and `micro` the
queue of promise reactions behind it. Every method is one action on the call at the top of
the stack, and what it calls is pushed in order: `fail` runs `rejectAll` and
`rejectWrites` to their end before its own caller goes on, while the reaction to a
finished write (`Settled`) waits for the end of the turn. Timers and I/O (`IdleTurn`) act
only when both are empty; callers, who run in reactions of their own, when `sync` is.

- *Lanes.* `OnControl` requests and dialog answers go to the control lane, the rest to
  the ordinary one; `NORMAL_*` and `CONTROL_*` are the code's limits (count of requests,
  count of queued frames). Bytes are counted in frames (`held`).
- *A write.* `active` is being written; it ends when the callback and the drain are both in
  (`acks`). `wire` are the frames handed to `stdin.write`, what the code calls `attempted`.
- *Fences.* `fenced` holds the frames whose signal is aborted or whose guard fails, `due`
  those whose deadline has passed; `PumpHeld`, `PumpEnded`, `PumpLate` and `PumpFenced` are the
  refusals of `pump` in the code's order.
- *Shutdown.* `stop` is where the promise of `abortAndStop` or `closeIdle` stands:
  `clear_queue`, `abort`, end of stdin, SIGTERM, SIGKILL, unconfirmed.

`extend` re-arms the timer of a prompt and changes nothing else (a frame's own deadline stays): time is not
modelled, so it is no step, and `RequestTimer` is the firing that was not put off any more.

Errors are two classes, `cancelled` (known not to have been sent) and `lost`; answers are
one (success or not is the caller's business); the framing of stdout is `Reply` against
`StreamFails`; a write callback that arrives for a frame already finished has no effect and
is not a step. A worker is honest here: it answers each request it was sent at most once.

### `Generations`

Which worker may have a process, over all workers and over the sessions of Main. `PairLease`
looks inside one assignment; this module looks at the calls around it, so a task is only
"unresolved on worker *w*, to be resumed or not" (`task`, `paused`), and a record's status is
stopped, starting, ready (the process may be there: ready, working, paused, waiting), error,
or error with `EXIT_UNCONFIRMED` (`unproven`).

- *Calls are jobs.* `job[j].at` names the await a call is at: in the queue for its next
  transaction, waiting for readiness, for an exit, or for a proof. A call's synchronous half
  (the revocations of stop, restart, reset and pause) is the action of the call itself.
  `live` says that the worker's intent is still the one the job captured, so `Supersede` is
  the increment of `intent`. Close has one job per worker.
- *The queue.* A queued action is a whole transaction. Only `reserveStart` waits for something
  inside its transaction that others can act on meanwhile, so it alone is split
  (`ReserveFresh`, then `ReserveCommit` or `ReserveFails`, then `ReserveBuild` or
  `ReserveUndone`), with `serial` naming the job that keeps the queue. Of other transactions only
  the saving of files is awaited.
- *Generations* are numbered over all workers and records, so that one number is what the code
  compares as record identity, `workerGeneration` and `ownerEpoch` together; `born` is the
  identity of the record, which a reset replaces and a new generation does not.
- *Processes.* `alive` are the generations with a live process; a process may exit at any
  time and Main's death does not end it. `record[w].pid` is the recorded process, `unrecorded` the
  `onSpawn` transactions still in the queue. A proof of exit (`Provable`) needs a recorded process that
  is gone, and may still fail; a human who forces a reconciliation is taken at their word
  (`Vouched`).
- *Runtime.* `phase` is cold (built), barred (revoked before its spawn), up (spawned), failing
  (revoked while starting), ready, fault (held, being stopped) or closed.
- *Removal.* `removeWorker` stops, then archives and deletes the record in a transaction fenced by
  intent, record, status and handle, then saves the configuration outside the queue; a save that fails
  puts the record back if none has come in its place. The end of the task it cancels is the module's
  `TaskEnds` before the call. Which workers are configured has no variable.

- *An overwritten record.* `overwritten` is history: a `recover` has written `stopped` over the record of a
  process started since its proof (`Overwrites`), which is the finding of section 4. The properties hold until
  that step, and it is the only one that breaks them.

Left out: changes of configuration and the rebinding they cause, fallback providers, other saves that
fail, members of a worker's process group that outlive it. `abortAndStop` and `abortCurrent` are told to the runtime in the transaction that reserves the
control, and not in the reaction after it, where nothing relevant lies in between. `MaxGen` and
`MaxEpoch` are bounds: a start past the former is refused, as the code refuses others.

### `Delivery`

One report on its way from `finalizeReport` to Main. `notices` is `state.notices`; the rest of the
state is what the two sides keep in memory of a delivery under way, and what Pi shows of Main.

- *Deliveries.* `flight[r]` is the job of `deliverNotice` or `claimSettledDelivery`: queued (the claim
  is a transaction), claimed, sent, received, failed or deferred, and then the transaction of
  `completeDelivery`. A claim that is revoked while it is saved puts the notice back to pending (`ClaimRevoked`,
  `SettleRevoked`); `withdrawn` remembers when that was a delivery the human had asked for. `boundary` is the offer that `agent_before_settle` waits for; `settle` the claim
  `agent_settled` waits for; `due` a call of `autoDeliver` that is to come; `reverts` the queued
  transactions of `revertOffer`.
- *Comparisons.* The code notes a counter (`activity`, `mainPhase.revision`, `branch`, the run token)
  and compares it later. Only the answer is kept: `quiet`, `same`, `current`, `here`.
- *Main.* `main` is what the extension sees: a run that is idle, running, settling (before settle) or
  ended, how it ended, typed and pending input, a wake prompt, a compaction. `waking` is `idleWake`: an input
  that crosses the wake of a report is put aside, the run aborted, and the message sent when it has settled
  (`Rescue`, `Resend`). `queue` are Pair's
  messages Pi holds back; `copies` the messages on the conversation's branch.
- *Events.* A user's input, a message Pi loses, a compaction, a navigation that may leave messages
  behind, a human's command, a restart of Main: `MaxEvents` of them, and after that input between the
  runs of Main without bound, so that the runs the liveness property speaks of can go on.

Left out: the return to an earlier branch, a Main that is
busy for two hours on end (`RECEIPT_MAX_MS`), the delivery log. Pi is taken to settle with an empty
queue after an aborted run (actor-runtime.js:872).

### `Watchdog`

What Pair does by itself about a step that does not end in a report. The record `book` is
`t.watchdog`, reset by `SetBook` when the step has changed, as `watchdogFor` does; `steers` is the count
of `steer`; `fallback` the position in the list of fallback providers; `mains` the recoveries asked of
Main. A run ends in one of thirteen ways (`AllEnds`), any number of times: a plain end, an end with a
retained report, a transient or quota error of the provider, a crash, a drift, a limit of time, cost or
tools, and the classes of a hang. `scan` and `recovery` are the awaits of `scanWorker` and `autoRecover`,
between which a user, Main and a restart of Main act; `told` are the states Main was woken for.
`done` counts what was really done in this step, whatever the bookkeeping says: the budgets are stated
about it. The time of a retry is left out (it may be due at any time), pings are part of a hang's
class, and containment is one step.

### `Records`

What is retained of a task, in memory and on disk, and the contract `persist()` holds every save to.
`Contract` translates all that `validateStoredState` says of how fields relate to one another: one
unresolved task, no task listed as ended twice or while under way, notices that match their report, every step named once, reports of steps in the plan,
the last report and decision among those kept, a Main fix with the report it is for, counters within
their limits. `Stored(m)` is how nearly every transaction ends: memory has changed, the file follows if
the contract accepts it. Only `DispatchTask` puts memory back. Only the contract
makes a save fail here: one that fails on I/O (after which memory has moved on just the same, but a later save may
write it) is left out. A revise keeps, replaces, drops or adds later steps. Handlers are whole transactions with their
loops and trims (history of the worker, repairs, reasons); what comes between transactions is in
`PairLease`. Report and decision identifiers are small numbers; texts, hashes, requests and owner
identity are left out.

### `Reporting`

Between `pair_report` in the worker process and `pendingReport` in the controller there are files:
`authority.json`, `latch.json`, `inbox/`, the archive. A call in the worker is at one of its awaits
(`latch`, `publish`, `link`, `close`) and calls of one turn are queued behind it; a write may fail, land
and fail afterwards, or be cut off. The scan has a stage per await (`inbox`, `file`, `archive`, `unlink`,
`latch`, `judge`) and remembers the settle counter it read first. The low backend has no `pair_report`: the
runtime publishes the result of the process once (`LowPublish`), settles (`LowSettle`), and passes the
same files. `effect` and `late` say whether a tool began, and began behind the report. A lease is a
number; the generation, nonce and session the code compares are folded into it; a report is its lease
and one of two texts.

### `Checkpoint`

Evidence against a tree that anyone may write to at any time. A capture reads one file after the other
(`ReadFile`, then `Captured`); `finalizeReport` captures, runs the checks, captures after each, builds the
delta, and captures again until two captures agree or `FREEZE_ATTEMPTS` are used up; `completeMainFix`
does the same for a Main fix, and a first capture makes the base of a task. `store` are the blobs,
snapshots and manifests on disk, written one by one; `known` is the memory of stored blobs; `sweep` is a
collection, in three stages, beside whatever else goes on. `history` keeps what was accepted, what was
frozen and which trees existed, for the properties. A `Write` never restores earlier content (Pair
cannot tell such a tree from an untouched one); the user may restore a report's tree as a whole.
A revoked operation ends at one of its checks, or at its save when a collection took its base meanwhile.
The hash cache, patch texts, size limits and git's listing rules are left out; only the captures of a
freeze are read file by file. The blob of a symlink is written in place (evidence.js:268), every other one by
rename: `Links` are the files that are symlinks, and a Main that dies in the middle of such a write leaves half of
a blob (`store.torn`), which a later capture takes for stored and nothing rewrites.

### `Session`

`pi` is the session the process really runs: no run, one of Pair's or one another extension started
(stray), a turn under way, over or to be retried, a compaction, a held prompt. `down` and `up` are the
commands and events still on their way. `rt` is what `PiRuntime` believes (`#streaming`, `#unsettled`,
`#idleKnown`, ...), `act` the activation, `wait` the sleepers of `waitIdle`, `pc` the controller's calls
(activate, settle, stop, compact). Actions are the handlers of events (`Arrives`), continuations
(`GoesOn`), timers (`Clock`), Pi (`PiActs`) and the calls (`Asked`). `times` counts for the bounds and
remembers the exceptions the properties state. The bridge's round trips are one read of the state; an
answer's continuation runs before the next answer; sending a prompt and writing it are one step (`Rpc`
has the difference). Tools, dialogs, `queue_update`, steering and `closeIdle` are left out.

### `Settings`

Two sessions of Main in one workspace. `disk` has, for the global and the project scope, the current
file, the older `pair.json`, and backups; `loaded` what a session read last; `ctl` the controller's
configuration, what it has staged, and the worker's life (reserving, starting, ready, with the shape it
was started in); `op` the one file operation of a session with the await it is at (a field saved, a whole
layer saved, a backup imported, a reload, a migration); `rec` a reconciliation. A file is v1 (the shipped
format), handoff (the format of `pair.json`) or v2; a migration remembers where its source was (`mig`), renames
whatever is there by then, and after a failed publication copies back what it renamed. `base` is what an
operation read before it began to write, `LayerIn` the settings a file holds whatever its format, and `raced`
the fields another session changed on disk since a save read it. `Overlay` and
`With` are written out, since the prover knows nothing of TLC's `@@` and `:>`. Loading is one step; a check and the rename of the source are one
step; the change of the worker list, validation messages and the indicator file are left out.

## 4. Runs

| Run | Checks | Bounds |
|---|---|---|
| `pair` | `QuietWorkspace`, `HeldReportIsLatest`, `LeasesAreHeld`, `ImplementsAssignment`, `LeasesResolve` | 2 leases, 2 processes, pause and cancel (2 intents) while there is something to act on (`IdleCalls`), watchdog on; 0.67 M states |
| `rpc` | `OutcomesAreTrue`, `LanesBalanced`, `OrdinaryLaneHeld`, `IdleEndIsClean`, `CallsSettle` | a prompt with a dialog, a steer, a ping, and a stop beside each; lanes of 2 requests, of 2 frames and of 1; 0.44 M |
| `lock` | `SoleOwner`, `TakeoversAreRight` | 3 processes, 2 sessions, both kinds of lock, attempts that overlap in any way; 0.58 M |
| `generations` | `OneWriter`, `ProcessesAreKnown`, `NobodyIsStuck` | 2 workers, any call beside a start, then calls one at a time in a second session; 2 generations; 2.8 M |
| `gen_recover` | `OneWriter` is violated (finding) | 1 worker, 2 calls at once (dispatch, recover), 3 generations, 3 sessions |
| `delivery` | `NoticesAreTrue`, `NoSecondCopy`, `ArmedOfferIsQuiet`, `ActivatedOnBranch`, `ReportReaches` | 1 report, 2 attempts, a cap of 1, 1 event of any kind; 0.92 M |
| `watchdog` | `BudgetsHold`, `SteersExact`, `HeldIsSeen`, `LadderEnds` | 2 steps, every budget 1 or 2, 1 call of any kind beside approvals and nudges; run endings without bound; 0.76 M |
| `records` | `RecordsAgree`, `LoadsAgain`, `DecisionsCountOnce`, `ActivationsAreSaved` | 2 tasks of 2 steps, 2 reports, 3 events; every limit 1 or 2, with more automatic repairs (2) than are retained (1); 0.87 M |
| `checkpoint` | `CheckpointsAreReal`, `ReviewsTile`, `EvidenceKept` | 2 files, one a symlink, 1 check, 2 freeze attempts, 2 tasks, 2 reports, 2 writes and events together; 2.9 M |
| `session` | `IdleIsKnown`, `OwnRunKept`, `StopMeansStopped` | one each of activations, foreign runs, turns, retries, compactions and stops; 7.5 M |
| `reporting` | `JudgedByItsOwn`, `ReportEndsWork`, `ReportsAreTaken` | both backends, 2 leases, 2 calls of a lease, 1 failing write, 1 pause, exit or end of Main; 0.69 M |
| `settings` | `SettingsAreInForce`, `ConsentIsExplicit`, `FilesKeepTheirs` | 2 sessions, 4 initial disks, 2 edits, 1 death or failed publication; 1.8 M |

Several properties are conjunctions of named parts, which belong together: a run of TLC names the
conjunction, the comment at each part says what it is about.

*What the properties say.*

- `LeasesAreHeld`: whoever may act for a task, on disk (`AuthorityFollowsTask`) or in the runtime
  (`NoOrphanLease`), has a task that says so. `LeasesResolve`: activations, reports and containments end. Each names one exception:
  an activation whose save the contract refused, which nobody works on, and a report whose containment lost the
  process (`SettleLost`). A worker that is in error for another reason excuses nothing.
- `OutcomesAreTrue`: a frame reported as cancelled was not written, no answer is ever taken for an
  unasked one, and nothing is left pending when the process is gone. `CallsSettle`: every request and every
  stop ends by the timers alone.
- `SoleOwner`: two live processes believe that they own a lock only if one was robbed of it, by a removal meant
  for another owner: the code allows that, and the property says that nothing else does.
  `TakeoversAreRight`: the repository lock of a crashed Main with an unresolved task passes to its own session,
  to a contender that could not read its state, or by such a removal; and an acquisition that has removed a
  lock ends without it only if another was faster.
- `ProcessesAreKnown`: no live process is without a record that asks for the proof of its exit, the owner
  lock is released only when none is left, and a record that says a start is under way has somebody who
  makes it. `NobodyIsStuck` is a safety property in place of liveness: in every state a job that waits has
  somebody able to let it go on (the queue's holder is about to leave it, and a start whose runtime has nothing
  more to do may take `Started` or `StartFails`, whose guards are `Resolves` and `Rejects`).
- `NoticesAreTrue`: the one unresolved notice is the waiting report's, and what counts as delivered by
  itself is in the conversation. `NoSecondCopy`, `ArmedOfferIsQuiet`, `ActivatedOnBranch`: no second copy
  without a human, no insertion on a stale yield, no release of work on another branch; the first two have the
  exceptions `withdrawn` and `rescued = "held"`. `ReportReaches`: as
  long as runs of Main complete, a report does not stay in the inbox or in a delivery, and one whose deliveries
  have failed for good does not stay unnoticed: Main is asked to fetch it, or woken for the task that waits on it.
- `BudgetsHold` compares the budgets with what was done (`done`), not with the counters. `SteersExact`: the
  counter is the steers received and those under way. `HeldIsSeen`: a held task is resumed, a human's, or
  Main is woken. `LadderEnds`: Pair does not resume a step for ever without anybody else.
- `RecordsAgree`: memory meets the whole contract of a task, even after a save was refused, but for three
  things handlers leave there: `StepReplaced` (contracts.js:545), `ReportArchived` (838-844) and
  `RepairsOverflow` (660). `LoadsAgain`: what `init` makes of
  any saved state may be saved again. `DecisionsCountOnce`: one decision for each step behind.
  `ActivationsAreSaved`: a worker runs only on an attempt that is on disk.
- `CheckpointsAreReal`: what Main approves is a tree that existed, and a passing check speaks of that tree
  or is marked as drifted. `ReviewsTile`: the base of every review is what was accepted last. `EvidenceKept`:
  what a record refers to is stored, and can be read unless it is the half-written blob of a symlink.
- `IdleIsKnown`: idle means idle, and no sleeper is forgotten. `OwnRunKept`: Pair's automatic aborts do not hit
  Pair's own run. `StopMeansStopped`: a contained worker has no run.
- `JudgedByItsOwn`, `ReportEndsWork`, `ReportsAreTaken`: a step is judged by its own report, nothing of a
  lease begins behind its report, and no report or settled run is left lying.
- `SettingsAreInForce`, `ConsentIsExplicit`, `FilesKeepTheirs`: a change is applied or staged, Pair is on only
  by a human's choice, and what a save overwrites. The last speaks of field saves and whole-layer saves alike: an
  older file stays, in its place or as a backup, unless it is the file a whole layer is saved over; and a save
  undoes in other fields only what was saved after it had read, which for a whole layer is when its session
  loaded, however long ago.

*Exceptions.* Where the code breaks what a property would say without them, the property names the case, as
narrowly as the model can tell it apart, and the case is a disagreement listed below: `refused` and `SettleLost`
(`PairLease`), `robbed` and `blind` (`OwnerLock`), `overwritten` (`Generations`, in the theorems; the run leaves
overlapping recoveries to `gen_recover`), `withdrawn` and `rescued` (`Delivery`), `StepReplaced`,
`ReportArchived` and `RepairsOverflow` (`Records`), `store.torn` (`Checkpoint`), `ChangedSince` and the
canonical file of a whole save (`Settings`), `times["early"]`, `times["crowded"]` and `reap` (`Session`). Such a
property says that these are the only ways.

*Why the bounds are enough.* Nearly every fence compares one number with the current one, so
what matters is "the same" against "older": two leases, generations, reports or tasks make the older one.
One human call can overtake a job; a second intent overtakes the first call's own transaction.
`MaxLease`, `MaxGen` and `MaxIntent` bound granting, launching and the human's calls only: nothing the
controller does by itself is cut off, so the liveness properties have no artificial end. In `Delivery`
the same is true of the runs of Main (input between them is free once `MaxEvents` is used up), in
`Watchdog` of the ends of runs. Deadlock is not checked: a system in which the human does nothing more
and the bounds are reached has really stopped.

In `Rpc` every limit is reached: two control requests of a stop beside a dialog overflow a lane of one
frame. The prompt is observed after its write (a cancellation leaves it), a steer is not, a ping is on the
control lane with a guard and no signal. The constraint `FewAtOnce` follows the prompt with the answer to a
dialog, the steer and the ping each to the end beside a stop, and prompt, steer and answer all together
until one of them is late, revoked or written or a stop begins to run: that is where a fault takes an
ordinary frame out of the queue behind another (`PumpHeld`).
In `Generations` a call is one job, so two slots are two calls that overlap in every way; close has
jobs of its own and meets both. A start is what the other ten calls must be fenced against; after Main's
death, which ends all jobs, `OneLater` lets the next session make one call at a time. Two
generations are an old one and its replacement. The limits 3 (`MAX_AUTO_ATTEMPTS`,
`FREEZE_ATTEMPTS`), 5 (`RETAINED_TASKS`) and the budgets of the watchdog are constants of the modules, and
1 or 2 in the runs: they are reached, passed by one, and refused. `Records` has one automatic repair more than
repairs are retained, as a configuration of `autoRepairsPerStep` above 8 has. In `OwnerLock` two processes are one
that was judged and one that judges; the third acquires in between.

*Larger instances*, run once, without an error: `PairLease` with calls at any time (`IdleCalls`, 1.2 M states),
and with every caller, calls at any time and three leases (18.6 M, safety and refinement); `Rpc` with three
requests (3.5 M, the safety properties), and with a steer and a dialog to the end (0.7 M); `Delivery` with two human
commands (2.1 M), and with two of human, restart, navigation and loss (3.9 M); `Session` with two activations and
two stops; `Checkpoint` with plans of two steps (14.8 M, without symlinks); `Records` with three reports and two
events (2.7 M); `Reporting` with a repair and three calls (1.8 M). `Generations` with overlapping calls in both
sessions was followed for 18.8 M states, without exhausting them.

*Mutants.* For each property of each passing run, `PROJECT.json` names at least one small change of
the code's definition, written next to the definition it changes (`DecrementIfCurrent`,
`WorkPromptUnfenced`, `ReconcileFenceByRecord`, `NudgeNotedForStep`, ...), under which TLC finds that
property violated. A conjunction has one for most of its parts.

### Finding

**Two worker processes can run at once after overlapping recoveries** (`gen_recover`). `recover()` waits
for the proof of exit outside the queue and then writes `stopped` over the record, comparing
only its identity. If another recovery of the same task has started a generation meanwhile, its
live process is saved as stopped. Should Main die then, the next session asks for no proof and
starts a second process. `reconcile`, in the same place, also checks that no handle exists
(`ReconcileFence`; without it `ProcessesAreKnown` fails).

### Disagreements met while modelling

They have no run of their own. Each was a violated property of a module here, or of an earlier form of
it, or was read off the code directly.

*Assignments and processes.*

- *A human pause can be undone by the watchdog.* `autoRecover` checks `humanPaused` in its guard
  transaction (controller.js:2900) and then awaits; `resume` (2775-2789) does not look at `pausedBy`. A pause
  recorded in between is lifted. README.md:659 and watchdog-core.test.js:96 say it never happens; the
  test pauses before the guard.
- *A reported task can stay `awaiting_settle`.* When the settle abort of a reported run ends with the process
  gone, `contain()` (2745) marks the record in error and every later scan returns early (1531), against
  README.md:657 and 673. `ReportResolves` says that this is the only way: a reported task resolves, unless its
  record is in error *and* the runtime is held or gone (`SettleLost`).
- *Two contenders can both hold a lock.* `acquireLock` judges the owner it has read and then removes
  whatever is at the path (util.js:291), which may be a lock acquired since; the one robbed keeps working, and its
  release removes the lock of the other (278). Nothing keeps attempts apart. `SoleOwner` says, and it is proved for any
  overlap, that two owners come about in no other way.
- *An unreadable state gives a repository away.* When the saved state of a dead owner cannot be read, the takeover
  takes it for a session without a task (controller.js:950) and removes the lock of a task that may be unresolved.
- *A worker holding a task can be displaced.* `switchTo` checks the worker in one transaction (`Choose`) and
  stops it in another (`StopBegin`), which compares only the intent, and a dispatch accepted in between does
  not change the intent. README.md:262 and 344 say it never happens.
- *A removed worker's files can be those of its successor.* `removeWorker` deletes the worker's directory
  (controller.js:805) without asking again who it belongs to: a start of the same name after the deletion of
  the record loses its files. When the human declines a pending migration, the save of the configuration
  returns without an error and the record is archived though the entry stays.

*Transport and session.*

- *A worker is never compacted before a task.* `compactContext` (actor-runtime.js:410) sends `compact` on the
  control lane, which admits five commands and not that one (rpc.js:23; `Eligible` in `Rpc`). The dispatch
  of a task to a live worker above the threshold fails instead, against README.md:723-733; the test's transport
  accepts everything. The maintenance mark and its timer stay behind (the `reap` exception of `OwnRunKept`).
- *A foreign run can settle Pair's activation.* `agent_settled` (actor-runtime.js:875) marks the current
  activation settled whether or not its prompt was sent; a foreign run that settles while an activation is
  being set up makes Pair abort the run of its own it starts next (the `times["early"]` exception; comment at
  858).
- A revoked prompt that Pi drops leaves `#unsettled` set, so the stop waits to its deadline and the process
  is killed; the `finally` that lowers `#bridge` wakes no waiter.

*Delivery.*

- *A report that failed three times is not asked about.* After `MAX_AUTO_ATTEMPTS` the status is
  `delivery_failed` (controller.js:2088), which neither `autoOfferNotices` nor `heldNotices` sees, so an idle
  Main is not asked to fetch it, against 1977-1978 and supervision-notices.test.js:182. What reaches Main is the
  idle check, which wakes it once for the task that waits; `ReportReaches` asks for one of the two.
- *A delivered report can be pending again.* A delivery the human asks for claims a report that was delivered
  before; revoked while the claim is saved, it becomes `pending` (controller.js:2074), and `boundaryOffer`, unlike
  `claimUnlocked` (2071), does not ask `mainHasDelivery`: an armed yield then inserts a second copy (the exception
  `withdrawn` of `NoSecondCopy`).
- *A message put aside is not activity.* An input that crosses the wake of a report is kept and the run aborted
  (main.js:1315-1320), before `noteActivity` is called; when the abort comes too late for a yield of that run,
  the report is inserted in front of the message (the exception `rescued` of `ArmedOfferIsQuiet`).
- *A deferral can miss its retry.* A delivery deferred because Main was busy is retried when that ends
  (`CompactEnd`, `Settled`). If it ends before `completeDelivery` has recorded `pending`, the retry finds
  `delivery_pending`, and nothing calls again until Main's next run settles (2086, 2092).
- A run of Main that ends aborted or in error leaves a deferred report waiting with Main idle, against
  README.md:580-582, until a later run completes.

*Watchdog.*

- *A retry outlives the hold it was for.* A provider retry scheduled before a human or Main resumed the step
  stays in the book; when it falls due it resumes a task that is by then held for another reason
  (controller.js:1487, against 350, 1095 and 1684), and meanwhile suppresses the soft nudge (1664).
- README.md:687-688 and controller.js:1691 say that a provider wait spends no recovery; its resume counts one
  (2906). The comment at 1377-1378 says a repair never re-queues a final review; the code (1379) may.

*Reports.*

- *"No report" is found only once per worker.* `retainedReport` (controller.js:1615) is true for any
  `latch.json`, which nothing removes: after a worker's first report every later run that ends without one
  counts as "retained", and neither the re-prompt (1690) nor the provider wait (1695) happens, against
  the comment at 1688.
- `telemetry.detachedEffect` is written for a controller that "must still see" it (worker.js:198) and is never
  read there. A report accepted from the latch whose inbox link failed is not archived, and later judged
  unproven, with a warning.

*Evidence.*

- *An automatic repair is not re-proved.* It is activated without the guard of other continuations
  (controller.js:1894-1897), against the comment at 1888-1889 and 2349-2350: the tree may have changed since the
  checkpoint. `completeMainFix` captures again after a change (2484-2491) without marking the checks as
  drifted, as `finalizeReport` does.
- *Half of a symlink's blob counts as stored.* It is written in place (evidence.js:268), other blobs by rename. A Main
  that dies while it writes leaves a part, `hasBlob` finds it from then on, nothing rewrites it, and the inspection
  of that file fails for every checkpoint that has it (`store.torn`, the exception of `EvidenceKept`).

*State and contract.*

- *A resume after a failed freeze cannot be saved.* It puts the task's own id into the worker's history
  (controller.js:2803), which `checkRetainedReferences` (contracts.js:840-844) refuses, then and ever after, against
  the advice at 1908-1911. The resume throws after `activating` was assigned and without a job (2799-2808), and until a
  human acts the task stays so: the exception `refused` of `LeasesAreHeld` and `LeasesResolve`, and `ReportArchived`
  of `RecordsAgree`.
- *A Main fix on a worker in error* is recorded before `reserveStart` throws (2494-2520, against 2276-2277).
  A `revise` whose current step is replaced keeps `t.report` of a step no longer in the plan (contracts.js:545;
  `StepReplaced`).
  A `revise` refused after `t.stepReplans` was counted spends it (2366). With `autoRepairsPerStep` of nine, or
  nine failed checks, or twelve checks and a drift, the retained repairs (contracts.js:660; `RepairsOverflow`),
  reasons and checks exceed what the contract accepts.

*Settings.*

- *A save can be from an old copy.* `saveLayer` (main.js:699-709; the reset of a row and Edit as JSON in the
  settings screen) writes the layer the session loaded, without reading the file again, against README.md:275
  ("A save never rewrites the file from the copy the session loaded") and settings-screen.js:789: every other field
  that another session changed since is undone. `EditsKeepOthers` says that no other field is. It also writes
  a current file beside a pending `pair.json`, which is a conflict from then on, writes over a shipped-v1 file without a
  backup (702, the exception of `OlderFilesKept`), and says "not saved" when only the reload failed.
- A global edit that is valid by itself can make a project's merged configuration invalid; no save from
  that project works then. A death between the rename of the source and the publication leaves
  no configuration, and the next session loads defaults without a word.

## 5. Fairness

`Fairness` in `PairLease` assumes only what the scheduling gives. The queue is a promise
chain: a queued transaction runs (`Launch`, `RequestStep`, the transactions inside the
jobs, `Recover`). The scan is a timer (`Scan`). Every RPC, startup and abort a job awaits has a
deadline after which the job fails (`WorkStep`, where `WorkFails` is always possible;
`ContainStep`; `Freeze`); an abort in progress ends at idle or holds the runtime as
faulted. Nothing is assumed of the human, of Main's decisions, or of the worker: it may
never report, never settle, or exit. All of it is weak fairness, of whole groups of
actions: no particular outcome is promised.

In `Rpc` the event loop runs what is on its stack and in its queue (`Run`), and each timer it
has set fires (`Expire`, `RequestTimer`, `WriteTimer`, `Escalate`). The worker owes nothing:
neither an answer, nor a drain, nor its own end after SIGKILL.

In `Delivery` the controller's own transactions run (`AutoDeliver`, `Scan`, `SettleClaim`, the steps of a
delivery, `Revert`). `ReceiptMissing` is strongly fair: the poll of `awaitReceipt` is a timer, and finds Main
free if Main is free again and again. Nothing is assumed of Main or Pi; that runs of Main go on completing is
the premise of `ReportReaches` itself, and a run only completes when what was queued for it was taken.

In `Watchdog` the queue (`Automatic`), the scan timer (`ScanQuiet`) and the retry timer (`RetryDue`) are weakly
fair; runs may end in any way or never. In `Reporting` the timer's scan (`Scan`), a `pair_report` call or a
publication under way (`Report`, `LowPublish`, `LowSettle`) and the pause's transaction go on; nothing
promises that the model ever reports or settles.

`Generations`, `Records`, `Checkpoint`, `Session` and `Settings` state no liveness and assume no fairness;
`NobodyIsStuck` and `SleepersHaveReason` are the safety side of it.

## 6. Proofs

The theorems are in the modules `PairLease_proofs`, `Rpc_proofs`, `Generations_proofs`, `Delivery_proofs`,
`Watchdog_proofs`, `Checkpoint_proofs`, in `Files_proofs` for the two protocols over files that outlive the
processes using them, `OwnerLock` and `Settings`, and for `Records`, the state on disk; and in `Worker_proofs` for
the two between Pair and a worker process, `Reporting` and `Session` (`OwnerLock`, `Records` and `Session` have
names of their own for that: `LockSpec`, `RecordsSpec`, `SessionSpec`, `RenameLock`). TLAPS checks them from the
definitions of the modules, for every value of the constants: there is no bound on leases, processes, requests,
reports, attempts or calls, and nothing is assumed but the `ASSUME` of each module (which TLC evaluates in every
run): what the code breaks is an exception in the
property, never a hypothesis of its theorem. The inductive invariants are stated at the end of the component's module (those of
`Session` and `Records` with their proofs), as conjunctions of named parts, and were first checked by TLC on the
instance of the component's run and on larger ones.

**`PairLease`**

- `TypeCorrect`: `Spec => []TypeOK` (from `LeaseAssumption`).
- `LeaseInvariant`: `Spec => []LeaseInv`. `QuietWorkspace` is not inductive: that nobody
  works when a lease is granted depends on why the retained runtime may be reused, hence on
  who is still containing it. `LeaseInv` adds: one job per lease, whose stage follows the
  status (`InvWork`); a run needs a process (`InvRun`); a launch in the queue has no
  runtime, and the task it is for has not moved (`InvLaunch`); `pendingControls` is at least
  the number of containments of this runtime (`InvCounted`), so that zero means none;
  no containment is open under a lease in force (`InvFree`); a containment whose call has
  returned has ended the run or lost the process (`InvContained`); hence a runtime that is
  held, uncounted and not in error is at rest (`InvHeld`); a report is held only by a pause
  (`InvPrevious`, `InvReport`). The counting lemmas (`AddCounted`, `BeginCounted`,
  `EndCounted`) are the only place that needs facts about cardinalities.
- `QuietWorkspaceHolds`, `HeldReportHolds`: consequences of it.
- `HeldInvariant`, `LeasesAreHeldHolds`: `LeasesAreHeld` speaks of the moments at which nobody holds the queue.
  `HeldInv` says what is so inside transactions: authority is for the running task (`InvAuthority`), a lease in
  force has its job, its supervised run or a queued call, or is an activation whose save was refused (`InvOwned`), no job is of a process still to be launched
  (`InvGens`), outside a lease the runtime's activation is gone, over or about to be dropped (`InvReserved`), and a
  prompt still unanswered is being aborted (`InvPrompting`). The attempt to prove it found an error of the model:
  where a stop forgets the runtime, the activation inside it has to go too (`ContainEnd`).
- `PairImplementsAssignment`: `Spec => Task!Spec`. Each action maps to one action of
  `Assignment` or to a stutter; `GrantRefines` covers the four ways a lease is granted.

**`OwnerLock`**

- `LockTypeCorrect`, `LockInvariant`, `SoleOwnerHolds`, `UnresolvedKeepsLockHolds`,
  `TakeoverSucceedsHolds` and their conjunction `TakeoversAreRightHolds`: for any processes and
  sessions, either kind of lock and any overlap of attempts, releases and deaths. `LockInv` says what a contender may
  still rely on between two calls: an owner that was not robbed has its name on the lock (`InvNamed`); what was judged
  removable is dead, and while its name is on the lock its session owes nothing the contender should have
  respected (`InvJudged`); who has removed a lock finds no owner on it, or was beaten to it (`InvBeaten`).

**`Rpc`**

- `RpcInvariant`: `Spec => []RpcInv`. A call that is still on the stack, and a reaction still in the queue, was decided
  in an earlier state of the map and the lanes; that it is still right when it runs is what has to be known. `RpcInv`
  says what may lie there and what it says of its frame: each call is about something it can take (`InvCalls`); a
  frame is queued and a reaction run only as the innermost call, a send is the last of its turn, and a stop has one
  body, which runs alone (`InvStack`); the two commands of a stop are sent once, in order, by the stop that is at
  that point (`InvStop`); a request is in the map exactly while its promise is open (`InvRequests`); a frame waits, is
  being written or is done, a frame to be settled is in no lane, and one to be settled as cancelled was never written
  (`InvFrames`); a written request is given up only behind a fault, a stop or the end of the process, or while the
  call that makes it a fault is on the stack (`InvAnswers`); and after the end of the process the map and the lanes
  are empty or about to be emptied, and nothing is queued again (`InvClosed`).
- The steps fall into families, each with one lemma: calls only (`CallsMove`), a frame that leaves its lane
  (`FramesLeave`), a promise that settles (`PromisesSettle`), a new request (`NewEnds`, `NewPends`) and a step of the
  process (`LifeMoves`). Under them lie the lemmas on sequences (`WithoutOne`, `StackPush`) and counts (`LaneCounts`).
- `OutcomesAreTrueHolds`, `LanesBalancedHolds` and the action properties `OrdinaryLaneHeldHolds` and
  `IdleEndIsCleanHolds`: for any requests, dialogs, capacities and orders of completion.

**`Generations`**

- `GenerationsTyped`: the types, with the relations of a job's record to its kind, without any hypothesis.
- `GenerationInvariant`, `OneWriterHolds`, `ProcessesAreKnownHolds`: for any calls, crashes, restarts and removals, in any
  number and order, recoveries beside one another included, until a `recover` overwrites the record of a process started
  since its proof (`overwritten`, controller.js:3077). The code allows that step: the run `gen_recover` shows the two
  writers it leads to (the finding of section 4). The theorems say that it is the only step that does. `GenInv`
  says which process each record, runtime and call in flight may still speak of: one record at most is not settled
  and every runtime is the one its record names (`InvRecords`); the queue is held only by a reservation, and nothing
  runs while one is under way (`InvSerial`); a call between two transactions remembers a generation that is still
  the record's, or one that no longer matters (`Knows`, in `InvJobs`).
- `NobodyIsStuckHolds`: for any calls, crashes, restarts and removals, overlapping recoveries included. Behind it is
  `WaitInv`: a start under way has its generation (`Numbered`) and a runtime without a phase has none (`HandlesFit`),
  so that a runtime that was replaced or removed answers the call that awaits it; the queue is held only by a
  reservation or by the building of a runtime (`QueueIsHeld`).

**`Delivery`**

- `DeliveryTyped`, `DeliveryTypeOK`: the types.
- `DeliveryInvariant`: `Spec => []DeliveryInv`. What a notice, a claim, a flight, an offer and Main's conversation say
  of one report, each in its own file or memory, changes at different times. `DeliveryInv` relates them: a report not
  yet frozen has left no trace (`InvFrozen`); the extension waits for an offer exactly while Pi waits to settle
  (`InvSettling`); a delivery under way has claimed its notice (`InvTaken`); a follow-up Pi holds is the one its
  delivery waits for (`InvQueue`); what Pair delivers by itself is not there before it is sent and there, or left
  behind, once it is received (`InvSent`, `InvOffered`, `InvOffer`); while a yield is armed nothing pending is in the
  conversation, unless it was withdrawn (`InvArmed`), and what the code still takes to be quiet has been, but for a
  message put aside (`InvQuiet`); a copy of the branch that still compares equal was taken after the last navigation
  (`InvBranch`).
- `NoticesAreTrueHolds`, `NoSecondCopyHolds`, `ArmedOfferIsQuietHolds`, `ActivatedOnBranchHolds`: one invariant and
  three action properties that follow from it, for any number of reports, attempts, yields and restarts.

**`Watchdog`**

- `WatchdogTyped`: the types, with the one relation they need, that a worker is only stopped for a fallback that is
  left (`SwitchLeft`): so the index of the fallback is always one the configuration has.
- `WatchdogInvariant`: `Spec => []WatchInv`. `BudgetsHold` counts what was really done, the code counts what it wrote
  down, on a page that a new step abandons and a restart reads back. `WatchInv` says that the pages cover the deeds:
  what was saved is of this step and nothing is kept of a later one (`InvSteps`); what was done is on the books, in
  memory and on disk (`InvBooked`); a recovery is on the books before it is begun, and no decision of Main comes
  between (`InvCounted`); a message is under way only to an attempt that runs (`InvUnderway`); an attempt that had its
  nudge is noted to have had it, or about to be (`InvNudged`).
- `BudgetsHoldHolds`, `SteersExactHolds`: consequences, for any budgets, calls, ends of runs and number of restarts.

**`Checkpoint`**

- `CheckpointTyped`: the types, with what a snapshot, a manifest and a recorded checkpoint consist of.
- `CheckpointInvariant`: `Spec => []CheckpointInv`. Files are read one after the other while others write to them, so
  that no state says whether a capture was ever the tree. `CheckpointInv` says what there is between two captures:
  contents only grow while an operation reads, and while the tree is read once more there is a tree it really was,
  not older than the first capture and not newer than the second (`InvReads`); when the two agree it is that one
  (`Pinned`). Checks that passed saw nothing else (`InvVerdict`). An operation that was not revoked has its task at the
  status it began in, with its base (`InvWork`), which is what Main accepted last (`InvTask`); hence no task of a live
  operation is collected. What it read and saved is still stored when it commits (`InvStored`), although a collection
  forgets what is known; nobody writes the manifest of a checkpoint that is recorded (`InvFresh`); and a collection
  spares, in each of its stages, what the recorded checkpoints of the retained tasks need (`InvSweep`).
- `CheckpointsAreRealHolds`, `ReviewsTileHolds`, `EvidenceKeptHolds`: for any number of files, checks, attempts, tasks,
  writes, pauses, collections and restarts. That a content is never written twice is the assumption of the model
  (section 3), not of the proof alone.

**`Reporting`**

- `HandOverInvariant`, `ReportingTypeCorrect`: `Spec => []HandOverInv`, and the types in it. Worker and controller know
  of each other only what a file or an event told them, later. `HandOverInv` says what that is still good for:
  `authority.json` names the lease granted last, and whatever the worker is about to write belongs to it
  (`LeaseInv`); a worker whose repairs are spent has no call under way, so that a queued one finds the gate closed
  (`RepairInv`); until a step is under review nothing of its lease was reported or noticed (`TaskInv`); a settled run
  writes nothing more, and a scan that is to judge one has read the latch after that and found nothing it would not
  have taken (`VerdictInv`). That what the scan archives is a report had to be added to the types (`ScanTyped`).
- `JudgedByItsOwnHolds`, and the action property in `ReportEndsWorkHolds`: for both backends, any texts, leases, repair
  limits, calls, failed writes, pauses, exits and ends of Main.

**`Settings`**

- `SettingsTyped`: the types; that a layer over a configuration is a configuration is `OverlayIs`.
- `SettingsInvariant`: `Spec => []SettingsInv`. Nothing locks the files, so what an operation still relies on after an
  await is what another session may have changed. `SettingsInv` says what it may rely on: without consent nothing
  stored, loaded, staged or about to be written turns Pair on (`InvConsent`); an older file that has no backup is the
  one every session knows of, and is renamed before anything is saved field by field (`InvUnsaved`); a migration's
  source is among the backups until it ends (`InvBacked`); a layer about to be written agrees with the file outside
  its own field and what was saved since it was read, and a whole one with what its session loaded (`InvUnraced`). The parts are about one session each, so a step
  is proved from what it makes of its own session (`SessionStep`) or of the files (`DiskStep`, `FitsOn`).
- `SettingsAreInForceHolds`, `ConsentIsExplicitHolds` and the action property `FilesKeepTheirsHolds`: for any number of
  sessions, edits, imports, reloads, deaths and failed publications, and any files at the start. The proof found an
  error of the model: a migration overtaken by another session's renames a current file, and it had restored it as an
  older one.

**`Session`**

- `SessionInvariant`: `SessionSpec => []SessionInv`. Two pipes lie between Pair and Pi, so neither what Pair believes
  nor what an answer says is true of the moment it is used in; only together with what is still on its way does it say
  something. `SessionInv` is about both. Each function has at most one command on its way, and waits for its answer
  (`LineInv`); the activation and the stop are where the flags of `PiRuntime` say they are (`CallersInv`). What Pi
  does, Pair knows or an event on its way will tell it, and no later one takes it back (`ToldInv`); hence a caller of
  `waitIdle` that sleeps has a reason that will end, or its wake-up on its way (`AskedInv`). A stop that found the
  session idle by an answer still finds the activation's run gone (`StoppedInv`); such a run belongs to a live
  activation that has not settled (`OwnInv`, `SettledIsOver`). The abort of a rejected run (`RejectsInv`) and that of
  an overdue compaction (`ReapsInv`) are ahead of the next prompt in the pipe, or over. After a fault only the types,
  `OwnRunKept` and `SettledIsOver` remain.
- The orders of messages are stated by position (`Tells`, `Open`, `First`, `Before`); lemmas say what appending a
  message and taking the first one does to each of them, so that an action is proved by what it adds to and takes from
  the pipes, one lemma per action (`...Step`).
- `SessionKeepsOwnRun`, `SessionIdleIsKnown` and the action property `SessionStops`: for any number of runs, foreign
  runs, turns, retries, compactions and stops, with either value of each switch.

**`Records`**

- `RecordsInvariant`: `RecordsSpec => []RecordsInv`. A save may be refused, and then memory is ahead of the file, by one
  handler or by many; so the invariant is stated of a state and of the counters, and holds of both copies. It carries
  what a handler relies on without looking: numbers are handed out once (`InvIds`); while a task waits for Main, now or
  behind a pause, its report is about the attempt, plan and step it is at, and undecided unless a Main fix could not
  continue (`InvAwaits`); a report not yet published is of the same attempt and nobody knows it (`InvPending`); what was
  decided matches the report retained (`InvDecided`); one decision ended each step behind, none the others
  (`InvEnded`); re-plans and repairs are within their limits (`InvBooks`). `InvWork` relates the two copies: from the
  reservation of an attempt until it runs they are equal, and an attempt begun without one is what the contract
  refuses. The lemmas `StatusMoves`, `RotateMoves` and `NoticesMove` say it once for all handlers that only move a
  status, begin an attempt or settle notices.
- `RecordsTyped`, `LoadsAgainHolds`, `DecisionsCountOnceHolds`, `ActivationsAreSavedHolds`: for any plan, limits,
  failures, refused saves, events and restarts.
- `HistoryInvariant`: no task is listed as ended twice, and one under way only behind a report that resume put aside.
- `RecordsAgreeHolds`: `RecordsSpec => []RecordsAgree`, for any limits, those of the repairs included: the whole contract of
  a task, but for the three cases the property names (section 4, *State and contract*).
- The proof found an error of the model: a revised plan took its new step's identity from the number of identities
  in the plan, which an earlier revision may have left in use. It now takes any identity not in the plan, as the code
  lets Main choose one.

**Only model-checked.** All liveness, which is out of this prover's reach together with fairness (`ReportReaches`,
`HeldIsSeen`, `LadderEnds` and those of `PairLease`, `Rpc`, `Reporting`). Every other property of a passing run is a
theorem. So is `NobodyIsStuck`, which would be `ENABLED (Started(j) \/ StartFails(j))`, a form out of the prover's
reach: it names the guards of the two actions instead. That both say the same of a call that awaits a startup was
model-checked once, in all states of the run `generations`.

## 7. Not modelled

The native profile, peer review, timeline, transcript and the screens keep no state that any
authority decision reads. How texts and paths are classified (hang, provider, scope) and how usage is
summed are functions of strings and numbers; what their results lead to is in `Watchdog`. Of the modelled
components, what is left out is named at each module in section 3, and in the notes of `PROJECT.json`. Three
things are left out everywhere: a disk that loses what was written and renamed, the wording of
messages, and the identity of a process beyond its start time.
