------------------------------ MODULE Watchdog ------------------------------
(***************************************************************************)
(* What Pair does on its own about a step that does not end in a report:   *)
(* the scan that finds it, the bookkeeping that bounds every remedy per    *)
(* step (recoveries, re-prompts, provider waits, repairs, steers), the     *)
(* follow-ups that carry a remedy out after the worker is contained, and   *)
(* the hand-over to Main. The user, Main and a restart of Main come        *)
(* between any two steps.                                                  *)
(*                                                                         *)
(* One worker and one task. An attempt, a lease and a process are the      *)
(* business of PairLease and Generations; here a task runs or is held.     *)
(***************************************************************************)
EXTENDS Integers

CONSTANTS
  MaxSteps,       \* bound: steps of the plan
  MaxRecoveries,  \* control.maxAutoRecoveriesPerStep
  MaxNudges,      \* control.noReportNudges
  MaxWaits,       \* control.maxProviderWaits
  FallbackAfter,  \* control.fallbackAfterWaits
  Fallbacks,      \* how many fallbacks the worker's configuration names
  MaxRepairs,     \* control.autoRepairsPerStep
  MaxMain,        \* config.maxMainRecoveries
  MaxSteers,      \* control.maxSteersPerStep
  Ends,           \* how a run may end or stop, of AllEnds
  Calls,          \* what may be called or happen from outside, of AllCalls
  MaxCalls        \* bound: how many of those calls, approvals and nudges aside

AllEnds  == {"plain", "retained", "transient", "quota", "crash", "drift", "time", "cost",
             "tool", "stalled", "frozen", "clean", "mechanical"}
AllCalls == {"approve", "revise", "cancel", "pause", "resume", "stop", "reconcile", "recover",
             "steer", "nudge", "toggle", "restart"}

ASSUME WatchdogAssumption ==
  /\ MaxSteps \in Nat \ {0}
  /\ {MaxRecoveries, MaxNudges, MaxWaits, FallbackAfter, Fallbacks, MaxRepairs, MaxMain, MaxSteers} \subseteq Nat
  /\ MaxCalls \in Nat /\ Ends \subseteq AllEnds /\ Calls \subseteq AllCalls

VARIABLES
  on,       \* control.watchdog
  task,     \* t.status, whether a human paused it, and what its interruption says
  spent,    \* limitExceeded: the cost or token budget is used up
  worker,   \* r.status: live, error, unconfirmed (an error with EXIT_UNCONFIRMED), stopped
  step,     \* t.stepIndex
  book,     \* t.watchdog
  steers,   \* t.stepSteers
  fallback, \* fallbacks taken so far (r.fallback.index + 1)
  mains,    \* t.mainRecoveries
  saved,    \* what state.json says of the above
  scan,     \* the scan, its job and its follow-up
  recovery, \* recover(): Main's call waits for the worker to stop
  sending,  \* steer(): the message of each author
  told,     \* settledReported, for this attempt: the states Main was woken for
  calls,    \* how many calls there have been
  done      \* history, for the properties: what was really done in this step

durable == <<task, worker, step, book, steers, fallback, mains>>
Durable == [task |-> task, worker |-> worker, step |-> step, book |-> book,
            steers |-> steers, fallback |-> fallback, mains |-> mains]
vars    == <<on, durable, spent, saved, scan, recovery, sending, told, calls, done>>

Authors == {"person", "nudge"}     \* Main or the user; the watchdog
FreshBook(s) == [step |-> s, recoveries |-> 0, nudges |-> 0, waits |-> 0, repairs |-> 0,
                 retry |-> "none", nudged |-> "none"]
NoScan  == [at |-> "idle", kind |-> "none", current |-> FALSE]
Nothing == [recoveries |-> 0, nudges |-> 0, waits |-> 0, repairs |-> 0, steers |-> 0, soft |-> 0, by |-> "person"]
Kinds   == {"none", "crash", "no-report", "provider", "fallback", "tool", "stalled", "frozen"}

\* Types of every variable.
TypeOK ==
  /\ on \in BOOLEAN /\ spent \in BOOLEAN
  /\ task \in [status : {"running", "interrupted", "paused", "held", "waiting", "done"}, human : BOOLEAN,
               why : {"none", "provider", "report", "crash", "drift", "limit", "hang", "freeze", "stop", "restart"}]
  /\ worker \in {"live", "error", "unconfirmed", "stopped"}
  /\ step \in 1..MaxSteps
  /\ book \in [step : 1..MaxSteps, recoveries : 0..MaxRecoveries, nudges : 0..MaxNudges, waits : 0..MaxWaits,
               repairs : 0..MaxRepairs, retry : {"none", "waiting", "due"}, nudged : {"none", "this", "earlier"}]
  /\ steers \in [step : 1..MaxSteps, count : 0..MaxSteers]
  /\ fallback \in 0..Fallbacks /\ mains \in 0..MaxMain
  /\ scan \in [at : {"idle", "containing", "follow", "guard", "counted", "stopping", "resuming", "switching", "stopped", "notices"},
               kind : Kinds, current : BOOLEAN]
  /\ recovery \in {"none", "stopping", "resuming"}
  /\ sending \in [Authors -> {"none", "sent", "queued", "refused", "noting"}]
  /\ told \subseteq {"interrupted", "paused", "waiting"} /\ calls \in 0..MaxCalls

Init ==
  /\ on = TRUE /\ spent = FALSE /\ worker = "live" /\ step = 1
  /\ task = [status |-> "running", human |-> FALSE, why |-> "none"]
  /\ book = FreshBook(1) /\ steers = [step |-> 1, count |-> 0]
  /\ fallback = 0 /\ mains = 0 /\ saved = Durable
  /\ scan = NoScan /\ recovery = "none" /\ sending = [a \in Authors |-> "none"]
  /\ told = {} /\ calls = 0 /\ done = Nothing

-----------------------------------------------------------------------------
(* What the code reads and what several handlers do. *)

\* watchdogFor: the bookkeeping of the step the task is at.
Book == IF book.step = step THEN book ELSE FreshBook(step)

Held      == task.status \in {"interrupted", "paused", "held"}
Running   == task.status = "running" /\ worker = "live"
ScanIdle  == scan.at = "idle" /\ sending["nudge"] = "none"
WaitingOrDue == on /\ book.retry # "none"
Waiting   == on /\ book.retry = "waiting"                   \* automaticPending
WakeFor   == IF task.status \in {"interrupted", "paused", "waiting"} /\ ~task.human /\ ~Waiting
             THEN {task.status} ELSE {}

Persist == saved' = [task |-> task', worker |-> worker', step |-> step', book |-> book',
                     steers |-> steers', fallback |-> fallback', mains |-> mains']

\* setWatchdog
SetBookOfOldStep(new) == book' = [new EXCEPT !.step = book.step]
SetBook(new) == book' = [new EXCEPT !.step = step]

\* The activation is revoked: a message still on its way is refused.
Revoked == sending' = [a \in Authors |-> IF sending[a] = "sent" THEN "refused" ELSE sending[a]]

\* A control another one has superseded does not touch the record when its containment ends.
Supersede == scan' = [scan EXCEPT !.current = FALSE]

\* interrupt: the record is in error, the task interrupted unless it waits for Main or is paused.
Interrupt(why) ==
  /\ worker' = IF worker = "stopped" THEN worker ELSE "error"
  /\ task' = IF task.status \in {"running", "interrupted"}
              THEN [task EXCEPT !.status = "interrupted", !.why = why] ELSE task
  /\ Revoked

\* A new attempt is activated: the grant saves it.
Activate(by) ==
  /\ task' = [status |-> "running", human |-> FALSE, why |-> "none"]
  /\ worker' = "live" /\ told' = {}
  /\ done' = [done EXCEPT !.soft = 0, !.by = by]

\* The attempt the soft nudge was for is over.
RotatedAfresh(b) == FreshBook(b.step)
Rotated(b) == [b EXCEPT !.nudged = IF @ = "this" THEN "earlier" ELSE @]

WaitsLeft(waits) == waits < MaxWaits                         \* providerWaitsLeft

\* The steers counted for the step the task is at.
SteersOfAnyStep == steers.count
SteersSpent == IF steers.step = step THEN steers.count ELSE 0

\* A history counter stops one past its limit.
Past(n, limit) == IF n > limit THEN n ELSE n + 1

Call(kind) == kind \in Calls /\ calls < MaxCalls /\ calls' = calls + 1

-----------------------------------------------------------------------------
(* The scan, and the jobs and follow-ups it runs before the next scan. *)

ScanJob(kind) == scan' = [at |-> "containing", kind |-> kind, current |-> TRUE]

\* A run has settled, with neither a report nor a limit reached.
Ended(kind) == kind \in Ends /\ ScanIdle /\ Running /\ ~spent

ProviderFailed(kind) == on /\ kind \in {"transient", "quota"}
FallbackLeft(kind) == /\ fallback < Fallbacks
                      /\ kind = "quota" \/ Book.waits >= FallbackAfter

\* A classified provider failure, on a worker with a fallback left.
SwitchOnFailure(kind) ==
  /\ Ended(kind) /\ ProviderFailed(kind) /\ FallbackLeft(kind)
  /\ Interrupt("provider") /\ SetBook([Book EXCEPT !.waits = 0, !.retry = "none"])
  /\ ScanJob("fallback") /\ done' = [done EXCEPT !.waits = 0]
  /\ UNCHANGED <<calls, on, spent, step, steers, fallback, mains, recovery, told>> /\ Persist

\* The same without one: the failure is waited out.
WaitOnFailure(kind) ==
  /\ Ended(kind) /\ ProviderFailed(kind) /\ ~FallbackLeft(kind) /\ WaitsLeft(Book.waits)
  /\ Interrupt("provider") /\ SetBook([Book EXCEPT !.waits = @ + 1, !.retry = "waiting"])
  /\ ScanJob("none") /\ done' = [done EXCEPT !.waits = Past(@, MaxWaits)]
  /\ UNCHANGED <<calls, on, spent, step, steers, fallback, mains, recovery, told>> /\ Persist

\* Neither a wait nor a fallback is left: the task is held for Main.
WaitsSpent(kind) ==
  /\ Ended(kind) /\ ProviderFailed(kind) /\ ~FallbackLeft(kind) /\ ~WaitsLeft(Book.waits)
  /\ Interrupt("provider") /\ ScanJob("none")
  /\ UNCHANGED <<calls, on, spent, step, book, steers, fallback, mains, recovery, told, done>> /\ Persist

\* No report, no provider failure: one bounded re-prompt.
Reprompt(kind) ==
  /\ Ended(kind) /\ kind = "plain" /\ on /\ Book.nudges < MaxNudges
  /\ Interrupt("report") /\ SetBook([Book EXCEPT !.nudges = @ + 1])
  /\ ScanJob("no-report") /\ done' = [done EXCEPT !.nudges = Past(@, MaxNudges)]
  /\ UNCHANGED <<calls, on, spent, step, steers, fallback, mains, recovery, told>> /\ Persist

\* No re-prompt is left, the watchdog is off, or a report that was not admitted is retained.
HoldNoReport(kind) ==
  /\ Ended(kind) /\ kind \in {"plain", "retained", "transient", "quota"} /\ ~ProviderFailed(kind)
  /\ kind = "plain" => ~on \/ Book.nudges >= MaxNudges
  /\ Interrupt("report") /\ ScanJob("none")
  /\ UNCHANGED <<calls, on, spent, step, book, steers, fallback, mains, recovery, told, done>> /\ Persist

\* The process exits or its runtime faults, whatever the task is doing; or the configuration changed.
Fault(kind) ==
  /\ kind \in Ends /\ ScanIdle /\ worker = "live" /\ task.status # "done"
  /\ \/ kind = "crash" /\ Interrupt("crash") /\ ScanJob("crash")
     \/ kind = "drift" /\ Interrupt("drift") /\ ScanJob("none")
  /\ UNCHANGED <<calls, on, spent, step, book, steers, fallback, mains, recovery, told, done>> /\ Persist

\* The step's time or the task's budget is used up: a pause that is not the human's.
LimitReached(kind) ==
  /\ kind \in Ends /\ ScanIdle /\ Running
  /\ \/ kind = "cost" /\ spent
     \/ kind = "time" /\ ~spent
  /\ task' = [task EXCEPT !.status = "paused", !.why = "limit"] /\ Revoked
  /\ ScanJob("none")
  /\ UNCHANGED <<calls, on, spent, worker, step, book, steers, fallback, mains, recovery, told, done>> /\ Persist

\* A hung tool and a stalled request are aborted; a worker that does not answer the ping is stopped.
Hang(kind) ==
  /\ kind \in Ends \cap {"tool", "stalled", "frozen"} /\ on /\ ScanIdle /\ Running /\ ~spent
  /\ Interrupt("hang") /\ ScanJob(kind)
  /\ UNCHANGED <<calls, on, spent, step, book, steers, fallback, mains, recovery, told, done>> /\ Persist

\* dueProviderWaits: the schedule is cleared first, and read from the record as it is.
DueWait ==
  /\ on /\ ScanIdle /\ task.status = "interrupted" /\ ~task.human /\ book.retry = "due"
  /\ SetBook([Book EXCEPT !.retry = "none"])
  /\ scan' = [at |-> IF WaitsLeft(Book.waits - 1) THEN "guard" ELSE "notices", kind |-> "provider", current |-> TRUE]
  /\ UNCHANGED <<calls, on, spent, task, worker, step, steers, fallback, mains, recovery, sending, told, done>> /\ Persist

\* A scan that finds nothing to do wakes Main for a state it was not woken for.
ScanQuiet ==
  /\ ScanIdle /\ ~(WakeFor \subseteq told) /\ told' = told \cup WakeFor
  /\ UNCHANGED <<calls, on, durable, spent, saved, scan, recovery, sending, done>>

\* contain(): the abort or the stop has ended, and the record says so unless it was superseded.
Contained ==
  /\ scan.at = "containing"
  /\ \E ended \in BOOLEAN :
       /\ worker' = IF ~scan.current THEN worker
                    ELSE IF ~ended THEN "unconfirmed"
                    ELSE IF scan.kind = "frozen" THEN "stopped" ELSE worker
       /\ scan' = [scan EXCEPT !.at =
            IF ~ended \/ scan.kind = "none" THEN "notices"
            ELSE IF scan.kind = "fallback" THEN "switching"
            ELSE IF scan.kind = "crash" THEN "follow" ELSE "guard"]
  /\ UNCHANGED <<calls, on, spent, task, step, book, steers, fallback, mains, recovery, sending, told, done>> /\ Persist

\* The crash follow-up asks for the proof of the exit first.
ProveExit ==
  /\ scan.at = "follow"
  /\ \E proved \in BOOLEAN : scan' = [scan EXCEPT !.at = IF on /\ proved THEN "guard" ELSE "notices"]
  /\ UNCHANGED <<calls, on, durable, spent, saved, recovery, sending, told, done>>

\* autoRecover: the transaction that refuses, or counts the recovery.
MayRecover == /\ on /\ task.status \in {"paused", "interrupted"} /\ ~task.human
              /\ worker # "unconfirmed" /\ ~spent

OneMore == [Book EXCEPT !.recoveries = @ + 1]

Guard ==
  /\ scan.at = "guard"
  /\ \/ /\ MayRecover /\ Book.recoveries < MaxRecoveries
        /\ SetBook(OneMore) /\ scan' = [scan EXCEPT !.at = "counted"]
     \/ /\ ~(MayRecover /\ Book.recoveries < MaxRecoveries)
        /\ scan' = [scan EXCEPT !.at = "notices"] /\ UNCHANGED book
  /\ UNCHANGED <<calls, on, spent, task, worker, step, steers, fallback, mains, saved, recovery, sending, told, done>>

\* The count is saved, and a record in error is stopped before the resume.
Counted ==
  /\ scan.at = "counted"
  /\ scan' = [scan EXCEPT !.at = IF worker \in {"error", "unconfirmed"} THEN "stopping" ELSE "resuming", !.current = TRUE]
  /\ done' = [done EXCEPT !.recoveries = Past(@, MaxRecoveries)]
  /\ UNCHANGED <<calls, on, durable, spent, recovery, sending, told>> /\ Persist

\* stop(): the task stays interrupted, the process exits or cannot be proven to.
Stops(next, failed) ==
  \/ /\ worker' = "stopped" /\ scan' = [scan EXCEPT !.at = next]
     /\ task' = IF task.status \in {"running", "interrupted"}
                 THEN [task EXCEPT !.status = "interrupted", !.why = "stop"] ELSE task
  \/ worker' = "unconfirmed" /\ scan' = [scan EXCEPT !.at = failed] /\ UNCHANGED task

StopFirst ==
  /\ scan.at = "stopping" /\ Stops("resuming", "notices") /\ Revoked
  /\ UNCHANGED <<calls, on, spent, step, book, steers, fallback, mains, recovery, told, done>> /\ Persist

\* switchToFallback: the process is stopped, the record names the fallback, the task is resumed.
SwitchStop ==
  /\ scan.at = "switching"
  /\ \/ /\ task.status \in {"paused", "interrupted"} /\ ~task.human /\ fallback < Fallbacks
        /\ Stops("stopped", "notices")
     \/ /\ ~(task.status \in {"paused", "interrupted"} /\ ~task.human /\ fallback < Fallbacks)
        /\ scan' = [scan EXCEPT !.at = "notices"] /\ UNCHANGED <<task, worker>>
  /\ Revoked
  /\ UNCHANGED <<calls, on, spent, step, book, steers, fallback, mains, recovery, told, done>> /\ Persist

SwitchRecord ==
  /\ scan.at = "stopped"
  /\ \/ /\ worker = "stopped" /\ task.status \in {"paused", "interrupted"} /\ ~task.human
        /\ fallback' = fallback + 1 /\ scan' = [scan EXCEPT !.at = "resuming"]
     \/ /\ ~(worker = "stopped" /\ task.status \in {"paused", "interrupted"} /\ ~task.human)
        /\ scan' = [scan EXCEPT !.at = "notices"] /\ UNCHANGED fallback
  /\ UNCHANGED <<calls, on, spent, task, worker, step, book, steers, mains, recovery, sending, told, done>> /\ Persist

\* resume(): refused, failed half-way (the runtime is contained), or the task runs again.
MayResume == Held /\ worker \in {"live", "stopped"} /\ scan.at # "containing"
Resumed(by) ==
  \/ /\ MayResume /\ task.status = "held"
     /\ task' = [status |-> "waiting", human |-> FALSE, why |-> "none"]
     /\ UNCHANGED <<worker, book, told, done>>
  \/ /\ MayResume /\ task.status # "held" /\ ~spent
     /\ book' = Rotated(book) /\ Activate(by)
  \/ /\ MayResume /\ task.status # "held" /\ ~spent
     /\ task' = [status |-> "interrupted", human |-> FALSE, why |-> "crash"]
     /\ worker' \in {"error", "unconfirmed"} /\ book' = Rotated(book) /\ UNCHANGED <<told, done>>
  \/ (~MayResume \/ (spent /\ task.status # "held")) /\ UNCHANGED <<task, worker, book, told, done>>

AutoResume ==
  /\ scan.at = "resuming" /\ Resumed("watchdog") /\ scan' = [scan EXCEPT !.at = "notices"]
  /\ UNCHANGED <<calls, on, spent, step, steers, fallback, mains, recovery, sending>> /\ Persist

\* The notices of the scan: Main is woken, once per state.
ScanEnds ==
  /\ scan.at = "notices" /\ scan' = NoScan /\ told' = told \cup WakeFor
  /\ UNCHANGED <<calls, on, durable, spent, saved, recovery, sending, done>>

-----------------------------------------------------------------------------
(* The worker's reports, and what Main decides about them. *)

\* A report is frozen; one Pair finds mechanically wrong goes back to the worker first.
Report(kind) ==
  /\ kind \in Ends \cap {"clean", "mechanical"} /\ ScanIdle /\ Running
  /\ \/ /\ kind = "mechanical" /\ Book.repairs < MaxRepairs
        /\ SetBook([Rotated(Book) EXCEPT !.repairs = @ + 1]) /\ UNCHANGED <<task, worker>>
        /\ told' = {} /\ done' = [done EXCEPT !.repairs = Past(@, MaxRepairs), !.soft = 0]
     \/ /\ kind = "mechanical" => Book.repairs >= MaxRepairs
        /\ task' = [task EXCEPT !.status = "waiting"] /\ UNCHANGED <<worker, book, told, done>>
  /\ Revoked
  /\ UNCHANGED <<calls, on, spent, step, steers, fallback, mains, scan, recovery>> /\ Persist

\* The report revoked the messages under way; what that queued comes before the decision in the queue.
Approve ==
  /\ "approve" \in Calls /\ task.status = "waiting" /\ \A a \in Authors : sending[a] \in {"none", "noting"}
  /\ \/ /\ step = MaxSteps /\ task' = [task EXCEPT !.status = "done"]
        /\ UNCHANGED <<worker, step, book, mains, told, done>>
     \/ /\ step < MaxSteps /\ worker \in {"live", "stopped"} /\ scan.at # "containing"
        /\ step' = step + 1 /\ mains' = IF mains = 0 THEN 0 ELSE mains - 1
        /\ book' = Rotated(book) /\ task' = [status |-> "running", human |-> FALSE, why |-> "none"]
        /\ worker' = "live" /\ told' = {} /\ done' = Nothing
  /\ UNCHANGED <<calls, on, spent, steers, fallback, scan, recovery, sending>> /\ Persist

Revise ==
  /\ Call("revise") /\ task.status = "waiting" /\ worker \in {"live", "stopped"} /\ scan.at # "containing"
  /\ book' = Rotated(book) /\ Activate("person")
  /\ UNCHANGED <<on, spent, step, steers, fallback, mains, scan, recovery, sending>> /\ Persist

-----------------------------------------------------------------------------
(* Calls of the user and of Main. *)

Cancel ==
  /\ Call("cancel") /\ task.status # "done"
  /\ task' = [task EXCEPT !.status = "done"] /\ Revoked /\ Supersede
  /\ UNCHANGED <<on, spent, worker, step, book, steers, fallback, mains, recovery, told, done>> /\ Persist

Pause ==
  /\ Call("pause") /\ task.status # "done"
  /\ task' = [status |-> IF task.status \in {"waiting", "held"} THEN "held" ELSE "paused",
              human |-> TRUE, why |-> "none"]
  /\ Revoked /\ Supersede
  /\ UNCHANGED <<on, spent, worker, step, book, steers, fallback, mains, recovery, told, done>> /\ Persist

\* resume does not touch the schedule of a retry.
Resume ==
  /\ Call("resume") /\ Held /\ MayResume /\ (spent => task.status = "held")
  /\ Resumed("person")
  /\ UNCHANGED <<on, spent, step, steers, fallback, mains, scan, recovery, sending>> /\ Persist

Stop ==
  /\ Call("stop") /\ worker \in {"live", "error"}
  /\ worker' \in {"stopped", "unconfirmed"} /\ Revoked /\ Supersede
  /\ task' = IF task.status \in {"running", "interrupted"}
              THEN [task EXCEPT !.status = "interrupted", !.why = "stop"] ELSE task
  /\ UNCHANGED <<on, spent, step, book, steers, fallback, mains, recovery, told, done>> /\ Persist

Reconcile ==
  /\ Call("reconcile") /\ worker = "unconfirmed" /\ worker' = "stopped"
  /\ UNCHANGED <<on, spent, task, step, book, steers, fallback, mains, scan, recovery, sending, told, done>> /\ Persist

\* recover(): the recovery is counted in memory before the attempt.
Recover ==
  /\ Call("recover") /\ recovery = "none"
  /\ task.status \in {"paused", "interrupted"} /\ ~task.human /\ worker # "unconfirmed"
  /\ mains < MaxMain /\ mains' = mains + 1
  /\ recovery' = IF worker = "error" THEN "stopping" ELSE "resuming"
  /\ UNCHANGED <<on, spent, task, worker, step, book, steers, fallback, saved, scan, sending, told, done>>

RecoverStops ==
  /\ recovery = "stopping" /\ Revoked /\ Supersede
  /\ \/ /\ worker' = "stopped" /\ recovery' = "resuming"
        /\ task' = IF task.status \in {"running", "interrupted"}
                    THEN [task EXCEPT !.status = "interrupted", !.why = "stop"] ELSE task
     \/ worker' = "unconfirmed" /\ recovery' = "none" /\ UNCHANGED task
  /\ UNCHANGED <<calls, on, spent, step, book, steers, fallback, mains, told, done>> /\ Persist

RecoverResumes ==
  /\ recovery = "resuming" /\ recovery' = "none" /\ Resumed("main")
  /\ UNCHANGED <<calls, on, spent, step, steers, fallback, mains, scan, sending>> /\ Persist

\* steer(): the count is reserved under the running lease, in memory only.
Reserve(a) ==
  /\ sending[a] = "none" /\ Running /\ scan.at # "containing"
  /\ SteersSpent < MaxSteers /\ steers' = [step |-> step, count |-> SteersSpent + 1]
  /\ sending' = [sending EXCEPT ![a] = "sent"]
  /\ UNCHANGED <<on, spent, task, worker, step, book, fallback, mains, saved, scan, recovery, told, done>>

Steer == Call("steer") /\ Reserve("person")

\* The soft nudge, once per attempt, of a step that runs long: a job of the scan.
Nudge ==
  /\ "nudge" \in Calls /\ on /\ ScanIdle /\ ~spent /\ Book.retry = "none" /\ Book.nudged # "this"
  /\ Reserve("nudge") /\ UNCHANGED calls

\* The worker has it, or refuses it.
SteerAnswered(a) ==
  /\ sending[a] = "sent" /\ sending' \in {[sending EXCEPT ![a] = "queued"], [sending EXCEPT ![a] = "refused"]}
  /\ done' = [done EXCEPT !.soft = IF a = "nudge" /\ sending'[a] = "queued" THEN @ + 1 ELSE @]
  /\ UNCHANGED <<calls, on, durable, spent, saved, scan, recovery, told>>

\* A message the worker never had is given back.
Refunded == [step |-> step, count |->
  LET count == IF steers.step = step THEN steers.count ELSE 1 IN IF count = 0 THEN 0 ELSE count - 1]

SteerEnds(a) ==
  /\ \/ /\ sending[a] = "refused" /\ steers' = Refunded /\ sending' = [sending EXCEPT ![a] = "none"]
        /\ UNCHANGED done
     \/ /\ sending[a] = "queued" /\ UNCHANGED steers
        /\ sending' = [sending EXCEPT ![a] = IF a = "nudge" THEN "noting" ELSE "none"]
        /\ done' = [done EXCEPT !.steers = @ + 1]
  /\ UNCHANGED <<calls, on, spent, task, worker, step, book, fallback, mains, scan, recovery, told>> /\ Persist

\* The nudge is noted for the attempt the task is at now.
NudgeNotedForStep ==
  /\ sending["nudge"] = "noting" /\ sending' = [sending EXCEPT !["nudge"] = "none"]
  /\ SetBook([Book EXCEPT !.nudged = "earlier"])
  /\ UNCHANGED <<calls, on, spent, task, worker, step, steers, fallback, mains, scan, recovery, told, done>> /\ Persist

NudgeNoted ==
  /\ sending["nudge"] = "noting" /\ sending' = [sending EXCEPT !["nudge"] = "none"]
  /\ SetBook([Book EXCEPT !.nudged = "this"])
  /\ UNCHANGED <<calls, on, spent, task, worker, step, steers, fallback, mains, scan, recovery, told, done>> /\ Persist

\* Control settings are live: the watchdog is switched, a budget is raised.
Configure ==
  /\ Call("toggle")
  /\ \/ on' = ~on /\ UNCHANGED spent
     \/ spent /\ spent' = FALSE /\ UNCHANGED on
  /\ UNCHANGED <<durable, saved, scan, recovery, sending, told, done>>

\* The worker's usage reaches the budget.
Spend ==
  /\ "cost" \in Ends /\ Running /\ ~spent /\ spent' = TRUE /\ calls < MaxCalls /\ calls' = calls + 1
  /\ UNCHANGED <<on, durable, saved, scan, recovery, sending, told, done>>

\* The time of a retry comes, whatever the record says by then.
RetryDue ==
  /\ book.retry = "waiting" \/ saved.book.retry = "waiting"
  /\ LET Due(r) == IF r = "waiting" THEN "due" ELSE r IN
       /\ book' = [book EXCEPT !.retry = Due(@)] /\ saved' = [saved EXCEPT !.book.retry = Due(@)]
  /\ UNCHANGED <<calls, on, spent, task, worker, step, steers, fallback, mains, scan, recovery, sending, told, done>>

\* Main dies and comes back with what was saved (init).
Restart ==
  /\ Call("restart")
  /\ LET t == saved.task IN
       task' = IF t.status \in {"running", "paused"}
               THEN [t EXCEPT !.status = "interrupted", !.why = "restart"] ELSE t
  /\ worker' \in IF saved.worker = "stopped" THEN {"stopped"} ELSE {"stopped", "unconfirmed"}
  /\ step' = saved.step /\ book' = saved.book /\ steers' = saved.steers
  /\ fallback' = saved.fallback /\ mains' = saved.mains
  /\ scan' = NoScan /\ recovery' = "none" /\ sending' = [a \in Authors |-> "none"] /\ told' = {}
  /\ done' = [done EXCEPT !.steers = IF steers'.step = step' THEN steers'.count ELSE 0]
  /\ UNCHANGED <<on, spent>> /\ Persist

RunEnds(kind) ==
  \/ SwitchOnFailure(kind) \/ WaitOnFailure(kind) \/ WaitsSpent(kind) \/ Reprompt(kind) \/ HoldNoReport(kind)
  \/ Fault(kind) \/ LimitReached(kind) \/ Hang(kind) \/ Report(kind)

Automatic ==
  \/ DueWait \/ Contained \/ ProveExit \/ Guard \/ Counted \/ StopFirst \/ SwitchStop \/ SwitchRecord
  \/ AutoResume \/ ScanEnds \/ RecoverStops \/ RecoverResumes \/ NudgeNoted
  \/ \E a \in Authors : SteerAnswered(a) \/ SteerEnds(a)

Called == Approve \/ Revise \/ Cancel \/ Pause \/ Resume \/ Stop \/ Reconcile \/ Recover
          \/ Steer \/ Nudge \/ Configure \/ Restart

Next == Automatic \/ ScanQuiet \/ RetryDue \/ Spend \/ Called \/ \E kind \in Ends : RunEnds(kind)

Spec == Init /\ [][Next]_vars

\* The queue, the scan timer and the clock go on; nothing is assumed of the worker, the user or Main.
FairSpec == Spec /\ WF_vars(Automatic) /\ WF_vars(ScanQuiet) /\ WF_vars(RetryDue)

-----------------------------------------------------------------------------
(* Properties. *)

\* The budgets of a step hold for what was really done in it, over any number of attempts, restarts of
\* Main and switches of the watchdog: recoveries, re-prompts, provider waits (per provider) and repairs;
\* and a silent attempt is nudged once.
BudgetsHold ==
  /\ done.recoveries <= MaxRecoveries /\ done.nudges <= MaxNudges
  /\ done.waits <= MaxWaits /\ done.repairs <= MaxRepairs
  /\ done.soft <= 1

\* The steers counted for a step are those the worker has and those still on their way: none is lost to
\* another step and none is given back twice.
SteersExact ==
  LET out == {a \in Authors : sending[a] \in {"sent", "queued", "refused"}}
      count == IF steers.step = step THEN steers.count ELSE 0
  IN  count = done.steers + (IF out = Authors THEN 2 ELSE IF out = {} THEN 0 ELSE 1)

\* A held task is resumed, given to the human, or Main is woken for it.
HeldIsSeen ==
  (task.status \in {"interrupted", "paused"} /\ ~task.human)
    ~> (task.status \in told \/ task.human \/ task.status \notin {"interrupted", "paused"})

\* Pair does not resume a step for ever: sooner or later somebody else has done something about it.
LadderEnds == []<>(scan.at = "resuming") => []<>(done.by # "watchdog" \/ task.status \in {"waiting", "done"})
-----------------------------------------------------------------------------
(* The inductive invariant behind BudgetsHold and SteersExact, in named parts. *)

\* What was saved is of the step the task is at, and nothing is kept of a step to come.
InvSteps ==
  /\ saved.step = step
  /\ \A s \in {book.step, steers.step, saved.book.step, saved.steers.step} : s <= step

\* What was really done is on the books, in memory and on disk: a restart gives no budget back.
BookOf(b) == IF b.step = step THEN b ELSE FreshBook(step)
Covers(b) ==
  /\ done.recoveries <= BookOf(b).recoveries /\ done.nudges <= BookOf(b).nudges
  /\ done.waits <= BookOf(b).waits /\ done.repairs <= BookOf(b).repairs
InvBooked == Covers(book) /\ Covers(saved.book)

\* A recovery is on the books before it is begun, and no decision of Main comes in between.
InvCounted ==
  scan.at = "counted" =>
    book.step = step /\ done.recoveries < book.recoveries /\ task.status \notin {"waiting", "held"}

\* A message is on its way only to an attempt that runs.
InvUnderway == \A a \in Authors : sending[a] = "sent" => task.status = "running"

\* An attempt that has had its nudge is noted to have had it, or about to be.
InvNudged ==
  /\ sending["nudge"] = "sent" => done.soft = 0
  /\ done.soft <= 1
  /\ done.soft = 1 /\ task.status = "running" => sending["nudge"] \in {"queued", "noting"} \/ Book.nudged = "this"

WatchInv == InvSteps /\ InvBooked /\ InvCounted /\ InvUnderway /\ InvNudged /\ SteersExact
=============================================================================
