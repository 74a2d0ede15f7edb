------------------------------ MODULE Reporting ------------------------------
(***************************************************************************)
(* How a worker's report reaches the controller: the worker process writes *)
(* it to latch.json, then to inbox/, and the timer's scan takes it from    *)
(* either one, archives it, and decides whether a run that has settled     *)
(* ended with a report or without one.                                     *)
(*                                                                         *)
(* The two sides share nothing but files and the process's events.  The    *)
(* controller revokes a lease at once and rewrites authority.json later,   *)
(* when its transaction runs; the worker reads the authority again before  *)
(* it publishes; a write may fail, land and then fail, or be cut off by    *)
(* the end of the process or of Main.  A worker is a Pi process, whose     *)
(* model calls pair_report as often as it likes, or a low server, whose    *)
(* one result per task the runtime turns into the report.                  *)
(***************************************************************************)
EXTENDS Integers, FiniteSets

CONSTANTS
  Backends,     \* the kinds of worker: "pi", "low"
  Texts,        \* what a report may say
  Repairs,      \* limits.maxAutomaticReportRepairs
  MaxLease,     \* bound: leases ever granted
  MaxCalls,     \* bound: pair_report calls of a lease
  MaxFailures,  \* bound: writes that fail
  MaxEvents     \* bound: pauses, exits of the process and ends of Main

ASSUME ReportingAssumption ==
  /\ Backends \subseteq {"pi", "low"} /\ Repairs \in Nat /\ MaxLease \in Nat \ {0}
  /\ {MaxCalls, MaxFailures, MaxEvents} \subseteq Nat

NoReport == [lease |-> 0, text |-> "none"]
Reports  == [lease : 1..MaxLease, text : Texts]
Found    == Reports \cup {NoReport}
NoCall   == [pc |-> "none", report |-> NoReport]
NoScan   == [pc |-> "off", todo |-> {}, file |-> NoReport, retained |-> FALSE, judged |-> FALSE]
NoVerdict == [lease |-> 0, kind |-> "none"]
Calls    == [pc : {"none", "latch", "publish", "link", "close"}, report : Found]
Scans    == [pc : {"off", "inbox", "file", "archive", "unlink", "latch", "judge"}, todo : SUBSET Reports,
             file : Found, retained : BOOLEAN, judged : BOOLEAN]

VARIABLES
  \* the controller: the task, its lease and what was made of the reports
  status,     \* running, awaiting (awaiting_settle), held, review, done; error: held, and the worker too
  lease,      \* the lease of the current attempt
  granted,    \* the activation's intent: live, reported (acceptReport revoked it), revoked
  pending,    \* t.pendingReport
  reported,   \* t.report
  noticed,    \* reports with a notice or a decision
  settled,    \* settledSequence > dispatchSettleSequence
  scan,       \* the scan of this worker: its place, the files left, retainedReport, latchSequence
  verdict,    \* the last run judged to have ended without a report, and as what
  \* the files
  authority, latch, inbox, archive,
  \* the worker process
  backend,    \* pi or low
  process,    \* up, orphan (its Main is gone), gone
  run,        \* the lease it works on
  stopping,   \* the run is being aborted
  tool,       \* a tool call is under way
  memory,     \* report, as the extension holds it
  call,       \* the pair_report call (low: the publication) under way
  queued,     \* pair_report calls that wait for it (reportSerial)
  rejected,   \* reportRejections of the lease
  exhausted,  \* repairsExhausted
  effect,     \* detachedEffect
  late,       \* history: a tool call began after the lease's report was retained
  n           \* counters for the bounds

task  == <<status, lease, granted, pending, reported, noticed>>
files == <<authority, latch, inbox, archive>>
proc  == <<backend, process, run, stopping, tool, memory, call, queued, rejected, exhausted, effect, late>>
vars  == <<task, settled, scan, verdict, files, proc, n>>

Holds == {"held", "error", "review", "done"}

TaskTyped ==
  /\ status \in {"running", "awaiting"} \cup Holds /\ granted \in {"live", "reported", "revoked"}
  /\ lease \in 1..MaxLease /\ authority \in [phase : {"running", "waiting", "paused"}, lease : 1..MaxLease]
  /\ pending \in Found /\ reported \in Found /\ noticed \subseteq Reports
FilesTyped == latch \in Found /\ inbox \subseteq Reports /\ archive \subseteq Reports
ScanTyped  == /\ scan \in Scans /\ (scan.pc \in {"archive", "unlink"} => scan.file # NoReport) /\ settled \in BOOLEAN
              /\ verdict \in [lease : 0..MaxLease, kind : {"none", "empty", "retained"}]
WorkerTyped ==
  /\ backend \in Backends /\ process \in {"up", "orphan", "gone"} /\ run \in 0..MaxLease
  /\ stopping \in BOOLEAN /\ tool \in BOOLEAN /\ effect \in BOOLEAN /\ late \in BOOLEAN
  /\ memory \in Found /\ call \in Calls /\ queued \in 0..2
  /\ rejected \in 0..(Repairs + 1) /\ exhausted \in 0..MaxLease
CountsTyped == n \in [calls : 0..MaxCalls, failures : 0..MaxFailures, events : 0..MaxEvents]

\* Types of every variable.
TypeOK == TaskTyped /\ FilesTyped /\ ScanTyped /\ WorkerTyped /\ CountsTyped

Happens(e) == n[e] > 0 /\ n' = [n EXCEPT ![e] = @ - 1]

-----------------------------------------------------------------------------
(* The grant of a lease: dispatch, a decision or a resume, with the        *)
(* activation it leads to.                                                 *)

\* writeAuthority
Granted(l) == authority' = [phase |-> "running", lease |-> l]

\* The run begins, in a process that may have been started for it.
Activated(l) ==
  /\ run' = l /\ process' = "up" /\ stopping' = FALSE /\ tool' = FALSE
  /\ memory' = NoReport /\ call' = NoCall /\ queued' = 0 /\ rejected' = 0
  /\ effect' = (effect /\ process = "up") /\ exhausted' = (IF process = "up" THEN exhausted ELSE 0)

Init ==
  /\ status = "running" /\ lease = 1 /\ granted = "live"
  /\ pending = NoReport /\ reported = NoReport /\ noticed = {}
  /\ settled = FALSE /\ scan = NoScan /\ verdict = NoVerdict
  /\ authority = [phase |-> "running", lease |-> 1] /\ latch = NoReport /\ inbox = {} /\ archive = {}
  /\ backend \in Backends /\ process = "up" /\ run = 1 /\ stopping = FALSE /\ tool = FALSE
  /\ memory = NoReport /\ call = NoCall /\ queued = 0 /\ rejected = 0 /\ exhausted = 0
  /\ effect = FALSE /\ late = FALSE
  /\ n = [calls |-> MaxCalls, failures |-> MaxFailures, events |-> MaxEvents]

\* A new attempt, at a step that was reviewed or at one that is held.
Continue ==
  /\ scan.pc = "off" /\ status \in {"held", "error", "review"} /\ lease < MaxLease
  /\ process # "orphan" /\ run = 0 /\ call = NoCall
  /\ status' = "running" /\ lease' = lease + 1 /\ granted' = "live"
  /\ pending' = NoReport /\ settled' = FALSE /\ Granted(lease + 1) /\ Activated(lease + 1)
  /\ n' = [n EXCEPT !.calls = MaxCalls]
  /\ UNCHANGED <<reported, noticed, scan, verdict, latch, inbox, archive, backend, late>>

\* Main approves the last step.
Complete ==
  /\ scan.pc = "off" /\ status = "review" /\ status' = "done"
  /\ UNCHANGED <<lease, granted, pending, reported, noticed, settled, scan, verdict, files, proc, n>>

-----------------------------------------------------------------------------
(* The worker: pair_report and the tool gate of a Pi worker.               *)

\* load: the latch counts for the lease the authority names.
Loaded == IF latch.lease = authority.lease THEN latch ELSE NoReport
Works  == process # "gone" /\ run # 0 /\ ~stopping
\* (WaitingForAuthority is not part of the model: its gate closes with the authority only.)
WaitingForAuthority == authority.phase # "running" \/ exhausted = authority.lease
Waiting == authority.phase # "running" \/ Loaded # NoReport \/ exhausted = authority.lease

Return == call' = NoCall
\* rejectedReport
Rejected ==
  /\ rejected' = rejected + 1
  /\ IF rejected >= Repairs THEN exhausted' = run /\ stopping' = TRUE ELSE UNCHANGED <<exhausted, stopping>>

\* The model, or the program it runs, calls pair_report; calls are serialised.
CallReport ==
  /\ backend = "pi" /\ Works /\ queued < 2 /\ n.calls > 0
  /\ queued' = queued + 1 /\ n' = [n EXCEPT !.calls = @ - 1]
  /\ UNCHANGED <<task, settled, scan, verdict, files, backend, process, run, stopping, tool, memory,
                 call, rejected, exhausted, effect, late>>

\* (AdmittedByPhase is not part of the model: it forgets the repair limit.)
AdmittedByPhase == authority.phase = "running"
Admitted == authority.phase = "running" /\ exhausted # authority.lease

TakeCall == queued > 0 /\ call = NoCall /\ queued' = queued - 1 /\ memory' = Loaded

\* The step is not authorized, its repairs are spent, or something outlived its call.
CallRefused ==
  /\ process # "gone" /\ TakeCall /\ (~Admitted \/ effect)
  /\ UNCHANGED <<task, settled, scan, verdict, files, backend, process, run, stopping, tool, call,
                 rejected, exhausted, effect, late, n>>

\* A payload that does not validate (looked at before the effect is), or a second report
\* that says something else.
CallInvalid ==
  /\ process # "gone" /\ TakeCall /\ Admitted /\ Rejected
  /\ UNCHANGED <<task, settled, scan, verdict, files, backend, process, run, tool, call, effect, late, n>>

\* A first report is retained before it is published; the same one again is published again.
CallAccepted ==
  /\ process # "gone" /\ TakeCall /\ Admitted /\ ~effect
  /\ \E text \in Texts : LET r == [lease |-> authority.lease, text |-> text] IN
       /\ Loaded \in {NoReport, r}
       /\ call' = [pc |-> IF Loaded = r THEN "publish" ELSE "latch", report |-> r]
  /\ UNCHANGED <<task, settled, scan, verdict, files, backend, process, run, stopping, tool, rejected,
                 exhausted, effect, late, n>>

Retain ==
  /\ call.pc = "latch" /\ (backend = "low" \/ process # "gone")
  /\ latch' = call.report /\ memory' = call.report /\ call' = [call EXCEPT !.pc = "publish"]
  /\ UNCHANGED <<task, settled, scan, verdict, authority, inbox, archive, backend, process, run, stopping,
                 tool, queued, rejected, exhausted, effect, late, n>>

\* assertReportAuthority, right before the link.
Authorized == authority.phase = "running" /\ authority.lease = call.report.lease /\ ~effect
Recheck ==
  /\ backend = "pi" /\ process # "gone" /\ call.pc = "publish"
  /\ IF Authorized THEN call' = [call EXCEPT !.pc = "link"] ELSE Return
  /\ UNCHANGED <<task, settled, scan, verdict, files, backend, process, run, stopping, tool, memory, queued,
                 rejected, exhausted, effect, late, n>>

Link ==
  /\ backend = "pi" /\ process # "gone" /\ call.pc = "link"
  /\ inbox' = inbox \cup {call.report} /\ Return
  /\ UNCHANGED <<task, settled, scan, verdict, authority, latch, archive, backend, process, run, stopping,
                 tool, memory, queued, rejected, exhausted, effect, late, n>>

\* A write fails, with its file in place or not: the call is rejected.
WriteFails ==
  /\ backend = "pi" /\ process # "gone" /\ call.pc \in {"latch", "publish", "link"} /\ Happens("failures")
  /\ latch' \in (IF call.pc = "latch" THEN {latch, call.report} ELSE {latch})
  /\ memory' = call.report /\ Return /\ Rejected
  /\ UNCHANGED <<task, settled, scan, verdict, authority, inbox, archive, backend, process, run, tool,
                 queued, effect, late>>

\* tool_call: the gate lets a tool through, or closes and ends the run.
ToolCall ==
  /\ backend = "pi" /\ Works /\ ~tool /\ memory' = Loaded
  /\ IF Waiting THEN stopping' = TRUE /\ UNCHANGED <<tool, late>>
     ELSE /\ tool' = TRUE /\ late' = (late \/ latch.lease = run)
          /\ UNCHANGED stopping
  /\ UNCHANGED <<task, settled, scan, verdict, files, backend, process, run, call, queued, rejected,
                 exhausted, effect, n>>

\* tool_result: work that outlived its call, or files written after the report.
ToolResult ==
  /\ tool /\ tool' = FALSE
  /\ \E left \in BOOLEAN : effect' = (effect \/ left) /\ stopping' = (stopping \/ left)
  /\ UNCHANGED <<task, settled, scan, verdict, files, backend, process, run, memory, call, queued, rejected,
                 exhausted, late, n>>

\* The run settles: on its own, aborted, or stopped at a turn or a tool.
RunEnds ==
  /\ backend = "pi" /\ process # "gone" /\ run # 0 /\ call = NoCall /\ queued = 0 /\ ~tool
  /\ run' = 0 /\ stopping' = FALSE /\ settled' = TRUE
  /\ UNCHANGED <<task, scan, verdict, files, backend, process, tool, memory, call, queued, rejected,
                 exhausted, effect, late, n>>

-----------------------------------------------------------------------------
(* The worker: one low task.  Main's own process publishes its result.     *)

\* The task's result; one that was aborted or failed at its provider has no report.
LowResult ==
  /\ backend = "low" /\ run # 0 /\ call = NoCall /\ process # "orphan"
  /\ \/ call' = [pc |-> "close", report |-> NoReport]
     \/ /\ ~stopping /\ granted = "live" /\ process = "up"
        /\ \E text \in Texts : call' = [pc |-> "latch", report |-> [lease |-> run, text |-> text]]
  /\ UNCHANGED <<task, settled, scan, verdict, files, backend, process, run, stopping, tool, memory, queued,
                 rejected, exhausted, effect, late, n>>

\* The lease is looked at once more between the latch and the inbox.
LowPublish ==
  /\ backend = "low" /\ call.pc = "publish"
  /\ inbox' = (IF granted = "live" /\ process = "up" THEN inbox \cup {call.report} ELSE inbox)
  /\ call' = [call EXCEPT !.pc = "close"]
  /\ UNCHANGED <<task, settled, scan, verdict, authority, latch, archive, backend, process, run, stopping,
                 tool, memory, queued, rejected, exhausted, effect, late, n>>

\* A write fails: the runtime is at fault and its server is stopped.
LowWriteFails ==
  /\ backend = "low" /\ call.pc \in {"latch", "publish"} /\ Happens("failures")
  /\ latch' \in (IF call.pc = "latch" THEN {latch, call.report} ELSE {latch})
  /\ call' = [call EXCEPT !.pc = "close"] /\ process' = "gone"
  /\ UNCHANGED <<task, settled, scan, verdict, authority, inbox, archive, backend, run, stopping, tool,
                 memory, queued, rejected, exhausted, effect, late>>

\* Whatever became of the report, the task is over.
LowSettle ==
  /\ backend = "low" /\ call.pc = "close"
  /\ Return /\ run' = 0 /\ stopping' = FALSE /\ settled' = TRUE
  /\ UNCHANGED <<task, scan, verdict, files, backend, process, tool, memory, queued, rejected, exhausted,
                 effect, late, n>>

-----------------------------------------------------------------------------
(* Ends: of the lease, of the process, of Main.                            *)

\* The human pauses: the intent moves at once, the rest waits for its transaction.
PauseCall ==
  /\ status \in {"running", "awaiting"} /\ granted # "revoked" /\ Happens("events")
  /\ granted' = "revoked"
  /\ UNCHANGED <<status, lease, pending, reported, noticed, settled, scan, verdict, files, proc>>

PauseTransaction ==
  /\ scan.pc = "off" /\ status \in {"running", "awaiting"} /\ granted = "revoked"
  /\ status' = "held" /\ authority' = [phase |-> "paused", lease |-> lease]
  /\ UNCHANGED <<lease, granted, pending, reported, noticed, settled, scan, verdict, latch, inbox, archive,
                 proc, n>>

\* The abort of a revoked lease, or of a report's run that does not end by itself.
AbortArrives ==
  /\ granted # "live" /\ process = "up" /\ run # 0 /\ ~stopping /\ stopping' = TRUE
  /\ UNCHANGED <<task, settled, scan, verdict, files, backend, process, run, tool, memory, call, queued,
                 rejected, exhausted, effect, late, n>>

\* The process ends: a crash, its own shutdown after an effect or without its parent.
Gone ==
  /\ process' = "gone" /\ stopping' = FALSE
  /\ IF backend = "low" /\ process = "up"
     THEN UNCHANGED <<run, tool, memory, call, queued, rejected, exhausted>>
     ELSE /\ run' = 0 /\ tool' = FALSE /\ memory' = NoReport /\ call' = NoCall /\ queued' = 0
          /\ rejected' = 0 /\ exhausted' = 0

Exit ==
  /\ process # "gone" /\ Gone
  /\ IF effect \/ process = "orphan" THEN UNCHANGED n ELSE Happens("events")
  /\ UNCHANGED <<task, settled, scan, verdict, files, backend, effect, late>>

\* Main ends: its scan, its runtime and its reservations are gone, the worker is an orphan.
MainEnds ==
  /\ Happens("events") /\ process # "orphan"
  /\ scan' = NoScan /\ granted' = "revoked"
  /\ status' = (IF status \in {"running", "awaiting"} THEN "held" ELSE status)
  /\ process' = (IF process = "up" THEN "orphan" ELSE process)
  /\ IF backend = "low" THEN call' = NoCall /\ run' = 0 ELSE UNCHANGED <<call, run>>
  /\ UNCHANGED <<lease, pending, reported, noticed, settled, verdict, files, backend, stopping, tool, memory,
                 queued, rejected, exhausted, effect, late>>

\* parentGone: the orphan notices.
ParentGone ==
  /\ process = "orphan" /\ run # 0 /\ ~stopping /\ stopping' = TRUE
  /\ UNCHANGED <<task, settled, scan, verdict, files, backend, process, run, tool, memory, call, queued,
                 rejected, exhausted, effect, late, n>>

-----------------------------------------------------------------------------
(* The scan.  Every await is followed by a look at whether it still holds. *)

Current ==
  /\ process = "up"
  /\ status = "running" => granted = "live"
  /\ status = "awaiting" => granted = "reported"

\* interrupt
Interrupt ==
  /\ status' = "error" /\ granted' = "revoked" /\ authority' = [phase |-> "paused", lease |-> lease]
  /\ UNCHANGED <<lease, pending, reported, noticed>>

\* A process that is gone: its task is held.
ScanFault ==
  /\ scan.pc = "off" /\ process = "gone" /\ status \in {"running", "awaiting"} /\ Interrupt
  /\ UNCHANGED <<settled, scan, verdict, latch, inbox, archive, proc, n>>

ScanStarts ==
  /\ scan.pc = "off" /\ status # "error" /\ Current
  /\ scan' = [NoScan EXCEPT !.pc = "inbox"]
  /\ UNCHANGED <<task, settled, verdict, files, proc, n>>

ScanDropped ==
  /\ scan.pc # "off" /\ ~Current /\ scan' = NoScan
  /\ UNCHANGED <<task, settled, verdict, files, proc, n>>

ScanInbox ==
  /\ scan.pc = "inbox" /\ Current /\ scan' = [scan EXCEPT !.pc = "file", !.todo = inbox]
  /\ UNCHANGED <<task, settled, verdict, files, proc, n>>

\* (DispositionByTask is not part of the model: it does not compare leases.)
DispositionByTask(r) ==
  IF r \in {pending, reported} \/ r \in noticed \cap archive THEN "duplicate"
  ELSE IF r \in noticed THEN "unproven"
  ELSE IF granted # "live" \/ status # "running" THEN "stale" ELSE "accepted"
\* acceptReport: what becomes of a report that was found.
Disposition(r) ==
  IF r \in {pending, reported} \/ r \in noticed \cap archive THEN "duplicate"
  ELSE IF r \in noticed THEN "unproven"
  ELSE IF r.lease # lease THEN "stale"
  ELSE IF pending # NoReport \/ reported.lease = lease THEN "conflict"
  ELSE IF granted # "live" \/ status # "running" THEN "stale"
  ELSE "accepted"

Take(r) ==
  CASE Disposition(r) = "accepted" ->
         /\ status' = "awaiting" /\ granted' = "reported" /\ pending' = r
         /\ authority' = [phase |-> "waiting", lease |-> lease] /\ UNCHANGED <<lease, reported, noticed>>
    [] Disposition(r) = "conflict" -> Interrupt
    [] OTHER -> UNCHANGED <<task, authority>>

\* A report that may be archived is; one that cannot be proved delivered stays where it is.
AfterFile(r) ==
  CASE Disposition(r) = "conflict" -> NoScan
    [] Disposition(r) = "unproven" -> [scan EXCEPT !.todo = @ \ {r}, !.retained = TRUE]
    [] OTHER -> [scan EXCEPT !.pc = "archive", !.file = r, !.retained = TRUE]

ScanFile ==
  /\ scan.pc = "file" /\ Current
  /\ \E r \in scan.todo : Take(r) /\ scan' = AfterFile(r)
  /\ UNCHANGED <<settled, verdict, latch, inbox, archive, proc, n>>

ScanArchive ==
  /\ scan.pc = "archive" /\ Current
  /\ archive' = archive \cup {scan.file} /\ scan' = [scan EXCEPT !.pc = "unlink"]
  /\ UNCHANGED <<task, settled, verdict, authority, latch, inbox, proc, n>>

ScanUnlink ==
  /\ scan.pc = "unlink" /\ Current
  /\ inbox' = inbox \ {scan.file}
  /\ scan' = [scan EXCEPT !.pc = "file", !.todo = @ \ {scan.file}, !.file = NoReport]
  /\ UNCHANGED <<task, settled, verdict, authority, latch, archive, proc, n>>

\* Whether the run has settled is noted before the latch is read.
ScanClock ==
  /\ scan.pc = "file" /\ scan.todo = {} /\ scan' = [scan EXCEPT !.pc = "latch", !.judged = settled]
  /\ UNCHANGED <<task, settled, verdict, files, proc, n>>

\* (ScanLatchUnread is not part of the model: it trusts the inbox alone.)
ScanLatchUnread ==
  /\ scan.pc = "latch" /\ Current /\ scan' = [scan EXCEPT !.pc = "judge"]
  /\ UNCHANGED <<task, settled, verdict, files, proc, n>>
ScanLatch ==
  /\ scan.pc = "latch" /\ Current
  /\ IF latch = NoReport THEN scan' = [scan EXCEPT !.pc = "judge"] /\ UNCHANGED <<task, authority>>
     ELSE /\ Take(latch)
          /\ scan' = IF Disposition(latch) = "conflict" THEN NoScan
                     ELSE [scan EXCEPT !.pc = "judge", !.retained = TRUE]
  /\ UNCHANGED <<settled, verdict, latch, inbox, archive, proc, n>>

\* A run that had settled before the latch was read has ended without a report.
\* (Neither of the first two is part of the model: one looks at the clock too late, one
\* leaves a run alone as long as anything is retained.)
EndedWithoutNow == status = "running" /\ settled
EndedWithoutTrace == status = "running" /\ scan.judged /\ ~scan.retained
EndedWithout == status = "running" /\ scan.judged
ScanJudge ==
  /\ scan.pc = "judge" /\ Current /\ scan' = NoScan
  /\ IF EndedWithout
     THEN /\ Interrupt
          /\ verdict' = [lease |-> lease, kind |-> IF scan.retained THEN "retained" ELSE "empty"]
     ELSE UNCHANGED <<task, authority, verdict>>
  /\ UNCHANGED <<settled, latch, inbox, archive, proc, n>>

\* finalizeReport, once the reporting run has settled.
Frozen ==
  /\ scan.pc = "off" /\ Current /\ status = "awaiting" /\ settled /\ run = 0
  /\ UNCHANGED <<lease, settled, scan, verdict, latch, inbox, archive, proc, n>>

Finalize ==
  /\ Frozen /\ status' = "review" /\ reported' = pending /\ noticed' = noticed \cup {pending}
  /\ pending' = NoReport /\ UNCHANGED <<granted, authority>>

FreezeFails ==
  /\ Frozen /\ status' = "held" /\ granted' = "revoked"
  /\ authority' = [phase |-> "paused", lease |-> lease] /\ UNCHANGED <<pending, reported, noticed>>

-----------------------------------------------------------------------------
Decided == Continue \/ Complete
Report  == CallRefused \/ CallInvalid \/ CallAccepted \/ Retain \/ Recheck \/ Link \/ WriteFails
Low     == LowResult \/ LowPublish \/ LowWriteFails \/ LowSettle
Ending  == PauseCall \/ PauseTransaction \/ AbortArrives \/ Exit \/ MainEnds \/ ParentGone
Scan    == \/ ScanFault \/ ScanStarts \/ ScanDropped \/ ScanInbox \/ ScanFile \/ ScanArchive
           \/ ScanUnlink \/ ScanClock \/ ScanLatch \/ ScanJudge \/ Finalize \/ FreezeFails

Next == Decided \/ CallReport \/ Report \/ ToolCall \/ ToolResult \/ RunEnds \/ Low \/ Ending \/ Scan

\* The timer's scan and its jobs run, and a call or a publication that has begun goes on.
Fairness == /\ WF_vars(Scan) /\ WF_vars(Report) /\ WF_vars(LowPublish \/ LowSettle)
            /\ WF_vars(PauseTransaction)

Spec == Init /\ [][Next]_vars /\ Fairness

-----------------------------------------------------------------------------
(* What the hand-over promises.                                            *)

\* A report in the task belongs to the lease it was accepted under: one that a late write left in
\* the inbox, or that an older lease left in the latch, is never taken for the current attempt's.
ReportFitsLease ==
  /\ pending # NoReport => pending.lease = lease
  /\ status = "review" => reported.lease = lease
  /\ \A r, q \in noticed : r.lease = q.lease => r = q

\* A run is never judged to have ended without a report while the report of its lease is retained,
\* however the write, the settling of the run and the steps of the scan fall.
NoneMeansNone == verdict.lease # 0 => latch.lease # verdict.lease

\* The report a step is judged by is its own, and a step judged to have none has none.
JudgedByItsOwn == ReportFitsLease /\ NoneMeansNone

\* Once a report is retained, the gate lets no tool of its lease begin, whatever became of the
\* call that retained it.
QuietAfterReport == ~late

\* A worker whose repairs are spent leaves nothing more for its lease, queued calls included.
SpentStaysOut == [][exhausted = lease /\ run = lease /\ status = "running" => latch'.lease # lease \/ latch' = latch]_vars

\* Nothing of a lease begins behind its report, and nothing enters behind its last refusal.
ReportEndsWork == []QuietAfterReport /\ SpentStaysOut

\* A run that has settled is judged: its report is taken, or its task is held.
RunsAreJudged == (status = "running" /\ settled) ~> (status # "running")

\* A report retained for a running step is taken, or the step is held by what ended the lease:
\* a report that never reached the inbox is found in the latch.
RetainedIsTaken ==
  (status = "running" /\ latch.lease = lease) ~> (pending = latch \/ reported = latch \/ granted = "revoked")

\* No step waits for a scan that has nothing more to say: its report or its run is dealt with.
ReportsAreTaken == RunsAreJudged /\ RetainedIsTaken
-----------------------------------------------------------------------------
(* Why the safety half of it holds: the inductive invariant.               *)

\* The lease of every party: authority.json always names the lease the controller granted last, the
\* worker works on that one or on none, and what it is about to write belongs to it.
LeaseInv ==
  /\ authority.lease = lease /\ run \in {0, lease}
  /\ call.pc = "none" => call = NoCall
  /\ call # NoCall \/ queued > 0 => run # 0
  /\ call.pc \in {"latch", "publish", "link"} => call.report.lease = lease

\* A worker whose repairs are spent has no call under way, and only such a worker is past its limit.
RepairInv ==
  /\ exhausted <= lease /\ (exhausted = lease => call = NoCall)
  /\ rejected > Repairs => exhausted = lease
  /\ backend = "low" => queued = 0 /\ exhausted = 0

\* Until a step is under review, nothing of its lease was reported or noticed; while it is awaited
\* there is exactly one report of it.
TaskInv ==
  /\ reported.lease <= lease /\ \A r \in noticed : r.lease <= lease
  /\ status \in {"running", "awaiting"} => reported.lease # lease /\ \A r \in noticed : r.lease # lease
  /\ status = "running" => pending = NoReport
  /\ status = "awaiting" => pending # NoReport
  /\ ReportFitsLease

\* A settled run writes nothing more; the scan that is to judge a run has read the latch after that,
\* and would have taken its report.
VerdictInv ==
  /\ settled => run = 0
  /\ scan.judged => settled /\ scan.pc \in {"latch", "judge"}
  /\ scan.pc = "judge" /\ scan.judged /\ status = "running" => latch.lease # lease
  /\ verdict.lease <= lease /\ (verdict.lease = lease => settled)
  /\ NoneMeansNone

HandOverInv == TypeOK /\ LeaseInv /\ RepairInv /\ TaskInv /\ VerdictInv /\ QuietAfterReport
=============================================================================
