---------------------------- MODULE Worker_proofs -----------------------------
(***************************************************************************)
(* Proofs about the two protocols between Pair and a worker process.       *)
(* Reporting: how a lease ends, for both backends, any texts, leases,      *)
(* repairs, calls, failed writes, pauses, exits and restarts.  Session: what*)
(* Pair believes of the session Pi runs, for any number of runs, turns,    *)
(* retries, compactions and stops, and whatever is still on its way in     *)
(* either pipe.  The two share no variable.                                *)
(***************************************************************************)
EXTENDS Reporting, Session, TLAPS

-----------------------------------------------------------------------------
(* Reporting.                                                              *)

\* The bounds are numbers.
LEMMA Bounds ==
  /\ MaxLease \in Nat /\ MaxLease > 0 /\ Repairs \in Nat /\ MaxCalls \in Nat /\ MaxFailures \in Nat
  /\ MaxEvents \in Nat
BY ReportingAssumption

\* What a report that was found, or not found, says.
LEMMA ReportFacts ==
  /\ NoReport \in Found /\ NoReport.lease = 0
  /\ \A r \in Reports : r \in Found /\ r.lease \in 1..MaxLease /\ r # NoReport
  /\ \A r \in Found : r.lease \in 0..MaxLease /\ (r # NoReport => r \in Reports) /\ (r.lease # 0 => r # NoReport)
  /\ \A l \in 1..MaxLease, text \in Texts :
       [lease |-> l, text |-> text] \in Reports /\ [lease |-> l, text |-> text].lease = l
BY ReportingAssumption DEF Found, Reports, NoReport

\* The places of a pair_report call, and what moving it on keeps.
LEMMA CallFacts ==
  /\ NoCall \in Calls /\ NoCall.pc = "none"
  /\ \A c \in Calls : c.pc \in {"none", "latch", "publish", "link", "close"} /\ c.report \in Found
  /\ \A c \in Calls : \A p \in {"publish", "link", "close"} :
       LET d == [c EXCEPT !.pc = p] IN d \in Calls /\ d.pc = p /\ d.report = c.report
  /\ \A p \in {"latch", "publish", "close"}, r \in Found :
       LET d == [pc |-> p, report |-> r] IN d \in Calls /\ d.pc = p /\ d.report = r
BY ReportFacts DEF Calls, NoCall

\* What a call is about to write is a report.
LEMMA WrittenFact ==
  ASSUME TaskTyped, WorkerTyped, LeaseInv, call.pc \in {"latch", "publish", "link"}
  PROVE  call.report \in Reports /\ call.report \in Found
BY ReportFacts, CallFacts DEF TaskTyped, WorkerTyped, LeaseInv

\* The task and its authority keep their types.
LEMMA TaskTypedStep ==
  ASSUME TaskTyped, ScanTyped, TaskInv, latch \in Found, [Next]_vars
  PROVE  TaskTyped'
<1> USE Bounds DEF TaskTyped, task, files, proc
<1>1. CASE Continue
  BY <1>1, ReportFacts DEF Continue, Granted, Activated, Holds
<1>2. CASE Complete
  BY <1>2 DEF Complete, Holds
<1>3. CASE PauseCall
  BY <1>3 DEF PauseCall, Happens
<1>4. CASE PauseTransaction
  BY <1>4 DEF PauseTransaction, Holds
<1>5. CASE MainEnds
  BY <1>5 DEF MainEnds, Happens, Holds
<1>6. CASE ScanFault
  BY <1>6 DEF ScanFault, Interrupt, Holds
<1>7. CASE ScanFile
  BY <1>7, ReportFacts DEF ScanFile, Take, Interrupt, Holds, ScanTyped, Scans
<1>8. CASE ScanLatch
  BY <1>8, ReportFacts DEF ScanLatch, Take, Interrupt, Holds
<1>9. CASE ScanJudge
  BY <1>9 DEF ScanJudge, Interrupt, Holds, EndedWithout
<1>10. CASE Finalize
  BY <1>10, ReportFacts DEF Finalize, Frozen, Holds, TaskInv
<1>11. CASE FreezeFails
  BY <1>11 DEF FreezeFails, Frozen, Holds
<1>12. CASE UNCHANGED <<status, granted, lease, authority, pending, reported, noticed>>
  BY <1>12
<1> QED
  BY <1>1, <1>2, <1>3, <1>4, <1>5, <1>6, <1>7, <1>8, <1>9, <1>10, <1>11, <1>12 DEF Next, Decided,
     Report, Low, Ending, Scan, CallReport, CallRefused, CallInvalid, CallAccepted, Retain, Recheck,
     Link, WriteFails, ToolCall, ToolResult, RunEnds, LowResult, LowPublish, LowWriteFails, LowSettle,
     AbortArrives, Exit, ParentGone, ScanStarts, ScanDropped, ScanInbox, ScanArchive, ScanUnlink,
     ScanClock, vars, task, files, proc, Happens

\* What a file holds is a report, or nothing.
LEMMA FilesTypedStep ==
  ASSUME FilesTyped, LeaseInv, TaskTyped, WorkerTyped, ScanTyped, [Next]_vars
  PROVE  FilesTyped'
<1> USE DEF FilesTyped, task, files, proc
<1>1. CASE Retain
  BY <1>1, WrittenFact DEF Retain
<1>2. CASE Link
  BY <1>2, WrittenFact DEF Link, Return
<1>3. CASE WriteFails
  BY <1>3, WrittenFact DEF WriteFails
<1>4. CASE LowPublish
  BY <1>4, WrittenFact DEF LowPublish
<1>5. CASE LowWriteFails
  BY <1>5, WrittenFact DEF LowWriteFails
<1>6. CASE ScanArchive
  BY <1>6 DEF ScanArchive, ScanTyped, Scans, Found
<1>7. CASE ScanUnlink
  BY <1>7 DEF ScanUnlink
<1>8. CASE UNCHANGED <<latch, inbox, archive>>
  BY <1>8
<1> QED
  BY <1>1, <1>2, <1>3, <1>4, <1>5, <1>6, <1>7, <1>8 DEF Next, Decided, Report, Low, Ending, Scan,
     Continue, Complete, CallReport, CallRefused, CallInvalid, CallAccepted, Recheck, ToolCall,
     ToolResult, RunEnds, LowResult, LowSettle, PauseCall, PauseTransaction, AbortArrives, Exit,
     MainEnds, ParentGone, ScanFault, ScanStarts, ScanDropped, ScanInbox, ScanFile, ScanClock,
     ScanLatch, ScanJudge, Finalize, FreezeFails, vars, task, files, proc, Frozen, Happens, Interrupt,
     Take

\* The scan keeps its type.
LEMMA ScanTypedStep ==
  ASSUME ScanTyped, TaskTyped, FilesTyped, [Next]_vars
  PROVE  ScanTyped'
<1> USE DEF ScanTyped, Scans, task, files, proc
<1>1. CASE Continue
  BY <1>1, ReportFacts DEF Continue
<1>2. CASE RunEnds
  BY <1>2 DEF RunEnds
<1>3. CASE LowSettle
  BY <1>3 DEF LowSettle, Return
<1>4. CASE MainEnds
  BY <1>4, ReportFacts DEF MainEnds, NoScan
<1>5. CASE ScanStarts
  BY <1>5, ReportFacts DEF ScanStarts, NoScan
<1>6. CASE ScanDropped
  BY <1>6, ReportFacts DEF ScanDropped, NoScan
<1>7. CASE ScanInbox
  BY <1>7, ReportFacts DEF ScanInbox, FilesTyped
<1>8. CASE ScanFile
  <2>1. PICK r \in scan.todo : scan' = AfterFile(r)
    BY <1>8 DEF ScanFile
  <2>2. r \in Reports /\ scan.todo \ {r} \in SUBSET Reports /\ UNCHANGED <<settled, verdict>> /\ scan.pc = "file"
    BY <1>8 DEF ScanFile
  <2>3. CASE Disposition(r) = "conflict"
    BY <2>1, <2>2, <2>3, ReportFacts DEF AfterFile, NoScan
  <2>4. CASE Disposition(r) = "unproven"
    BY <2>1, <2>2, <2>4, ReportFacts DEF AfterFile
  <2>5. CASE Disposition(r) \notin {"conflict", "unproven"}
    BY <2>1, <2>2, <2>5, ReportFacts DEF AfterFile
  <2> QED
    BY <2>3, <2>4, <2>5
<1>9. CASE ScanArchive
  BY <1>9, ReportFacts DEF ScanArchive
<1>10. CASE ScanUnlink
  BY <1>10, ReportFacts DEF ScanUnlink
<1>11. CASE ScanClock
  BY <1>11, ReportFacts DEF ScanClock
<1>12. CASE ScanLatch
  <2>1. UNCHANGED <<settled, verdict>>
    BY <1>12 DEF ScanLatch
  <2>2. CASE scan' = NoScan
    BY <2>1, <2>2, ReportFacts DEF NoScan
  <2>3. CASE scan' = [scan EXCEPT !.pc = "judge"]
    BY <2>1, <2>3
  <2>4. CASE scan' = [scan EXCEPT !.pc = "judge", !.retained = TRUE]
    BY <2>1, <2>4
  <2> QED
    BY <1>12, <2>2, <2>3, <2>4 DEF ScanLatch
<1>13. CASE ScanJudge
  BY <1>13, ReportFacts DEF ScanJudge, EndedWithout, TaskTyped, NoScan
<1>14. CASE UNCHANGED <<scan, settled, verdict>>
  BY <1>14
<1> QED
  BY <1>1, <1>2, <1>3, <1>4, <1>5, <1>6, <1>7, <1>8, <1>9, <1>10, <1>11, <1>12, <1>13, <1>14 DEF Next,
     Decided, Report, Low, Ending, Scan, Complete, CallReport, CallRefused, CallInvalid, CallAccepted,
     Retain, Recheck, Link, WriteFails, ToolCall, ToolResult, LowResult, LowPublish, LowWriteFails,
     PauseCall, PauseTransaction, AbortArrives, Exit, ParentGone, ScanFault, Finalize, FreezeFails,
     vars, task, files, proc, Frozen, Happens, Interrupt

\* The worker keeps its type; its rejections stop at the limit.
LEMMA WorkerTypedStep ==
  ASSUME WorkerTyped, TaskTyped, FilesTyped, LeaseInv, RepairInv, [Next]_vars
  PROVE  WorkerTyped'
<1> USE Bounds DEF WorkerTyped, task, files, proc
<1>1. CASE Continue
  <2>1. /\ run' = lease + 1 /\ lease < MaxLease /\ process' = "up" /\ stopping' \in BOOLEAN /\ tool' \in BOOLEAN
        /\ queued' = 0 /\ rejected' = 0 /\ exhausted' \in {0, exhausted} /\ effect' \in BOOLEAN
    BY <1>1 DEF Continue, Activated
  <2>2. memory' \in Found /\ call' \in Calls
    BY <1>1, ReportFacts, CallFacts DEF Continue, Activated
  <2>3. UNCHANGED <<backend, late>>
    BY <1>1 DEF Continue
  <2> QED
    BY <2>1, <2>2, <2>3 DEF TaskTyped
<1>2. CASE CallReport
  BY <1>2 DEF CallReport, Works
<1>3. CASE CallRefused
  BY <1>3, ReportFacts, CallFacts DEF CallRefused, TakeCall, Loaded, Admitted, TaskTyped, FilesTyped
<1>4. CASE CallInvalid
  <2>1. rejected <= Repairs /\ rejected' = rejected + 1 /\ rejected' \in 0..(Repairs + 1)
    BY <1>4 DEF CallInvalid, Admitted, Rejected, LeaseInv, RepairInv
  <2>2. exhausted' \in {exhausted, run} /\ stopping' \in {stopping, TRUE}
    BY <1>4 DEF CallInvalid, Rejected
  <2>3. memory' \in Found /\ queued' \in 0..2
    BY <1>4, ReportFacts DEF CallInvalid, TakeCall, Loaded, FilesTyped
  <2>4. UNCHANGED <<backend, process, run, tool, call, effect, late>>
    BY <1>4 DEF CallInvalid
  <2> QED
    BY <2>1, <2>2, <2>3, <2>4
<1>5. CASE CallAccepted
  BY <1>5, ReportFacts, CallFacts DEF CallAccepted, TakeCall, Loaded, Admitted, TaskTyped, FilesTyped
<1>6. CASE Retain
  BY <1>6, ReportFacts, CallFacts DEF Retain
<1>7. CASE Recheck
  <2>1. call' = NoCall \/ call' = [call EXCEPT !.pc = "link"]
    BY <1>7 DEF Recheck, Return
  <2>2. call' \in Calls
    BY <2>1, CallFacts DEF Calls
  <2>3. UNCHANGED <<backend, process, run, stopping, tool, memory, queued, rejected, exhausted, effect, late>>
    BY <1>7 DEF Recheck
  <2> QED
    BY <2>2, <2>3
<1>8. CASE Link
  BY <1>8, ReportFacts, CallFacts DEF Link, Return
<1>9. CASE WriteFails
  <2>1. rejected <= Repairs /\ rejected' = rejected + 1 /\ rejected' \in 0..(Repairs + 1)
    BY <1>9, CallFacts DEF WriteFails, Rejected, LeaseInv, RepairInv
  <2>2. exhausted' \in {exhausted, run} /\ stopping' \in {stopping, TRUE}
    BY <1>9 DEF WriteFails, Rejected
  <2>3. memory' \in Found /\ call' \in Calls
    BY <1>9, CallFacts DEF WriteFails, Return
  <2>4. UNCHANGED <<backend, process, run, tool, queued, effect, late>>
    BY <1>9 DEF WriteFails
  <2> QED
    BY <2>1, <2>2, <2>3, <2>4
<1>10. CASE ToolCall
  BY <1>10, ReportFacts, CallFacts DEF ToolCall, Works, Loaded, Waiting, TaskTyped, FilesTyped
<1>11. CASE ToolResult
  BY <1>11 DEF ToolResult
<1>12. CASE RunEnds
  <2>1. run' = 0 /\ stopping' \in BOOLEAN
    BY <1>12 DEF RunEnds
  <2>2. UNCHANGED <<backend, process, tool, memory, call, queued, rejected, exhausted, effect, late>>
    BY <1>12 DEF RunEnds
  <2> QED
    BY <2>1, <2>2
<1>13. CASE LowResult
  BY <1>13, ReportFacts, CallFacts DEF LowResult
<1>14. CASE LowPublish
  BY <1>14, ReportFacts, CallFacts DEF LowPublish
<1>15. CASE LowWriteFails
  BY <1>15, ReportFacts, CallFacts DEF LowWriteFails
<1>16. CASE LowSettle
  BY <1>16, ReportFacts, CallFacts DEF LowSettle, Return
<1>17. CASE AbortArrives
  BY <1>17 DEF AbortArrives
<1>18. CASE Exit
  <2>1. process' = "gone" /\ stopping' \in BOOLEAN /\ UNCHANGED <<backend, effect, late>>
    BY <1>18 DEF Exit, Gone
  <2>2. CASE UNCHANGED <<run, tool, memory, call, queued, rejected, exhausted>>
    BY <2>1, <2>2
  <2>3. CASE /\ run' = 0 /\ tool' \in BOOLEAN /\ memory' = NoReport /\ call' = NoCall /\ queued' = 0
             /\ rejected' = 0 /\ exhausted' = 0
    BY <2>1, <2>3, ReportFacts, CallFacts
  <2> QED
    BY <1>18, <2>2, <2>3 DEF Exit, Gone
<1>19. CASE MainEnds
  BY <1>19, ReportFacts, CallFacts DEF MainEnds, Holds, Calls, NoCall
<1>20. CASE ParentGone
  BY <1>20 DEF ParentGone
<1>21. CASE UNCHANGED <<backend, process, run, stopping, tool, effect, late, memory, call, queued, rejected, exhausted>>
  BY <1>21
<1> QED
  BY <1>1, <1>2, <1>3, <1>4, <1>5, <1>6, <1>7, <1>8, <1>9, <1>10, <1>11, <1>12, <1>13, <1>14, <1>15,
     <1>16, <1>17, <1>18, <1>19, <1>20, <1>21 DEF Next, Decided, Report, Low, Ending, Scan, Complete,
     PauseCall, PauseTransaction, ScanFault, ScanStarts, ScanDropped, ScanInbox, ScanFile, ScanArchive,
     ScanUnlink, ScanClock, ScanLatch, ScanJudge, Finalize, FreezeFails, vars, task, files, proc,
     Frozen, Happens, Interrupt, Take

\* The counters stay within their bounds.
LEMMA CountsTypedStep ==
  ASSUME CountsTyped, [Next]_vars
  PROVE  CountsTyped'
<1> USE Bounds DEF CountsTyped
<1>1. CASE Continue
  BY <1>1 DEF Continue
<1>2. CASE CallReport
  BY <1>2 DEF CallReport
<1>3. CASE WriteFails
  BY <1>3 DEF WriteFails, Happens
<1>4. CASE LowWriteFails
  BY <1>4 DEF LowWriteFails, Happens
<1>5. CASE PauseCall
  BY <1>5 DEF PauseCall, Happens
<1>6. CASE Exit
  BY <1>6 DEF Exit, Happens
<1>7. CASE MainEnds
  BY <1>7 DEF MainEnds, Happens
<1>8. CASE UNCHANGED <<n>>
  BY <1>8
<1> QED
  BY <1>1, <1>2, <1>3, <1>4, <1>5, <1>6, <1>7, <1>8 DEF Next, Decided, Report, Low, Ending, Scan,
     Complete, CallRefused, CallInvalid, CallAccepted, Retain, Recheck, Link, ToolCall, ToolResult,
     RunEnds, LowResult, LowPublish, LowSettle, PauseTransaction, AbortArrives, ParentGone, ScanFault,
     ScanStarts, ScanDropped, ScanInbox, ScanFile, ScanArchive, ScanUnlink, ScanClock, ScanLatch,
     ScanJudge, Finalize, FreezeFails, vars, task, files, proc, Frozen, Interrupt, Take

\* The authority names the current lease, and so does whatever the worker is about to write.
LEMMA LeaseStep ==
  ASSUME TypeOK, LeaseInv, RepairInv, [Next]_vars
  PROVE  LeaseInv'
<1> USE Bounds DEF LeaseInv, NoCall, task, files, proc
<1>1. CASE Continue
  BY <1>1 DEF Continue, Granted, Activated, RepairInv, TypeOK, WorkerTyped, TaskTyped, Calls
<1>2. CASE CallReport
  BY <1>2 DEF CallReport, Works, RepairInv, TypeOK, WorkerTyped, TaskTyped, Calls
<1>3. CASE CallRefused
  BY <1>3 DEF CallRefused, TakeCall, Loaded, Admitted, RepairInv, TypeOK, WorkerTyped, TaskTyped, Calls
<1>4. CASE CallInvalid
  BY <1>4 DEF CallInvalid, TakeCall, RepairInv, TypeOK, WorkerTyped, TaskTyped, Calls
<1>5. CASE CallAccepted
  BY <1>5, ReportFacts DEF CallAccepted, TakeCall, RepairInv, TypeOK, WorkerTyped, TaskTyped, Calls
<1>6. CASE Retain
  BY <1>6 DEF Retain, RepairInv, TypeOK, WorkerTyped, TaskTyped, Calls
<1>7. CASE Recheck
  BY <1>7 DEF Recheck, Authorized, Return, RepairInv, TypeOK, WorkerTyped, TaskTyped, Calls
<1>8. CASE Link
  BY <1>8 DEF Link, Return, RepairInv, TypeOK, WorkerTyped, TaskTyped, Calls
<1>9. CASE WriteFails
  BY <1>9 DEF WriteFails, Return, RepairInv, TypeOK, WorkerTyped, TaskTyped, Calls
<1>10. CASE RunEnds
  BY <1>10 DEF RunEnds, RepairInv, TypeOK, WorkerTyped, TaskTyped, Calls
<1>11. CASE LowResult
  BY <1>11, ReportFacts DEF LowResult, RepairInv, TypeOK, WorkerTyped, TaskTyped, Calls
<1>12. CASE LowPublish
  BY <1>12 DEF LowPublish, RepairInv, TypeOK, WorkerTyped, TaskTyped, Calls
<1>13. CASE LowWriteFails
  BY <1>13 DEF LowWriteFails, Happens, RepairInv, TypeOK, WorkerTyped, TaskTyped, Calls
<1>14. CASE LowSettle
  BY <1>14 DEF LowSettle, Return, RepairInv, TypeOK, WorkerTyped, TaskTyped, Calls
<1>15. CASE PauseTransaction
  BY <1>15 DEF PauseTransaction, RepairInv, TypeOK, WorkerTyped, TaskTyped, Calls
<1>16. CASE Exit
  BY <1>16 DEF Exit, Gone, Happens, RepairInv, TypeOK, WorkerTyped, TaskTyped, Calls
<1>17. CASE MainEnds
  BY <1>17 DEF MainEnds, RepairInv, TypeOK, WorkerTyped, TaskTyped, Calls
<1>18. CASE ScanFault
  BY <1>18 DEF ScanFault, Interrupt, RepairInv, TypeOK, WorkerTyped, TaskTyped, Calls
<1>19. CASE ScanFile
  BY <1>19 DEF ScanFile, Take, Interrupt, RepairInv, TypeOK, WorkerTyped, TaskTyped, Calls
<1>20. CASE ScanLatch
  BY <1>20 DEF ScanLatch, Take, Interrupt, RepairInv, TypeOK, WorkerTyped, TaskTyped, Calls
<1>21. CASE ScanJudge
  BY <1>21 DEF ScanJudge, Interrupt, EndedWithout, RepairInv, TypeOK, WorkerTyped, TaskTyped, Calls
<1>22. CASE FreezeFails
  BY <1>22 DEF FreezeFails, Frozen, RepairInv, TypeOK, WorkerTyped, TaskTyped, Calls
<1>23. CASE UNCHANGED <<authority, lease, run, call, queued>>
  BY <1>23
<1> QED
  BY <1>1, <1>2, <1>3, <1>4, <1>5, <1>6, <1>7, <1>8, <1>9, <1>10, <1>11, <1>12, <1>13, <1>14, <1>15,
     <1>16, <1>17, <1>18, <1>19, <1>20, <1>21, <1>22, <1>23 DEF Next, Decided, Report, Low, Ending,
     Scan, Complete, ToolCall, ToolResult, PauseCall, AbortArrives, ParentGone, ScanStarts, ScanDropped,
     ScanInbox, ScanArchive, ScanUnlink, ScanClock, Finalize, vars, task, files, proc, Frozen, Happens

\* A worker whose repairs are spent has no call under way.
LEMMA RepairStep ==
  ASSUME TypeOK, LeaseInv, RepairInv, [Next]_vars
  PROVE  RepairInv'
<1> USE Bounds DEF RepairInv, task, files, proc
<1>1. CASE Continue
  BY <1>1 DEF Continue, Granted, Activated, LeaseInv, NoCall, TypeOK, WorkerTyped, TaskTyped
<1>2. CASE CallReport
  BY <1>2 DEF CallReport, Works, LeaseInv, NoCall, TypeOK, WorkerTyped, TaskTyped
<1>3. CASE CallRefused
  BY <1>3 DEF CallRefused, TakeCall, Loaded, Admitted, LeaseInv, NoCall, TypeOK, WorkerTyped, TaskTyped
<1>4. CASE CallInvalid
  BY <1>4 DEF CallInvalid, TakeCall, Admitted, Rejected, LeaseInv, NoCall, TypeOK, WorkerTyped, TaskTyped
<1>5. CASE CallAccepted
  BY <1>5 DEF CallAccepted, TakeCall, Loaded, Admitted, LeaseInv, NoCall, TypeOK, WorkerTyped, TaskTyped
<1>6. CASE Retain
  BY <1>6 DEF Retain, LeaseInv, NoCall, TypeOK, WorkerTyped, TaskTyped
<1>7. CASE Recheck
  BY <1>7 DEF Recheck, Authorized, Return, LeaseInv, NoCall, TypeOK, WorkerTyped, TaskTyped
<1>8. CASE Link
  BY <1>8 DEF Link, Return, LeaseInv, NoCall, TypeOK, WorkerTyped, TaskTyped
<1>9. CASE WriteFails
  BY <1>9 DEF WriteFails, Return, Rejected, LeaseInv, NoCall, TypeOK, WorkerTyped, TaskTyped
<1>10. CASE LowResult
  BY <1>10 DEF LowResult, LeaseInv, NoCall, TypeOK, WorkerTyped, TaskTyped
<1>11. CASE LowPublish
  BY <1>11 DEF LowPublish, LeaseInv, NoCall, TypeOK, WorkerTyped, TaskTyped
<1>12. CASE LowWriteFails
  BY <1>12 DEF LowWriteFails, LeaseInv, NoCall, TypeOK, WorkerTyped, TaskTyped
<1>13. CASE LowSettle
  BY <1>13 DEF LowSettle, Return, LeaseInv, NoCall, TypeOK, WorkerTyped, TaskTyped
<1>14. CASE Exit
  BY <1>14 DEF Exit, Gone, LeaseInv, NoCall, TypeOK, WorkerTyped, TaskTyped
<1>15. CASE MainEnds
  BY <1>15 DEF MainEnds, LeaseInv, NoCall, TypeOK, WorkerTyped, TaskTyped
<1>16. CASE UNCHANGED <<lease, backend, call, queued, rejected, exhausted>>
  BY <1>16
<1> QED
  BY <1>1, <1>2, <1>3, <1>4, <1>5, <1>6, <1>7, <1>8, <1>9, <1>10, <1>11, <1>12, <1>13, <1>14, <1>15,
     <1>16 DEF Next, Decided, Report, Low, Ending, Scan, Complete, ToolCall, ToolResult, RunEnds,
     PauseCall, PauseTransaction, AbortArrives, ParentGone, ScanFault, ScanStarts, ScanDropped,
     ScanInbox, ScanFile, ScanArchive, ScanUnlink, ScanClock, ScanLatch, ScanJudge, Finalize,
     FreezeFails, vars, task, files, proc, Frozen, Happens, Interrupt, Take

\* What the task holds and has noticed belongs to the leases it names.
LEMMA TaskStep ==
  ASSUME TypeOK, TaskInv, [Next]_vars
  PROVE  TaskInv'
<1> USE Bounds DEF TaskInv, ReportFitsLease, TypeOK, TaskTyped, task, files, proc
<1>1. CASE Continue
  BY <1>1, ReportFacts DEF Continue
<1>2. CASE Complete
  BY <1>2 DEF Complete, Holds
<1>3. CASE PauseTransaction
  BY <1>3 DEF PauseTransaction, Holds
<1>4. CASE MainEnds
  BY <1>4 DEF MainEnds, Holds
<1>5. CASE ScanFault
  BY <1>5 DEF ScanFault, Interrupt, Holds
<1>6. CASE ScanFile
  BY <1>6, ReportFacts DEF ScanFile, Take, Interrupt, Holds, Disposition, ScanTyped, Scans
<1>7. CASE ScanLatch
  BY <1>7, ReportFacts DEF ScanLatch, Take, Interrupt, Holds, Disposition, FilesTyped
<1>8. CASE ScanJudge
  BY <1>8 DEF ScanJudge, Interrupt, Holds, EndedWithout
<1>9. CASE Finalize
  BY <1>9, ReportFacts DEF Finalize, Frozen, Holds
<1>10. CASE FreezeFails
  BY <1>10 DEF FreezeFails, Frozen, Holds
<1>11. CASE UNCHANGED <<status, lease, pending, reported, noticed>>
  BY <1>11
<1> QED
  BY <1>1, <1>2, <1>3, <1>4, <1>5, <1>6, <1>7, <1>8, <1>9, <1>10, <1>11 DEF Next, Decided, Report, Low,
     Ending, Scan, CallReport, CallRefused, CallInvalid, CallAccepted, Retain, Recheck, Link,
     WriteFails, ToolCall, ToolResult, RunEnds, LowResult, LowPublish, LowWriteFails, LowSettle,
     PauseCall, AbortArrives, Exit, ParentGone, ScanStarts, ScanDropped, ScanInbox, ScanArchive,
     ScanUnlink, ScanClock, vars, task, files, proc, Happens

\* The scan judges only a run that has settled, and only after it has read the latch.
LEMMA VerdictStep ==
  ASSUME TypeOK, LeaseInv, TaskInv, VerdictInv, [Next]_vars
  PROVE  VerdictInv'
<1> USE Bounds DEF VerdictInv, NoneMeansNone, task, files, proc
<1>1. CASE Continue
  BY <1>1, ReportFacts DEF Continue, Activated, TypeOK, LeaseInv, TaskInv, TaskTyped, ScanTyped,
     WorkerTyped, Scans, NoScan, NoCall
<1>2. CASE Complete
  BY <1>2, ReportFacts DEF Complete, Holds, TypeOK, LeaseInv, TaskInv, TaskTyped, ScanTyped, WorkerTyped,
     Scans, NoScan, NoCall
<1>3. CASE Retain
  BY <1>3, ReportFacts DEF Retain, TypeOK, LeaseInv, TaskInv, TaskTyped, ScanTyped, WorkerTyped, Scans,
     NoScan, NoCall
<1>4. CASE WriteFails
  BY <1>4, ReportFacts DEF WriteFails, Happens, Return, Rejected, TypeOK, LeaseInv, TaskInv, TaskTyped,
     ScanTyped, WorkerTyped, Scans, NoScan, NoCall
<1>5. CASE RunEnds
  BY <1>5, ReportFacts DEF RunEnds, TypeOK, LeaseInv, TaskInv, TaskTyped, ScanTyped, WorkerTyped, Scans,
     NoScan, NoCall
<1>6. CASE LowWriteFails
  BY <1>6, ReportFacts DEF LowWriteFails, Happens, TypeOK, LeaseInv, TaskInv, TaskTyped, ScanTyped,
     WorkerTyped, Scans, NoScan, NoCall
<1>7. CASE LowSettle
  BY <1>7, ReportFacts DEF LowSettle, Return, TypeOK, LeaseInv, TaskInv, TaskTyped, ScanTyped, WorkerTyped,
     Scans, NoScan, NoCall
<1>8. CASE PauseTransaction
  BY <1>8, ReportFacts DEF PauseTransaction, Holds, TypeOK, LeaseInv, TaskInv, TaskTyped, ScanTyped,
     WorkerTyped, Scans, NoScan, NoCall
<1>9. CASE Exit
  BY <1>9, ReportFacts DEF Exit, Gone, Happens, TypeOK, LeaseInv, TaskInv, TaskTyped, ScanTyped,
     WorkerTyped, Scans, NoScan, NoCall
<1>10. CASE MainEnds
  BY <1>10, ReportFacts DEF MainEnds, Happens, Holds, TypeOK, LeaseInv, TaskInv, TaskTyped, ScanTyped,
     WorkerTyped, Scans, NoScan, NoCall
<1>11. CASE ScanFault
  BY <1>11, ReportFacts DEF ScanFault, Interrupt, Holds, TypeOK, LeaseInv, TaskInv, TaskTyped, ScanTyped,
     WorkerTyped, Scans, NoScan, NoCall
<1>12. CASE ScanStarts
  BY <1>12, ReportFacts DEF ScanStarts, TypeOK, LeaseInv, TaskInv, TaskTyped, ScanTyped, WorkerTyped, Scans,
     NoScan, NoCall
<1>13. CASE ScanDropped
  BY <1>13, ReportFacts DEF ScanDropped, TypeOK, LeaseInv, TaskInv, TaskTyped, ScanTyped, WorkerTyped,
     Scans, NoScan, NoCall
<1>14. CASE ScanInbox
  BY <1>14, ReportFacts DEF ScanInbox, TypeOK, LeaseInv, TaskInv, TaskTyped, ScanTyped, WorkerTyped, Scans,
     NoScan, NoCall
<1>15. CASE ScanFile
  BY <1>15, ReportFacts DEF ScanFile, Take, Interrupt, Holds, TypeOK, LeaseInv, TaskInv, TaskTyped,
     ScanTyped, WorkerTyped, Scans, NoScan, NoCall, Disposition, FilesTyped, AfterFile, Current
<1>16. CASE ScanArchive
  BY <1>16, ReportFacts DEF ScanArchive, TypeOK, LeaseInv, TaskInv, TaskTyped, ScanTyped, WorkerTyped,
     Scans, NoScan, NoCall
<1>17. CASE ScanUnlink
  BY <1>17, ReportFacts DEF ScanUnlink, TypeOK, LeaseInv, TaskInv, TaskTyped, ScanTyped, WorkerTyped, Scans,
     NoScan, NoCall
<1>18. CASE ScanClock
  BY <1>18, ReportFacts DEF ScanClock, TypeOK, LeaseInv, TaskInv, TaskTyped, ScanTyped, WorkerTyped, Scans,
     NoScan, NoCall
<1>19. CASE ScanLatch
  <2>1. UNCHANGED <<settled, run, latch, lease, verdict, reported, noticed>> /\ scan.pc = "latch"
    BY <1>19 DEF ScanLatch, Take, Interrupt
  <2>2. latch \in Found /\ scan \in Scans /\ (status = "running" => granted = "live")
    BY <1>19 DEF ScanLatch, Current, TypeOK, FilesTyped, ScanTyped
  <2>3. scan'.judged => scan.judged /\ scan'.pc = "judge"
    <3>1. CASE scan' = NoScan
      BY <3>1 DEF NoScan
    <3>2. CASE scan' = [scan EXCEPT !.pc = "judge"]
      BY <2>2, <3>2 DEF Scans
    <3>3. CASE scan' = [scan EXCEPT !.pc = "judge", !.retained = TRUE]
      BY <2>2, <3>3 DEF Scans
    <3> QED
      BY <1>19, <3>1, <3>2, <3>3 DEF ScanLatch
  <2>4. ASSUME scan'.judged, status' = "running" PROVE latch.lease # lease
    <3>1. status = "running"
      BY <1>19, <2>4 DEF ScanLatch, Take, Interrupt
    <3>2. CASE latch = NoReport
      BY <3>2, ReportFacts DEF TypeOK, TaskTyped
    <3>3. CASE latch # NoReport /\ latch.lease = lease
      <4>1. Disposition(latch) = "accepted"
        BY <2>2, <3>1, <3>3 DEF Disposition, TaskInv
      <4> QED
        BY <1>19, <2>4, <3>3, <4>1 DEF ScanLatch, Take
    <3> QED
      BY <3>2, <3>3
  <2> QED
    BY <2>1, <2>3, <2>4
<1>20. CASE ScanJudge
  BY <1>20, ReportFacts DEF ScanJudge, Interrupt, Holds, EndedWithout, TypeOK, LeaseInv, TaskInv, TaskTyped,
     ScanTyped, WorkerTyped, Scans, NoScan, NoCall
<1>21. CASE Finalize
  BY <1>21, ReportFacts DEF Finalize, Frozen, Holds, TypeOK, LeaseInv, TaskInv, TaskTyped, ScanTyped,
     WorkerTyped, Scans, NoScan, NoCall
<1>22. CASE FreezeFails
  BY <1>22, ReportFacts DEF FreezeFails, Frozen, Holds, TypeOK, LeaseInv, TaskInv, TaskTyped, ScanTyped,
     WorkerTyped, Scans, NoScan, NoCall
<1>23. CASE UNCHANGED <<settled, run, scan, status, latch, lease, verdict>>
  BY <1>23
<1> QED
  BY <1>1, <1>2, <1>3, <1>4, <1>5, <1>6, <1>7, <1>8, <1>9, <1>10, <1>11, <1>12, <1>13, <1>14, <1>15,
     <1>16, <1>17, <1>18, <1>19, <1>20, <1>21, <1>22, <1>23 DEF Next, Decided, Report, Low, Ending,
     Scan, CallReport, CallRefused, CallInvalid, CallAccepted, Recheck, Link, ToolCall, ToolResult,
     LowResult, LowPublish, PauseCall, AbortArrives, ParentGone, vars, task, files, proc, Happens

\* No tool begins behind the report of its lease.
LEMMA QuietStep ==
  ASSUME TypeOK, LeaseInv, QuietAfterReport, [Next]_vars
  PROVE  QuietAfterReport'
<1> USE Bounds DEF QuietAfterReport, task, files, proc
<1>1. CASE ToolCall
  BY <1>1, ReportFacts DEF ToolCall, Works, Loaded, Waiting, TypeOK, LeaseInv, TaskTyped
<1>2. CASE UNCHANGED <<late>>
  BY <1>2
<1> QED
  BY <1>1, <1>2 DEF Next, Decided, Report, Low, Ending, Scan, Continue, Complete, CallReport,
     CallRefused, CallInvalid, CallAccepted, Retain, Recheck, Link, WriteFails, ToolResult, RunEnds,
     LowResult, LowPublish, LowWriteFails, LowSettle, PauseCall, PauseTransaction, AbortArrives, Exit,
     MainEnds, ParentGone, ScanFault, ScanStarts, ScanDropped, ScanInbox, ScanFile, ScanArchive,
     ScanUnlink, ScanClock, ScanLatch, ScanJudge, Finalize, FreezeFails, vars, task, files, proc,
     Frozen, Happens, Interrupt, Take

\* What a report hands over, whatever is lost, late or cut off: the inductive invariant.
THEOREM HandOverInvariant == Spec => []HandOverInv
<1>1. Init => HandOverInv
  <2> SUFFICES ASSUME Init PROVE HandOverInv
    OBVIOUS
  <2> USE Bounds DEF Init
  <2>1. TaskTyped /\ FilesTyped
    BY ReportFacts DEF TaskTyped, FilesTyped
  <2>2. ScanTyped
    BY ReportFacts DEF ScanTyped, Scans, NoScan, NoVerdict
  <2>3. WorkerTyped
    <3>1. memory \in Found /\ call \in Calls
      BY ReportFacts, CallFacts
    <3>2. stopping \in BOOLEAN /\ tool \in BOOLEAN /\ effect \in BOOLEAN /\ late \in BOOLEAN
      OBVIOUS
    <3>3. backend \in Backends /\ process = "up" /\ run = 1 /\ queued = 0 /\ rejected = 0 /\ exhausted = 0
      OBVIOUS
    <3> HIDE DEF Init
    <3> QED
      BY <3>1, <3>2, <3>3 DEF WorkerTyped
  <2>4. CountsTyped
    BY DEF CountsTyped
  <2>5. LeaseInv /\ RepairInv
    BY CallFacts DEF LeaseInv, RepairInv
  <2>6. TaskInv
    BY ReportFacts DEF TaskInv, ReportFitsLease
  <2>7. VerdictInv
    BY ReportFacts DEF VerdictInv, NoneMeansNone, NoScan, NoVerdict
  <2> QED
    BY <2>1, <2>2, <2>3, <2>4, <2>5, <2>6, <2>7 DEF HandOverInv, TypeOK, QuietAfterReport
<1>2. HandOverInv /\ [Next]_vars => HandOverInv'
  BY TaskTypedStep, FilesTypedStep, ScanTypedStep, WorkerTypedStep, CountsTypedStep, LeaseStep, RepairStep,
     TaskStep, VerdictStep, QuietStep DEF HandOverInv, TypeOK, FilesTyped
<1> QED
  BY <1>1, <1>2, PTL DEF Spec

\* Every variable of the hand-over keeps its type: a report's file never holds anything but a report,
\* and a worker's rejections stop at its limit.
THEOREM ReportingTypeCorrect == Spec => []TypeOK
<1>1. HandOverInv => TypeOK
  BY DEF HandOverInv
<1> QED
  BY <1>1, HandOverInvariant, PTL

\* The report a step is judged by is its own, and a run judged to have ended without one left none.
THEOREM JudgedByItsOwnHolds == Spec => []JudgedByItsOwn
<1>1. HandOverInv => JudgedByItsOwn
  BY DEF HandOverInv, TaskInv, VerdictInv, JudgedByItsOwn
<1> QED
  BY <1>1, HandOverInvariant, PTL

\* No tool begins behind its lease's report, and a worker whose repairs are spent leaves nothing more.
THEOREM ReportEndsWorkHolds == Spec => ReportEndsWork
<1> DEFINE Spent == exhausted = lease /\ run = lease /\ status = "running" => latch'.lease # lease \/ latch' = latch
<1>1. HandOverInv => QuietAfterReport
  BY DEF HandOverInv
<1>2. HandOverInv /\ [Next]_vars => Spent
  <2> SUFFICES ASSUME HandOverInv, [Next]_vars, exhausted = lease
               PROVE  latch' = latch
    OBVIOUS
  <2>1. call.pc = "none"
    BY CallFacts DEF HandOverInv, RepairInv
  <2> QED
    BY <2>1 DEF Next, Decided, Report, Low, Ending, Scan, Continue, Complete, CallReport, CallRefused,
       CallInvalid, CallAccepted, Retain, Recheck, Link, WriteFails, ToolCall, ToolResult, RunEnds, LowResult,
       LowPublish, LowWriteFails, LowSettle, PauseCall, PauseTransaction, AbortArrives, Exit, MainEnds,
       ParentGone, ScanFault, ScanStarts, ScanDropped, ScanInbox, ScanFile, ScanArchive, ScanUnlink,
       ScanClock, ScanLatch, ScanJudge, Finalize, FreezeFails, Frozen, vars, task, files, proc
<1>3. Spec => []QuietAfterReport
  BY <1>1, HandOverInvariant, PTL
<1>4. Spec => SpentStaysOut
  BY <1>2, HandOverInvariant, PTL DEF Spec, SpentStaysOut
<1> QED
  BY <1>3, <1>4, PTL DEF ReportEndsWork

-----------------------------------------------------------------------------
(* Session. *)

Reads    == [kind : {"get_state"}, by : Callers]
Prompts  == [kind : {"prompt"}, by : {"work"}]
Clears   == [kind : {"clear_queue"}, by : {"stop", "reject"}]
Aborts   == [kind : {"abort"}, by : {"stop", "reject", "reap"}]
States   == [kind : {"state"}, by : Callers, seen : SUBSET {"run", "comp"}]
Replies  == [kind : {"started", "refused"}, by : {"work"}]
Cleareds == [kind : {"cleared"}, by : {"stop", "reject"}]
Aborteds == [kind : {"aborted"}, by : {"stop", "reject", "reap"}]
Events   == [kind : {"start", "turn", "end", "retry", "retried", "settled", "cstart", "cend"}, by : {"pi"}]

\* What is on its way to Pi, and to Pair.
Commands == Reads \cup Prompts \cup Clears \cup Aborts
Messages == Events \cup States \cup Replies \cup Cleareds \cup Aborteds

Waits == [at : {"off", "look", "asked", "answered", "sleep", "done"}, clean : BOOLEAN,
          seen : SUBSET {"run", "comp"}, woken : BOOLEAN]
Believed == [streaming : BOOLEAN, unsettled : BOOLEAN, idleKnown : BOOLEAN, seen : SUBSET {"run", "comp"},
             comp : BOOLEAN, retrying : BOOLEAN, maint : BOOLEAN, timer : BOOLEAN, bridge : BOOLEAN,
             pending : BOOLEAN, rejecting : {"no", "clear", "clear+", "abort", "abort+"}, reap : {"no", "abort"}]
Real == [run : {"none", "own", "stray"}, at : {"idle", "turn", "over", "retry"}, comp : BOOLEAN, held : BOOLEAN]

Counts == [{"runs", "stray", "turns", "retries", "compact", "stops", "crowded", "early", "dropped"} -> Nat]

PiTyped    == pi \in Real /\ (pi.run = "none" <=> pi.at = "idle") /\ (pi.held => pi.run = "none")
PipesTyped == down \in Seq(Commands) /\ up \in Seq(Messages)
RtTyped    == rt \in Believed
ActTyped   == act \in [on : BOOLEAN, attempted : BOOLEAN, accepted : BOOLEAN, settled : BOOLEAN]
WaitTyped  == wait \in [Callers -> Waits]
PcTyped    == pc \in [work : {"off", "wait", "probe", "prepared", "load", "state", "prompt", "started", "refused"},
                      stop : {"off", "grace", "clear", "clear+", "abort", "abort+", "idle"}]
CountTyped == /\ ended \in BOOLEAN /\ hit \in {"no", "reject", "reap"}
              /\ times \in Counts
SessionTyped == PiTyped /\ PipesTyped /\ RtTyped /\ ActTyped /\ WaitTyped /\ PcTyped /\ CountTyped
\* Sequences of messages.  s tells of A.  At most one A in s.  The last of A and Z that s tells of is an A.  The
\* first of A and Z in s is an A.  Every A in s comes before every Z.
Tells(s, A)     == \E i \in 1..Len(s) : s[i] \in A
Once(s, A)      == \A i, j \in 1..Len(s) : s[i] \in A /\ s[j] \in A => i = j
Open(s, A, Z)   == \E i \in 1..Len(s) : s[i] \in A /\ \A j \in 1..Len(s) : j > i => s[j] \notin Z
First(s, A, Z)  == \E i \in 1..Len(s) : s[i] \in A /\ \A j \in 1..Len(s) : j < i => s[j] \notin Z
Before(s, A, Z) == \A i, j \in 1..Len(s) : s[i] \in A /\ s[j] \in Z => i < j

\* Messages by who they are for, by what they say, and states that say Pi was busy.
All         == Commands \cup Messages
Of(who)     == {m \in All : m.by = who}
Say(k)      == {m \in All : m.kind \in k}
Seeing(x)   == {m \in States : x \in m.seen}
Asking(c)   == {m \in All : m.by = c /\ m.kind \in {"get_state", "state"}}
ClearsBy(c) == {m \in All : m.by = c /\ m.kind \in {"clear_queue", "cleared"}}
AbortsBy(c) == {m \in All : m.by = c /\ m.kind \in {"abort", "aborted"}}
Prompting   == Say({"prompt", "started", "refused"})

\* Either way; at most one, either way; no Z reaches its end before an A does.
OnWay(A)      == Tells(down, A) \/ Tells(up, A)
Alone(A)      == Once(down, A) /\ Once(up, A) /\ ~(Tells(down, A) /\ Tells(up, A))
AheadOf(A, Z) == Before(down, A, Z) /\ Before(up, A, Z) /\ (Tells(up, Z) => ~Tells(down, A))

\* The commands of one function follow one another: one is on its way only while it waits for the answer.
LineInv ==
  /\ Alone(Of("work")) /\ Alone(Of("stop")) /\ Alone(Of("reject"))
  /\ \A c \in Callers : OnWay(Asking(c)) => wait[c].at = "asked"
  /\ OnWay(Prompting) \/ pi.held => pc.work = "prompt"
  /\ pi.held => ~OnWay(Of("work"))
  /\ OnWay(ClearsBy("stop")) => pc.stop = "clear"
  /\ OnWay(AbortsBy("stop")) => pc.stop = "abort"
  /\ OnWay(ClearsBy("reject")) => rt.rejecting = "clear"
  /\ OnWay(AbortsBy("reject")) => rt.rejecting = "abort"
  /\ rt.rejecting \in {"clear", "abort"} => OnWay(Of("reject"))

\* Where the activation and the stop are, and what that leaves behind.
CallersInv ==
  /\ pc.work = "wait" => wait["work"].at # "off"
  /\ pc.work \in {"probe", "load", "state"} => wait["work"].at \in {"asked", "answered"}
  /\ pc.work \notin {"wait", "probe", "load", "state"} => wait["work"].at = "off"
  /\ pc.stop \in {"grace", "idle"} <=> wait["stop"].at # "off"
  /\ act.on => pc.stop = "off"
  /\ act.on /\ pc.work \in {"load", "state", "prompt", "started", "refused"} => act.attempted
  /\ act.accepted => act.attempted
  /\ act.on /\ pc.work = "off" => act.accepted
  /\ rt.pending <=> pc.work \in {"prompt", "started", "refused"}
  /\ rt.bridge <=> pc.work \in {"probe", "load"}

\* Pair knows of what Pi does, or an event that will tell it is on its way.
Unanswered == pc.work = "refused" \/ (pc.work = "prompt" /\ ~Tells(up, Say({"started"})))
ToldInv ==
  /\ pi.run # "none" => \/ Open(up, Say({"start"}), Say({"settled"}))
                        \/ rt.unsettled /\ ~Tells(up, Say({"settled"}))
  /\ pi.comp => Open(up, Say({"cstart"}), Say({"cend"})) \/ (rt.comp /\ ~Tells(up, Say({"cend"})))
  /\ pi.run = "none" => ~Open(up, Say({"start", "retry"}), Say({"settled"}))
  /\ ~pi.comp => ~Open(up, Say({"cstart"}), Say({"cend"}))
  /\ rt.unsettled /\ pi.run = "none" => Tells(up, Say({"settled"})) \/ Unanswered \/ times["dropped"] > 0
  /\ rt.comp /\ ~pi.comp => Tells(up, Say({"cend"}))
  /\ rt.streaming \/ rt.retrying => rt.unsettled

\* What a caller of waitIdle goes by is still true, or something on its way will wake it.
Reason == \/ pi.run # "none" \/ pi.comp \/ Tells(up, Say({"settled", "cend"}))
          \/ rt.pending \/ rt.bridge \/ times["dropped"] > 0
AskedInv ==
  /\ pi.run = "none" => ~Open(up, Seeing("run"), Say({"settled"}))
  /\ ~pi.comp => ~Open(up, Seeing("comp"), Say({"cend"}))
  /\ \A c \in Callers :
       /\ wait[c].at \in {"asked", "answered"} /\ ~wait[c].clean => wait[c].woken
       /\ wait[c].at = "answered" /\ ~wait[c].woken =>
            /\ "run" \in wait[c].seen => pi.run # "none" \/ Tells(up, Say({"settled"}))
            /\ "comp" \in wait[c].seen => pi.comp \/ Tells(up, Say({"cend"}))
       /\ wait[c].at = "sleep" /\ ~wait[c].woken => Reason

\* A stop that finds the session idle finds no run of the activation, and no prompt that may start one.
StoppedInv ==
  LET w == wait["stop"] IN
  /\ w.at \in {"asked", "answered"} /\ w.clean => ~rt.unsettled
  /\ w.at = "asked" /\ w.clean /\ pi.run = "own" /\ Tells(up, Of("stop")) =>
       First(up, Events, Of("stop")) \/ Open(up, Say({"started"}), Of("stop"))
  /\ w.at = "answered" /\ w.clean /\ pi.run = "own" => Tells(up, Say({"started"}))
  /\ w.at = "done" => pi.run # "own" /\ ~rt.pending

\* The run of an activation belongs to a live one, unless a settlement that was not its own came first.
OwnInv ==
  /\ ~act.on /\ pc.stop = "off" => pi.run # "own" /\ ~rt.pending
  /\ times["early"] = 0 /\ act.on /\ act.settled => pc.work \in {"off", "started"}
  /\ times["early"] = 0 /\ act.on /\ pi.run = "own" =>
       /\ ~act.settled
       /\ \/ pc.work = "prompt" /\ Open(up, Say({"started"}), Say({"settled"}))
          \/ pc.work \in {"started", "off"} /\ ~Tells(up, Say({"settled"}))

\* A rejection that began before the activation was attempted is over before its prompt reaches Pi.
RejectsInv ==
  times["early"] = 0 /\ act.on /\ act.attempted /\ ~act.settled =>
  /\ pc.work = "load" /\ wait["work"].at = "asked" /\ rt.rejecting = "clear" => AheadOf(Of("reject"), Of("work"))
  /\ pc.work = "load" /\ wait["work"].at = "answered" => rt.rejecting \in {"no", "abort"}
  /\ pc.work = "state" /\ wait["work"].at = "asked" =>
       rt.rejecting \in {"no", "abort", "abort+"} /\ AheadOf(Of("reject"), Of("work"))
  /\ pc.work = "state" /\ wait["work"].at = "answered" => rt.rejecting = "no"
  /\ pc.work \in {"prompt", "started", "refused", "off"} => rt.rejecting = "no"

\* And so is the abort of a compaction that took too long.
ReapsInv ==
  times["early"] = 0 /\ times["crowded"] = 0 =>
  /\ rt.maint => rt.comp
  /\ act.on /\ act.attempted /\ ~act.settled =>
     /\ pc.work = "load" /\ wait["work"].at = "asked" => rt.comp \/ AheadOf(Of("reap"), Of("work"))
     /\ pc.work = "load" /\ wait["work"].at = "answered" => rt.comp \/ ~OnWay(Of("reap"))
     /\ pc.work \in {"state", "prompt", "started", "refused", "off"} => ~rt.maint /\ ~OnWay(Of("reap"))

\* The session in order.  After a fault nothing matters any more.
Sound      == LineInv /\ CallersInv /\ ToldInv /\ AskedInv /\ StoppedInv /\ OwnInv /\ RejectsInv /\ ReapsInv
SettledIsOver == act.on /\ act.settled /\ times["early"] = 0 => pi.run # "own"
SessionInv == SessionTyped /\ OwnRunKept /\ SettledIsOver /\ (ended \/ Sound)

LEMMA Joined ==
  ASSUME NEW S, NEW s \in Seq(S), NEW t \in Seq(S)
  PROVE  /\ s \o t \in Seq(S) /\ Len(s) \in Nat /\ Len(t) \in Nat
         /\ Len(s \o t) = Len(s) + Len(t)
         /\ \A i \in 1..Len(s) : i \in 1..Len(s \o t) /\ (s \o t)[i] = s[i]
         /\ \A i \in 1..Len(t) : Len(s) + i \in 1..Len(s \o t) /\ (s \o t)[Len(s) + i] = t[i]
         /\ \A i \in 1..Len(s \o t) : i \in 1..Len(s) \/ (i - Len(s) \in 1..Len(t) /\ i = Len(s) + (i - Len(s)))
  OBVIOUS

LEMMA JoinedTells ==
  ASSUME NEW S, NEW s \in Seq(S), NEW t \in Seq(S), NEW A
  PROVE  Tells(s \o t, A) <=> Tells(s, A) \/ Tells(t, A)
<1>1. Tells(s, A) => Tells(s \o t, A)
  BY Joined DEF Tells
<1>2. ASSUME NEW i \in 1..Len(t), t[i] \in A PROVE Tells(s \o t, A)
  <2>1. Len(s) + i \in 1..Len(s \o t) /\ (s \o t)[Len(s) + i] = t[i]
    BY Joined
  <2> QED
    BY <1>2, <2>1 DEF Tells
<1>3. ASSUME NEW i \in 1..Len(s \o t), (s \o t)[i] \in A PROVE Tells(s, A) \/ Tells(t, A)
  <2>1. CASE i \in 1..Len(s)
    BY <1>3, <2>1, Joined DEF Tells
  <2>2. CASE i - Len(s) \in 1..Len(t)
    BY <1>3, <2>2, Joined DEF Tells
  <2> QED
    BY <2>1, <2>2, Joined
<1> QED
  BY <1>1, <1>2, <1>3 DEF Tells

LEMMA JoinedOnce ==
  ASSUME NEW S, NEW s \in Seq(S), NEW t \in Seq(S), NEW A, Once(s, A), Once(t, A), ~(Tells(s, A) /\ Tells(t, A))
  PROVE  Once(s \o t, A)
<1> SUFFICES ASSUME NEW i \in 1..Len(s \o t), NEW j \in 1..Len(s \o t), (s \o t)[i] \in A, (s \o t)[j] \in A
             PROVE  i = j
  BY DEF Once
<1>1. CASE i \in 1..Len(s) /\ j \in 1..Len(s)
  BY <1>1, Joined DEF Once
<1>2. CASE i - Len(s) \in 1..Len(t) /\ j - Len(s) \in 1..Len(t)
  <2>1. i - Len(s) = j - Len(s)
    BY <1>2, Joined DEF Once
  <2> QED
    BY <1>2, <2>1, Joined
<1>3. CASE i \in 1..Len(s) /\ j - Len(s) \in 1..Len(t)
  BY <1>3, Joined DEF Tells
<1>4. CASE i - Len(s) \in 1..Len(t) /\ j \in 1..Len(s)
  BY <1>4, Joined DEF Tells
<1> QED
  BY <1>1, <1>2, <1>3, <1>4, Joined

LEMMA JoinedOpen ==
  ASSUME NEW S, NEW s \in Seq(S), NEW t \in Seq(S), NEW A, NEW Z
  PROVE  Open(s \o t, A, Z) <=> Open(t, A, Z) \/ (Open(s, A, Z) /\ ~Tells(t, Z))
<1>1. ASSUME NEW i \in 1..Len(t), t[i] \in A, \A j \in 1..Len(t) : j > i => t[j] \notin Z PROVE Open(s \o t, A, Z)
  <2>1. ASSUME NEW j \in 1..Len(s \o t), j > Len(s) + i PROVE (s \o t)[j] \notin Z
    BY <1>1, <2>1, Joined
  <2> QED
    BY <1>1, <2>1, Joined DEF Open
<1>2. ASSUME NEW i \in 1..Len(s), s[i] \in A, \A j \in 1..Len(s) : j > i => s[j] \notin Z, ~Tells(t, Z)
      PROVE  Open(s \o t, A, Z)
  <2>1. ASSUME NEW j \in 1..Len(s \o t), j > i PROVE (s \o t)[j] \notin Z
    BY <1>2, <2>1, Joined DEF Tells
  <2> QED
    BY <1>2, <2>1, Joined DEF Open
<1>3. ASSUME NEW i \in 1..Len(s \o t), (s \o t)[i] \in A, \A j \in 1..Len(s \o t) : j > i => (s \o t)[j] \notin Z
      PROVE  Open(t, A, Z) \/ (Open(s, A, Z) /\ ~Tells(t, Z))
  <2>1. CASE i \in 1..Len(s)
    <3>1. ASSUME NEW j \in 1..Len(t) PROVE t[j] \notin Z
      <4>1. Len(s) + j \in 1..Len(s \o t) /\ (s \o t)[Len(s) + j] = t[j] /\ Len(s) + j > i
        BY <2>1, Joined
      <4> QED
        BY <1>3, <4>1
    <3>2. Open(s, A, Z)
      BY <1>3, <2>1, Joined DEF Open
    <3> QED
      BY <3>1, <3>2 DEF Tells
  <2>2. CASE i - Len(s) \in 1..Len(t)
    <3>1. t[i - Len(s)] \in A
      BY <1>3, <2>2, Joined
    <3>2. ASSUME NEW j \in 1..Len(t), j > i - Len(s) PROVE t[j] \notin Z
      BY <1>3, <2>2, <3>2, Joined
    <3> QED
      BY <2>2, <3>1, <3>2 DEF Open
  <2> QED
    BY <2>1, <2>2, Joined
<1> QED
  BY <1>1, <1>2, <1>3 DEF Open

LEMMA JoinedFirst ==
  ASSUME NEW S, NEW s \in Seq(S), NEW t \in Seq(S), NEW A, NEW Z
  PROVE  First(s \o t, A, Z) <=> First(s, A, Z) \/ (First(t, A, Z) /\ ~Tells(s, Z))
<1>1. ASSUME NEW i \in 1..Len(s), s[i] \in A, \A j \in 1..Len(s) : j < i => s[j] \notin Z PROVE First(s \o t, A, Z)
  <2>1. ASSUME NEW j \in 1..Len(s \o t), j < i PROVE (s \o t)[j] \notin Z
    BY <1>1, <2>1, Joined
  <2> QED
    BY <1>1, <2>1, Joined DEF First
<1>2. ASSUME NEW i \in 1..Len(t), t[i] \in A, \A j \in 1..Len(t) : j < i => t[j] \notin Z, ~Tells(s, Z)
      PROVE  First(s \o t, A, Z)
  <2>1. ASSUME NEW j \in 1..Len(s \o t), j < Len(s) + i PROVE (s \o t)[j] \notin Z
    BY <1>2, <2>1, Joined DEF Tells
  <2>2. Len(s) + i \in 1..Len(s \o t) /\ (s \o t)[Len(s) + i] \in A
    BY <1>2, Joined
  <2> QED
    BY <2>1, <2>2 DEF First
<1>3. ASSUME NEW i \in 1..Len(s \o t), (s \o t)[i] \in A, \A j \in 1..Len(s \o t) : j < i => (s \o t)[j] \notin Z
      PROVE  First(s, A, Z) \/ (First(t, A, Z) /\ ~Tells(s, Z))
  <2>1. CASE i \in 1..Len(s)
    BY <1>3, <2>1, Joined DEF First
  <2>2. CASE i - Len(s) \in 1..Len(t)
    <3>1. t[i - Len(s)] \in A /\ ~Tells(s, Z)
      BY <1>3, <2>2, Joined DEF Tells
    <3>2. ASSUME NEW j \in 1..Len(t), j < i - Len(s) PROVE t[j] \notin Z
      <4>1. Len(s) + j \in 1..Len(s \o t) /\ (s \o t)[Len(s) + j] = t[j] /\ Len(s) + j < i
        BY <2>2, <3>2, Joined
      <4> QED
        BY <1>3, <4>1
    <3> QED
      BY <2>2, <3>1, <3>2 DEF First
  <2> QED
    BY <2>1, <2>2, Joined
<1> QED
  BY <1>1, <1>2, <1>3 DEF First

LEMMA JoinedBefore ==
  ASSUME NEW S, NEW s \in Seq(S), NEW t \in Seq(S), NEW A, NEW Z,
         Before(s, A, Z), Before(t, A, Z), ~(Tells(s, Z) /\ Tells(t, A))
  PROVE  Before(s \o t, A, Z)
<1> SUFFICES ASSUME NEW i \in 1..Len(s \o t), NEW j \in 1..Len(s \o t), (s \o t)[i] \in A, (s \o t)[j] \in Z
             PROVE  i < j
  BY DEF Before
<1>1. CASE i \in 1..Len(s) /\ j \in 1..Len(s)
  BY <1>1, Joined DEF Before
<1>2. CASE i - Len(s) \in 1..Len(t) /\ j - Len(s) \in 1..Len(t)
  <2>1. i - Len(s) < j - Len(s)
    BY <1>2, Joined DEF Before
  <2> QED
    BY <1>2, <2>1, Joined
<1>3. CASE i \in 1..Len(s) /\ j - Len(s) \in 1..Len(t)
  BY <1>3, Joined
<1>4. CASE i - Len(s) \in 1..Len(t) /\ j \in 1..Len(s)
  BY <1>4, Joined DEF Tells
<1> QED
  BY <1>1, <1>2, <1>3, <1>4, Joined

\* What is known of t when it is s with m put behind it, and when it is s without its head.
GainsTells(s, t, m) == \A A : Tells(t, A) <=> Tells(s, A) \/ m \in A
GainsOnce(s, t, m) == \A A : Once(s, A) /\ ~(Tells(s, A) /\ m \in A) => Once(t, A)
GainsOpen(s, t, m) == \A A, Z : Open(t, A, Z) <=> m \in A \/ (Open(s, A, Z) /\ m \notin Z)
GainsFirst(s, t, m) == \A A, Z : First(t, A, Z) <=> First(s, A, Z) \/ (m \in A /\ ~Tells(s, Z))
GainsBefore(s, t, m) == 
  \A A, Z : Before(s, A, Z) /\ ~(m \in A /\ m \in Z) /\ ~(Tells(s, Z) /\ m \in A) => Before(t, A, Z)
Gains(s, t, m) ==
  GainsTells(s, t, m) /\ GainsOnce(s, t, m) /\ GainsOpen(s, t, m) /\ GainsFirst(s, t, m) /\ GainsBefore(s, t, m)

LosesTells(s, t) == \A A : Tells(s, A) <=> s[1] \in A \/ Tells(t, A)
LosesOnce(s, t) == \A A : Once(s, A) => Once(t, A) /\ ~(s[1] \in A /\ Tells(t, A))
LosesOpen(s, t) == \A A, Z : Open(s, A, Z) <=> Open(t, A, Z) \/ (s[1] \in A /\ ~Tells(t, Z))
LosesFirst(s, t) == \A A, Z : First(s, A, Z) <=> s[1] \in A \/ (First(t, A, Z) /\ s[1] \notin Z)
LosesBefore(s, t) == \A A, Z : Before(s, A, Z) => Before(t, A, Z) /\ ~(s[1] \in Z /\ Tells(t, A))
Loses(s, t) == LosesTells(s, t) /\ LosesOnce(s, t) /\ LosesOpen(s, t) /\ LosesFirst(s, t) /\ LosesBefore(s, t)

LEMMA OneTells ==
  ASSUME NEW S, NEW m \in S
  PROVE  /\ << m >> \in Seq(S)
         /\ \A A : Tells(<< m >>, A) <=> m \in A
         /\ \A A : Once(<< m >>, A)
         /\ \A A, Z : Open(<< m >>, A, Z) <=> m \in A
         /\ \A A, Z : First(<< m >>, A, Z) <=> m \in A
         /\ \A A, Z : Before(<< m >>, A, Z) <=> ~(m \in A /\ m \in Z)
<1>1. << m >> \in Seq(S) /\ Len(<< m >>) = 1 /\ << m >>[1] = m
  OBVIOUS
<1>2. \A i : i \in 1..Len(<< m >>) <=> i = 1
  BY <1>1
<1>3. \A A : Tells(<< m >>, A) <=> m \in A
  BY <1>1, <1>2 DEF Tells
<1>4. \A A : Once(<< m >>, A)
  BY <1>1, <1>2 DEF Once
<1>5. \A A, Z : Open(<< m >>, A, Z) <=> m \in A
  BY <1>1, <1>2 DEF Open
<1>6. \A A, Z : First(<< m >>, A, Z) <=> m \in A
  BY <1>1, <1>2 DEF First
<1>7. \A A, Z : Before(<< m >>, A, Z) <=> ~(m \in A /\ m \in Z)
  BY <1>1, <1>2 DEF Before
<1> QED
  BY <1>1, <1>3, <1>4, <1>5, <1>6, <1>7

LEMMA Pushed ==
  ASSUME NEW S, NEW s \in Seq(S), NEW m \in S
  PROVE  s \o << m >> \in Seq(S) /\ Gains(s, s \o << m >>, m)
<1> DEFINE t == << m >>
<1>1. t \in Seq(S)
  BY OneTells
<1>2. s \o t \in Seq(S)
  BY <1>1
<1> SUFFICES Gains(s, s \o t, m)
  BY <1>2
<1>3. /\ \A A : Tells(t, A) <=> m \in A
      /\ \A A : Once(t, A)
      /\ \A A, Z : Open(t, A, Z) <=> m \in A
      /\ \A A, Z : First(t, A, Z) <=> m \in A
      /\ \A A, Z : Before(t, A, Z) <=> ~(m \in A /\ m \in Z)
  BY OneTells
<1> HIDE DEF t
<1>4. ASSUME NEW A PROVE Tells(s \o t, A) <=> Tells(s, A) \/ m \in A
  BY <1>1, <1>3, JoinedTells
<1>5. ASSUME NEW A, Once(s, A), ~(Tells(s, A) /\ m \in A) PROVE Once(s \o t, A)
  BY <1>1, <1>3, <1>5, JoinedOnce
<1>6. ASSUME NEW A, NEW Z PROVE Open(s \o t, A, Z) <=> m \in A \/ (Open(s, A, Z) /\ m \notin Z)
  BY <1>1, <1>3, JoinedOpen
<1>7. ASSUME NEW A, NEW Z PROVE First(s \o t, A, Z) <=> First(s, A, Z) \/ (m \in A /\ ~Tells(s, Z))
  BY <1>1, <1>3, JoinedFirst
<1>8. ASSUME NEW A, NEW Z, Before(s, A, Z), ~(m \in A /\ m \in Z), ~(Tells(s, Z) /\ m \in A) PROVE Before(s \o t, A, Z)
  BY <1>1, <1>3, <1>8, JoinedBefore
<1> QED
  BY <1>4, <1>5, <1>6, <1>7, <1>8 DEF Gains, GainsTells, GainsOnce, GainsOpen, GainsFirst, GainsBefore

LEMMA Popped ==
  ASSUME NEW S, NEW s \in Seq(S), s # << >>
  PROVE  Tail(s) \in Seq(S) /\ s[1] \in S /\ Loses(s, Tail(s))
<1> DEFINE h == << s[1] >>
           t == Tail(s)
<1>1. t \in Seq(S) /\ s[1] \in S /\ s = h \o t
  OBVIOUS
<1>2. h \in Seq(S)
  BY <1>1, OneTells
<1>3. /\ \A A : Tells(h, A) <=> s[1] \in A
      /\ \A A, Z : Open(h, A, Z) <=> s[1] \in A
      /\ \A A, Z : First(h, A, Z) <=> s[1] \in A
  BY <1>1, OneTells
<1> HIDE DEF h, t
<1>4. ASSUME NEW A PROVE Tells(s, A) <=> s[1] \in A \/ Tells(t, A)
  BY <1>1, <1>2, <1>3, JoinedTells
<1>5. ASSUME NEW A, NEW Z PROVE Open(s, A, Z) <=> Open(t, A, Z) \/ (s[1] \in A /\ ~Tells(t, Z))
  BY <1>1, <1>2, <1>3, JoinedOpen
<1>6. ASSUME NEW A, NEW Z PROVE First(s, A, Z) <=> s[1] \in A \/ (First(t, A, Z) /\ s[1] \notin Z)
  BY <1>1, <1>2, <1>3, JoinedFirst
<1>7. /\ Len(t) \in Nat /\ 1 \in 1..Len(s)
      /\ \A i \in 1..Len(t) : i + 1 \in 1..Len(s) /\ t[i] = s[i + 1]
  BY <1>1 DEF t
<1>8. ASSUME NEW A, Once(s, A) PROVE Once(t, A)
  <2> SUFFICES ASSUME NEW i \in 1..Len(t), NEW j \in 1..Len(t), t[i] \in A, t[j] \in A PROVE i = j
    BY DEF Once
  <2>1. i + 1 = j + 1
    BY <1>7, <1>8 DEF Once
  <2> QED
    BY <1>7, <2>1
<1>9. ASSUME NEW A, NEW Z, Before(s, A, Z) PROVE Before(t, A, Z)
  <2> SUFFICES ASSUME NEW i \in 1..Len(t), NEW j \in 1..Len(t), t[i] \in A, t[j] \in Z PROVE i < j
    BY DEF Before
  <2>1. i + 1 < j + 1
    BY <1>7, <1>9 DEF Before
  <2> QED
    BY <1>7, <2>1
<1>10. ASSUME NEW A, Once(s, A), s[1] \in A, Tells(t, A) PROVE FALSE
  <2>1. PICK i \in 1..Len(t) : t[i] \in A
    BY <1>10 DEF Tells
  <2>2. 1 = i + 1
    BY <1>7, <1>10, <2>1 DEF Once
  <2> QED
    BY <1>7, <2>2
<1>11. ASSUME NEW A, NEW Z, Before(s, A, Z), s[1] \in Z, Tells(t, A) PROVE FALSE
  <2>1. PICK i \in 1..Len(t) : t[i] \in A
    BY <1>11 DEF Tells
  <2>2. i + 1 < 1
    BY <1>7, <1>11, <2>1 DEF Before
  <2> QED
    BY <1>7, <2>2
<1> QED
  BY <1>1, <1>4, <1>5, <1>6, <1>8, <1>9, <1>10, <1>11 DEF Loses, LosesTells, LosesOnce, LosesOpen, LosesFirst,
     LosesBefore, t

LEMMA Appended ==
  ASSUME NEW S, NEW s \in Seq(S), NEW m \in S
  PROVE  Append(s, m) \in Seq(S) /\ Gains(s, Append(s, m), m)
<1>1. Append(s, m) = s \o << m >>
  OBVIOUS
<1> QED
  BY <1>1, Pushed

\* And with m and e behind it.
GainsTwoTells(s, t, m, e) == \A A : Tells(t, A) <=> Tells(s, A) \/ m \in A \/ e \in A
GainsTwoOnce(s, t, m, e) == 
  \A A : Once(s, A) /\ ~(Tells(s, A) /\ (m \in A \/ e \in A)) /\ ~(m \in A /\ e \in A) => Once(t, A)
GainsTwoOpen(s, t, m, e) == 
  \A A, Z : Open(t, A, Z) <=> e \in A \/ (e \notin Z /\ (m \in A \/ (Open(s, A, Z) /\ m \notin Z)))
GainsTwoFirst(s, t, m, e) == 
  \A A, Z : First(t, A, Z) <=> First(s, A, Z) \/ (~Tells(s, Z) /\ (m \in A \/ (e \in A /\ m \notin Z)))
GainsTwoBefore(s, t, m, e) == \A A, Z : Before(s, A, Z) /\ m \notin A /\ e \notin A => Before(t, A, Z)
GainsTwo(s, t, m, e) ==
  /\ GainsTwoTells(s, t, m, e) /\ GainsTwoOnce(s, t, m, e) /\ GainsTwoOpen(s, t, m, e)
  /\ GainsTwoFirst(s, t, m, e) /\ GainsTwoBefore(s, t, m, e)

LEMMA PushedTwo ==
  ASSUME NEW S, NEW s \in Seq(S), NEW m \in S, NEW e \in S
  PROVE  s \o << m, e >> \in Seq(S) /\ GainsTwo(s, s \o << m, e >>, m, e)
<1> DEFINE v == Append(s, m)
           t == Append(v, e)
<1>1. s \o << m, e >> = t
  OBVIOUS
<1>2. v \in Seq(S) /\ Gains(s, v, m)
  BY Appended
<1> HIDE DEF v
<1>3. t \in Seq(S) /\ Gains(v, t, e)
  BY <1>2, Appended
<1> HIDE DEF t
<1>4. \A A : Tells(t, A) <=> Tells(s, A) \/ m \in A \/ e \in A
  BY <1>2, <1>3 DEF Gains, GainsTells, GainsOnce, GainsOpen, GainsFirst, GainsBefore
<1>5. ASSUME NEW A, Once(s, A), ~(Tells(s, A) /\ (m \in A \/ e \in A)), ~(m \in A /\ e \in A) PROVE Once(t, A)
  BY <1>2, <1>3, <1>5 DEF Gains, GainsTells, GainsOnce, GainsOpen, GainsFirst, GainsBefore
<1>6. ASSUME NEW A, NEW Z
      PROVE  /\ Open(t, A, Z) <=> e \in A \/ (e \notin Z /\ (m \in A \/ (Open(s, A, Z) /\ m \notin Z)))
             /\ First(t, A, Z) <=> First(s, A, Z) \/ (~Tells(s, Z) /\ (m \in A \/ (e \in A /\ m \notin Z)))
  BY <1>2, <1>3 DEF Gains, GainsTells, GainsOnce, GainsOpen, GainsFirst, GainsBefore
<1>7. ASSUME NEW A, NEW Z, Before(s, A, Z), m \notin A, e \notin A PROVE Before(t, A, Z)
  BY <1>2, <1>3, <1>7 DEF Gains, GainsTells, GainsOnce, GainsOpen, GainsFirst, GainsBefore
<1> QED
  BY <1>1, <1>3, <1>4, <1>5, <1>6, <1>7 DEF GainsTwo, GainsTwoTells, GainsTwoOnce, GainsTwoOpen,
     GainsTwoFirst, GainsTwoBefore

\* How a message is known by its kind and by who it is for.
KnownOf(m)   == (\A w : m \in Of(w) <=> m.by = w) /\ (m \in Events <=> m.by = "pi")
KnownSay(m)  == \A k : m \in Say(k) <=> m.kind \in k
KnownSeen(m) == \A x : m \in Seeing(x) <=> m.kind = "state" /\ x \in m.seen
KnownFor(m)  == /\ \A c : m \in Asking(c) <=> m.by = c /\ m.kind \in {"get_state", "state"}
                /\ \A c : m \in ClearsBy(c) <=> m.by = c /\ m.kind \in {"clear_queue", "cleared"}
                /\ \A c : m \in AbortsBy(c) <=> m.by = c /\ m.kind \in {"abort", "aborted"}
                /\ m \in Prompting <=> m.kind \in {"prompt", "started", "refused"}
Known(m)     == KnownOf(m) /\ KnownSay(m) /\ KnownSeen(m) /\ KnownFor(m)

LEMMA CommandKinds ==
  ASSUME NEW m \in Commands
  PROVE  /\ Known(m) /\ m.by # "pi"
         /\ m.kind \in {"get_state", "prompt", "clear_queue", "abort"}
         /\ m.kind = "get_state" => m.by \in Callers
         /\ m.kind = "prompt" => m.by = "work"
         /\ m.kind = "clear_queue" => m.by \in {"stop", "reject"}
         /\ m.kind = "abort" => m.by \in {"stop", "reject", "reap"}
<1>1. /\ m.kind \in {"get_state", "prompt", "clear_queue", "abort"} /\ m.by # "pi"
      /\ m.kind = "get_state" => m.by \in Callers
      /\ m.kind = "prompt" => m.by = "work"
      /\ m.kind = "clear_queue" => m.by \in {"stop", "reject"}
      /\ m.kind = "abort" => m.by \in {"stop", "reject", "reap"}
      /\ m \notin States /\ m \notin Events
  BY DEF Commands, Reads, Prompts, Clears, Aborts, Callers, States, Events
<1> QED
  BY <1>1 DEF Known, KnownOf, KnownSay, KnownSeen, KnownFor, Of, Say, Seeing, Asking, ClearsBy, AbortsBy,
     Prompting, All

LEMMA MessageKinds ==
  ASSUME NEW m \in Messages
  PROVE  /\ Known(m)
         /\ m.by = "pi" => m.kind \in {"start", "turn", "end", "retry", "retried", "settled", "cstart", "cend"}
         /\ m.by # "pi" => m.kind \in {"state", "started", "refused", "cleared", "aborted"}
         /\ m.kind = "state" => m.by \in Callers /\ m.seen \in SUBSET {"run", "comp"}
         /\ m.kind \in {"started", "refused"} => m.by = "work"
         /\ m.kind = "cleared" => m.by \in {"stop", "reject"}
         /\ m.kind = "aborted" => m.by \in {"stop", "reject", "reap"}
<1>1. /\ m.by = "pi" => m.kind \in {"start", "turn", "end", "retry", "retried", "settled", "cstart", "cend"}
      /\ m.by # "pi" => m.kind \in {"state", "started", "refused", "cleared", "aborted"}
      /\ m.kind = "state" => m.by \in Callers /\ m.seen \in SUBSET {"run", "comp"}
      /\ m.kind \in {"started", "refused"} => m.by = "work"
      /\ m.kind = "cleared" => m.by \in {"stop", "reject"}
      /\ m.kind = "aborted" => m.by \in {"stop", "reject", "reap"}
      /\ m \in States <=> m.kind = "state"
      /\ m \in Events <=> m.by = "pi"
  BY DEF Messages, States, Replies, Cleareds, Aborteds, Events, Callers
<1> QED
  BY <1>1 DEF Known, KnownOf, KnownSay, KnownSeen, KnownFor, Of, Say, Seeing, Asking, ClearsBy, AbortsBy,
     Prompting, All

\* What Pi and Pair put on their way are messages.
LEMMA EventFact ==
  ASSUME NEW k \in {"start", "turn", "end", "retry", "retried", "settled", "cstart", "cend"}
  PROVE  Event(k) \in Messages /\ Event(k).kind = k /\ Event(k).by = "pi"
BY DEF Event, Messages, Events

LEMMA AnswerFact ==
  /\ \A k \in {"started", "refused"} :
       Answer(k, "work") \in Messages /\ Answer(k, "work").kind = k /\ Answer(k, "work").by = "work"
  /\ \A c \in {"stop", "reject"} :
       Answer("cleared", c) \in Messages /\ Answer("cleared", c).kind = "cleared" /\ Answer("cleared", c).by = c
  /\ \A c \in {"stop", "reject", "reap"} :
       Answer("aborted", c) \in Messages /\ Answer("aborted", c).kind = "aborted" /\ Answer("aborted", c).by = c
BY DEF Answer, Messages, Replies, Cleareds, Aborteds

LEMMA StateFact ==
  ASSUME NEW c \in Callers, NEW x \in SUBSET {"run", "comp"}
  PROVE  LET m == [kind |-> "state", by |-> c, seen |-> x] IN
         m \in Messages /\ m.kind = "state" /\ m.by = c /\ m.seen = x
BY DEF Messages, States

LEMMA CommandFact ==
  /\ \A c \in Callers : Command("get_state", c) \in Commands /\ Command("get_state", c).kind = "get_state"
                        /\ Command("get_state", c).by = c
  /\ Command("prompt", "work") \in Commands /\ Command("prompt", "work").kind = "prompt"
  /\ Command("prompt", "work").by = "work"
  /\ \A c \in {"stop", "reject"} :
       Command("clear_queue", c) \in Commands /\ Command("clear_queue", c).kind = "clear_queue"
       /\ Command("clear_queue", c).by = c
  /\ \A c \in {"stop", "reject", "reap"} :
       Command("abort", c) \in Commands /\ Command("abort", c).kind = "abort" /\ Command("abort", c).by = c
BY DEF Command, Commands, Reads, Prompts, Clears, Aborts, Callers

LEMMA OptionTells ==
  ASSUME NEW S, NEW m \in S, NEW b
  PROVE  LET s == IF b THEN << m >> ELSE << >> IN
         /\ s \in Seq(S)
         /\ \A A : Tells(s, A) <=> b /\ m \in A
         /\ \A A : Once(s, A)
         /\ \A A, Z : Open(s, A, Z) <=> b /\ m \in A
         /\ \A A, Z : First(s, A, Z) <=> b /\ m \in A
<1>1. CASE b
  BY <1>1, OneTells
<1>2. CASE ~b
  BY <1>2 DEF Tells, Once, Open, First
<1> QED
  BY <1>1, <1>2

LEMMA NothingTold ==
  ASSUME NEW S, NEW s \in Seq(S), NEW A, ~Tells(s, A)
  PROVE  Once(s, A) /\ \A Z : Before(s, A, Z) /\ ~Open(s, A, Z) /\ ~First(s, A, Z)
BY DEF Tells, Once, Before, Open, First

\* What Pi ends when it is told to abort: nothing but the end of what there was.
LEMMA ClosingFacts ==
  /\ Closing \in Seq(Messages)
  /\ \A A : Tells(Closing, A) <=> \/ pi.at = "turn" /\ Event("end") \in A
                                  \/ pi.at = "retry" /\ Event("retried") \in A
                                  \/ pi.comp /\ Event("cend") \in A
                                  \/ pi.run # "none" /\ Event("settled") \in A
                                  \/ pi.held /\ Answer("refused", "work") \in A
  /\ \A w \in {"work", "stop", "reject", "reap"} : Once(Closing, Of(w))
<1> DEFINE a == IF pi.at = "turn" THEN << Event("end") >> ELSE << >>
           b == IF pi.at = "retry" THEN << Event("retried") >> ELSE << >>
           c == IF pi.comp THEN << Event("cend") >> ELSE << >>
           d == IF pi.run # "none" THEN << Event("settled") >> ELSE << >>
           e == IF pi.held THEN << Answer("refused", "work") >> ELSE << >>
           f == a \o b
           g == f \o c
           h == g \o d
<1>1. Closing = h \o e
  BY DEF Closing
<1>2. a \in Seq(Messages) /\ \A A : (Tells(a, A) <=> pi.at = "turn" /\ Event("end") \in A) /\ Once(a, A)
  BY EventFact, AnswerFact, OptionTells
<1>3. b \in Seq(Messages) /\ \A A : (Tells(b, A) <=> pi.at = "retry" /\ Event("retried") \in A) /\ Once(b, A)
  BY EventFact, AnswerFact, OptionTells
<1>4. c \in Seq(Messages) /\ \A A : (Tells(c, A) <=> pi.comp /\ Event("cend") \in A) /\ Once(c, A)
  BY EventFact, AnswerFact, OptionTells
<1>5. d \in Seq(Messages) /\ \A A : (Tells(d, A) <=> pi.run # "none" /\ Event("settled") \in A) /\ Once(d, A)
  BY EventFact, AnswerFact, OptionTells
<1>6. e \in Seq(Messages) /\ \A A : (Tells(e, A) <=> pi.held /\ Answer("refused", "work") \in A) /\ Once(e, A)
  BY EventFact, AnswerFact, OptionTells
<1> HIDE DEF a, b, c, d, e
<1>7. f \in Seq(Messages) /\ \A A : Tells(f, A) <=> Tells(a, A) \/ Tells(b, A)
  BY <1>2, <1>3, JoinedTells
<1> HIDE DEF f
<1>8. g \in Seq(Messages) /\ \A A : Tells(g, A) <=> Tells(f, A) \/ Tells(c, A)
  BY <1>4, <1>7, JoinedTells
<1> HIDE DEF g
<1>9. h \in Seq(Messages) /\ \A A : Tells(h, A) <=> Tells(g, A) \/ Tells(d, A)
  BY <1>5, <1>8, JoinedTells
<1> HIDE DEF h
<1>10. Closing \in Seq(Messages) /\ \A A : Tells(Closing, A) <=> Tells(h, A) \/ Tells(e, A)
  BY <1>1, <1>6, <1>9, JoinedTells
<1>11. ASSUME NEW w \in {"work", "stop", "reject", "reap"} PROVE Once(Closing, Of(w))
  <2>1. ASSUME NEW k \in {"end", "retried", "cend", "settled"} PROVE Event(k) \notin Of(w)
    <3>1. Event(k) \in Messages /\ Event(k).by = "pi"
      BY EventFact
    <3> QED
      BY <3>1 DEF Of
  <2>2. ~Tells(h, Of(w))
    BY <1>2, <1>3, <1>4, <1>5, <1>7, <1>8, <1>9, <2>1
  <2>3. Once(h, Of(w)) /\ Once(e, Of(w))
    BY <1>6, <1>9, <2>2, NothingTold
  <2> QED
    BY <1>1, <1>6, <1>9, <2>2, <2>3, JoinedOnce
<1>12. ASSUME NEW A
       PROVE  Tells(Closing, A) <=> \/ pi.at = "turn" /\ Event("end") \in A
                                    \/ pi.at = "retry" /\ Event("retried") \in A
                                    \/ pi.comp /\ Event("cend") \in A
                                    \/ pi.run # "none" /\ Event("settled") \in A
                                    \/ pi.held /\ Answer("refused", "work") \in A
  BY <1>2, <1>3, <1>4, <1>5, <1>6, <1>7, <1>8, <1>9, <1>10
<1> QED
  BY <1>10, <1>11, <1>12

\* What is known of t when it is s with u and then m behind it, as far as it is needed of u.
JoinsTells(s, u, t, m) == \A A : Tells(t, A) <=> Tells(s, A) \/ Tells(u, A) \/ m \in A
JoinsOnce(s, u, t, m) == 
  \A A : Once(s, A) /\ Once(u, A) /\ ~(Tells(s, A) /\ Tells(u, A)) /\ ~(m \in A /\ (Tells(s, A) \/ Tells(u, A)))
         => Once(t, A)
JoinsOpen(s, u, t, m) == 
  \A A, Z : ~Tells(u, A) /\ m \notin A => (Open(t, A, Z) <=> Open(s, A, Z) /\ ~Tells(u, Z) /\ m \notin Z)
JoinsBefore(s, u, t, m) == 
  \A A, Z : /\ Before(s, A, Z) /\ ~Tells(u, A) /\ m \notin Z /\ ~(m \in A /\ (Tells(s, Z) \/ Tells(u, Z)))
            => Before(t, A, Z)
Joins(s, u, t, m) ==
  JoinsTells(s, u, t, m) /\ JoinsOnce(s, u, t, m) /\ JoinsOpen(s, u, t, m) /\ JoinsBefore(s, u, t, m)

LEMMA JoinedAll ==
  ASSUME NEW S, NEW s \in Seq(S), NEW u \in Seq(S), NEW m \in S
  PROVE  s \o u \o << m >> \in Seq(S) /\ Joins(s, u, s \o u \o << m >>, m)
<1> DEFINE v == s \o u
           t == v \o << m >>
<1>1. v \in Seq(S)
  OBVIOUS
<1>2. \A A : Tells(v, A) <=> Tells(s, A) \/ Tells(u, A)
  BY JoinedTells
<1>3. ASSUME NEW A, Once(s, A), Once(u, A), ~(Tells(s, A) /\ Tells(u, A)) PROVE Once(v, A)
  BY <1>3, JoinedOnce
<1>4. ASSUME NEW A, NEW Z, ~Tells(u, A) PROVE Open(v, A, Z) <=> Open(s, A, Z) /\ ~Tells(u, Z)
  <2>1. ~Open(u, A, Z)
    BY <1>4, NothingTold
  <2> QED
    BY <2>1, JoinedOpen
<1>5. ASSUME NEW A, NEW Z, Before(s, A, Z), ~Tells(u, A) PROVE Before(v, A, Z)
  <2>1. Before(u, A, Z)
    BY <1>5, NothingTold
  <2> QED
    BY <1>5, <2>1, JoinedBefore
<1> HIDE DEF v
<1>6. t \in Seq(S) /\ Gains(v, t, m)
  BY <1>1, Pushed
<1> HIDE DEF t
<1>7. \A A : Tells(t, A) <=> Tells(s, A) \/ Tells(u, A) \/ m \in A
  BY <1>2, <1>6 DEF Gains, GainsTells, GainsOnce, GainsOpen, GainsFirst, GainsBefore
<1>8. ASSUME NEW A, Once(s, A), Once(u, A), ~(Tells(s, A) /\ Tells(u, A)), ~(m \in A /\ (Tells(s, A) \/ Tells(u, A)))
      PROVE  Once(t, A)
  BY <1>2, <1>3, <1>6, <1>8 DEF Gains, GainsTells, GainsOnce, GainsOpen, GainsFirst, GainsBefore
<1>9. ASSUME NEW A, NEW Z, ~Tells(u, A), m \notin A
      PROVE  Open(t, A, Z) <=> Open(s, A, Z) /\ ~Tells(u, Z) /\ m \notin Z
  BY <1>4, <1>6, <1>9 DEF Gains, GainsTells, GainsOnce, GainsOpen, GainsFirst, GainsBefore
<1>10. ASSUME NEW A, NEW Z, Before(s, A, Z), ~Tells(u, A), m \notin Z, ~(m \in A /\ (Tells(s, Z) \/ Tells(u, Z)))
       PROVE  Before(t, A, Z)
  BY <1>2, <1>5, <1>6, <1>10 DEF Gains, GainsTells, GainsOnce, GainsOpen, GainsFirst, GainsBefore
<1> QED
  BY <1>6, <1>7, <1>8, <1>9, <1>10 DEF Joins, JoinsTells, JoinsOnce, JoinsOpen, JoinsBefore, t, v

\* What Pair believes once it has made something of an event.
Heeded(k) == [Noted(k) EXCEPT !.rejecting = IF Rejects(k) THEN "clear" ELSE @]

LEMMA NotedFacts ==
  ASSUME RtTyped, NEW k \in {"start", "turn", "end", "retry", "retried", "settled", "cstart", "cend"}
  PROVE  /\ Heeded(k) \in Believed
         /\ Heeded(k).streaming = (IF k = "start" THEN TRUE ELSE IF k \in {"end", "settled"} THEN FALSE ELSE rt.streaming)
         /\ Heeded(k).unsettled = (IF k \in {"start", "retry"} THEN TRUE ELSE IF k = "settled" THEN FALSE ELSE rt.unsettled)
         /\ Heeded(k).comp = (IF k = "cstart" THEN TRUE ELSE IF k = "cend" THEN FALSE ELSE rt.comp)
         /\ Heeded(k).retrying = (IF k = "retry" THEN TRUE ELSE IF k = "retried" THEN FALSE ELSE rt.retrying)
         /\ Heeded(k).maint = (IF k = "cstart" THEN rt.maint \/ Maintenance(k) ELSE IF k = "cend" THEN FALSE ELSE rt.maint)
         /\ Heeded(k).bridge = rt.bridge /\ Heeded(k).pending = rt.pending
         /\ Heeded(k).rejecting = (IF Rejects(k) THEN "clear" ELSE rt.rejecting)
<1> DEFINE y == Noted(k)
<1>1. /\ y \in Believed
      /\ y.streaming = (IF k = "start" THEN TRUE ELSE IF k \in {"end", "settled"} THEN FALSE ELSE rt.streaming)
      /\ y.unsettled = (IF k \in {"start", "retry"} THEN TRUE ELSE IF k = "settled" THEN FALSE ELSE rt.unsettled)
      /\ y.comp = (IF k = "cstart" THEN TRUE ELSE IF k = "cend" THEN FALSE ELSE rt.comp)
      /\ y.retrying = (IF k = "retry" THEN TRUE ELSE IF k = "retried" THEN FALSE ELSE rt.retrying)
      /\ y.maint = (IF k = "cstart" THEN rt.maint \/ Maintenance(k) ELSE IF k = "cend" THEN FALSE ELSE rt.maint)
      /\ y.bridge = rt.bridge /\ y.pending = rt.pending /\ y.rejecting = rt.rejecting
  <2>1. CASE k = "start"
    BY <2>1 DEF Noted, RtTyped, Believed
  <2>2. CASE k = "turn"
    BY <2>2 DEF Noted, RtTyped, Believed
  <2>3. CASE k = "end"
    BY <2>3 DEF Noted, AfterEnd, RtTyped, Believed
  <2>4. CASE k = "retry"
    BY <2>4 DEF Noted, RtTyped, Believed
  <2>5. CASE k = "retried"
    BY <2>5 DEF Noted, RtTyped, Believed
  <2>6. CASE k = "cstart"
    <3>1. Maintenance(k) \in BOOLEAN
      BY DEF Maintenance
    <3> QED
      BY <2>6, <3>1 DEF Noted, RtTyped, Believed
  <2>7. CASE k = "cend"
    BY <2>7 DEF Noted, RtTyped, Believed
  <2>8. CASE k = "settled"
    BY <2>8 DEF Noted, RtTyped, Believed
  <2> QED
    BY <2>1, <2>2, <2>3, <2>4, <2>5, <2>6, <2>7, <2>8
<1> HIDE DEF y
<1>2. Heeded(k) = [y EXCEPT !.rejecting = IF Rejects(k) THEN "clear" ELSE y.rejecting]
  BY DEF y, Heeded
<1> QED
  BY <1>1, <1>2 DEF Believed

LEMMA Observed ==
  ASSUME PipesTyped, RtTyped, Observe, ~ended'
  PROVE  LET k == up[1].kind IN
         /\ up # << >> /\ up[1] \in Messages /\ up[1].by = "pi"
         /\ k \in {"start", "turn", "end", "retry", "retried", "settled", "cstart", "cend"}
         /\ up' \in Seq(Messages) /\ Loses(up, up')
         /\ ~rt.bridge /\ ~(k = "settled" /\ (rt.comp \/ rt.retrying))
         /\ rt' = Heeded(k)
         /\ \/ Rejects(k) /\ down' \in Seq(Commands) /\ Gains(down, down', Command("clear_queue", "reject"))
            \/ ~Rejects(k) /\ down' = down
         /\ act' = IF k = "settled" /\ act.on THEN [act EXCEPT !.settled = TRUE] ELSE act
         /\ times' = IF k = "settled" /\ act.on /\ pc.work \notin {"off", "started"} THEN [times EXCEPT !.early = 1] ELSE times
         /\ wait' = Touched /\ UNCHANGED <<pi, pc, ended, hit>> /\ ~ended
<1> DEFINE k == up[1].kind
<1>1. /\ ~ended /\ up # << >> /\ up[1].by = "pi" /\ up' = Tail(up)
      /\ ~rt.bridge /\ ~(k = "settled" /\ (rt.comp \/ rt.retrying))
      /\ rt' = Heeded(k)
      /\ down' = IF Rejects(k) THEN Append(down, Command("clear_queue", "reject")) ELSE down
      /\ act' = IF k = "settled" /\ act.on THEN [act EXCEPT !.settled = TRUE] ELSE act
      /\ times' = IF k = "settled" /\ act.on /\ pc.work \notin {"off", "started"} THEN [times EXCEPT !.early = 1] ELSE times
      /\ wait' = Touched /\ UNCHANGED <<pi, pc, ended, hit>>
  BY DEF Observe, Dies, Heeded
<1>2. up' \in Seq(Messages) /\ up[1] \in Messages /\ Loses(up, up')
  BY <1>1, Popped DEF PipesTyped
<1>3. k \in {"start", "turn", "end", "retry", "retried", "settled", "cstart", "cend"}
  BY <1>1, <1>2, MessageKinds
<1>4. ASSUME Rejects(k) PROVE down' \in Seq(Commands) /\ Gains(down, down', Command("clear_queue", "reject"))
  <2>1. down' = Append(down, Command("clear_queue", "reject"))
    BY <1>1, <1>4
  <2> QED
    BY <2>1, CommandFact, Appended DEF PipesTyped
<1> QED
  BY <1>1, <1>2, <1>3, <1>4

\* What Pi puts on its way.
LEMMA Emitted ==
  ASSUME PipesTyped, NEW p, NEW k \in {"start", "turn", "end", "retry", "retried", "settled", "cstart", "cend"},
         Emit(p, << Event(k) >>)
  PROVE  /\ up' \in Seq(Messages) /\ Gains(up, up', Event(k)) /\ Event(k) \in Messages
         /\ Event(k).kind = k /\ Event(k).by = "pi" /\ pi' = p /\ UNCHANGED <<down, rt, act, wait, pc, hit>>
BY EventFact, Pushed DEF Emit, PipesTyped

LEMMA EmittedTwo ==
  ASSUME PipesTyped, NEW p, NEW m \in Messages, NEW e \in Messages, Emit(p, << m, e >>)
  PROVE  up' \in Seq(Messages) /\ GainsTwo(up, up', m, e) /\ pi' = p /\ UNCHANGED <<down, rt, act, wait, pc, hit>>
BY PushedTwo DEF Emit, PipesTyped

\* What Pi makes of a command.
ReadAnswered  == /\ down[1].kind = "get_state" /\ UNCHANGED <<pi, hit>>
                 /\ \E x \in SUBSET {"run", "comp"} :
                      /\ "run" \in x <=> pi.at = "turn"
                      /\ "comp" \in x <=> pi.comp
                      /\ LET m == [kind |-> "state", by |-> down[1].by, seen |-> x] IN
                         m \in Messages /\ m.kind = "state" /\ m.by = down[1].by /\ m.seen = x /\ Gains(up, up', m)
ClearAnswered == /\ down[1].kind = "clear_queue" /\ UNCHANGED <<pi, hit>>
                 /\ \E m \in Messages : m.kind = "cleared" /\ m.by = down[1].by /\ Gains(up, up', m)
AbortAnswered == /\ down[1].kind = "abort" /\ pi' = Idle
                 /\ hit' = IF pi.run = "own" /\ act.on /\ down[1].by # "stop" THEN down[1].by ELSE hit
                 /\ \E m \in Messages : m.kind = "aborted" /\ m.by = down[1].by /\ Joins(up, Closing, up', m)
PromptStarts  == /\ down[1].kind = "prompt" /\ pi.run = "none" /\ ~pi.comp /\ pi' = Started(pi) /\ hit' = hit
                 /\ \E m \in Messages, e \in Messages :
                      /\ m.kind = "started" /\ m.by = "work" /\ e.kind = "start" /\ e.by = "pi" /\ GainsTwo(up, up', m, e)
PromptHeld    == /\ down[1].kind = "prompt" /\ pi.run = "none" /\ pi.comp /\ pi' = [pi EXCEPT !.held = TRUE]
                 /\ hit' = hit /\ up' = up
PromptRefused == /\ down[1].kind = "prompt" /\ pi.run # "none" /\ UNCHANGED <<pi, hit>>
                 /\ \E m \in Messages : m.kind = "refused" /\ m.by = "work" /\ Gains(up, up', m)

LEMMA Received ==
  ASSUME PipesTyped, PiTyped, Receive
  PROVE  /\ ~ended /\ down[1] \in Commands /\ down' \in Seq(Commands) /\ up' \in Seq(Messages) /\ Loses(down, down')
         /\ UNCHANGED <<rt, act, wait, pc, ended, times>>
         /\ \/ ReadAnswered \/ ClearAnswered \/ AbortAnswered
            \/ PromptStarts \/ PromptHeld \/ PromptRefused
<1> DEFINE d == down[1]
<1>1. /\ ~ended /\ down # << >> /\ down' = Tail(down) /\ UNCHANGED <<rt, act, wait, pc, ended, times>>
      /\ \/ /\ d.kind = "get_state" /\ UNCHANGED <<pi, hit>>
            /\ up' = up \o << [kind |-> "state", by |-> d.by, seen |-> {x \in {"run", "comp"} :
                               IF x = "run" THEN pi.at = "turn" ELSE pi.comp}] >>
         \/ d.kind = "clear_queue" /\ UNCHANGED <<pi, hit>> /\ up' = up \o << Answer("cleared", d.by) >>
         \/ /\ d.kind = "abort" /\ pi' = Idle /\ up' = up \o Closing \o << Answer("aborted", d.by) >>
            /\ hit' = IF pi.run = "own" /\ act.on /\ d.by # "stop" THEN d.by ELSE hit
         \/ /\ d.kind = "prompt" /\ pi.run = "none" /\ ~pi.comp /\ pi' = Started(pi) /\ hit' = hit
            /\ up' = up \o << Answer("started", d.by), Event("start") >>
         \/ /\ d.kind = "prompt" /\ pi.run = "none" /\ pi.comp /\ pi' = [pi EXCEPT !.held = TRUE] /\ hit' = hit
            /\ up' = up \o << >>
         \/ d.kind = "prompt" /\ pi.run # "none" /\ UNCHANGED <<pi, hit>> /\ up' = up \o << Answer("refused", d.by) >>
  BY DEF Receive
<1>2. d \in Commands /\ down' \in Seq(Commands) /\ Loses(down, down')
  BY <1>1, Popped DEF PipesTyped
<1>3. up \in Seq(Messages)
  BY DEF PipesTyped
<1>4. CASE /\ d.kind = "get_state" /\ UNCHANGED <<pi, hit>>
           /\ up' = up \o << [kind |-> "state", by |-> d.by, seen |-> {x \in {"run", "comp"} :
                              IF x = "run" THEN pi.at = "turn" ELSE pi.comp}] >>
  <2> DEFINE x == {e \in {"run", "comp"} : IF e = "run" THEN pi.at = "turn" ELSE pi.comp}
             m == [kind |-> "state", by |-> d.by, seen |-> x]
  <2>1. d.by \in Callers
    BY <1>2, <1>4, CommandKinds
  <2>2. x \in SUBSET {"run", "comp"} /\ ("run" \in x <=> pi.at = "turn") /\ ("comp" \in x <=> pi.comp)
    OBVIOUS
  <2> HIDE DEF x
  <2>3. m \in Messages /\ m.kind = "state" /\ m.by = d.by /\ m.seen = x
    BY <2>1, <2>2, StateFact
  <2>4. up' = up \o << m >>
    BY <1>4 DEF x
  <2> HIDE DEF m
  <2>5. up' \in Seq(Messages) /\ Gains(up, up', m)
    BY <1>3, <2>3, <2>4, Pushed
  <2>6. ReadAnswered
    BY <1>4, <2>2, <2>3, <2>5 DEF ReadAnswered, m
  <2> QED
    BY <1>1, <1>2, <2>5, <2>6
<1>5. CASE d.kind = "clear_queue" /\ UNCHANGED <<pi, hit>> /\ up' = up \o << Answer("cleared", d.by) >>
  <2> DEFINE m == Answer("cleared", d.by)
  <2>1. m \in Messages /\ m.kind = "cleared" /\ m.by = d.by
    BY <1>2, <1>5, CommandKinds, AnswerFact
  <2> HIDE DEF m
  <2>2. up' \in Seq(Messages) /\ Gains(up, up', m)
    BY <1>3, <1>5, <2>1, Pushed DEF m
  <2> QED
    BY <1>1, <1>2, <1>5, <2>1, <2>2 DEF ClearAnswered
<1>6. CASE /\ d.kind = "abort" /\ pi' = Idle /\ up' = up \o Closing \o << Answer("aborted", d.by) >>
           /\ hit' = IF pi.run = "own" /\ act.on /\ d.by # "stop" THEN d.by ELSE hit
  <2> DEFINE m == Answer("aborted", d.by)
  <2>1. m \in Messages /\ m.kind = "aborted" /\ m.by = d.by
    BY <1>2, <1>6, CommandKinds, AnswerFact
  <2>2. up' = up \o Closing \o << m >>
    BY <1>6
  <2> HIDE DEF m
  <2>3. up' \in Seq(Messages) /\ Joins(up, Closing, up', m)
    BY <1>3, <2>1, <2>2, ClosingFacts, JoinedAll
  <2> QED
    BY <1>1, <1>2, <1>6, <2>1, <2>3 DEF AbortAnswered
<1>7. CASE /\ d.kind = "prompt" /\ pi.run = "none" /\ ~pi.comp /\ pi' = Started(pi) /\ hit' = hit
           /\ up' = up \o << Answer("started", d.by), Event("start") >>
  <2> DEFINE m == Answer("started", d.by)
             e == Event("start")
  <2>1. m \in Messages /\ m.kind = "started" /\ m.by = "work" /\ e \in Messages /\ e.kind = "start" /\ e.by = "pi"
    BY <1>2, <1>7, CommandKinds, AnswerFact, EventFact
  <2>2. up' = up \o << m, e >>
    BY <1>7
  <2> HIDE DEF m, e
  <2>3. up' \in Seq(Messages) /\ GainsTwo(up, up', m, e)
    BY <1>3, <2>1, <2>2, PushedTwo
  <2> QED
    BY <1>1, <1>2, <1>7, <2>1, <2>3 DEF PromptStarts
<1>8. CASE /\ d.kind = "prompt" /\ pi.run = "none" /\ pi.comp /\ pi' = [pi EXCEPT !.held = TRUE] /\ hit' = hit
           /\ up' = up \o << >>
  <2>1. up' = up
    BY <1>3, <1>8
  <2> QED
    BY <1>1, <1>2, <1>3, <1>8, <2>1 DEF PromptHeld
<1>9. CASE d.kind = "prompt" /\ pi.run # "none" /\ UNCHANGED <<pi, hit>> /\ up' = up \o << Answer("refused", d.by) >>
  <2> DEFINE m == Answer("refused", d.by)
  <2>1. m \in Messages /\ m.kind = "refused" /\ m.by = "work"
    BY <1>2, <1>9, CommandKinds, AnswerFact
  <2> HIDE DEF m
  <2>2. up' \in Seq(Messages) /\ Gains(up, up', m)
    BY <1>3, <1>9, <2>1, Pushed DEF m
  <2> QED
    BY <1>1, <1>2, <1>9, <2>1, <2>2 DEF PromptRefused
<1> QED
  BY <1>1, <1>4, <1>5, <1>6, <1>7, <1>8, <1>9

\* What Pair makes of an answer.
StateHeard   == /\ up[1].kind = "state" /\ UNCHANGED <<rt, pc>>
                /\ wait' = [wait EXCEPT ![up[1].by].at = "answered", ![up[1].by].seen = up[1].seen]
WorkAnswered == /\ up[1].kind \in {"started", "refused"} /\ up[1].by = "work" /\ UNCHANGED <<rt, wait>>
                /\ pc' = [pc EXCEPT !.work = up[1].kind]
StopAnswered == /\ up[1].kind \in {"cleared", "aborted"} /\ up[1].by = "stop" /\ UNCHANGED <<rt, wait>>
                /\ pc' = [pc EXCEPT !.stop = GoesOnTo(pc.stop)]
RejectAnswered == /\ up[1].kind \in {"cleared", "aborted"} /\ up[1].by = "reject" /\ UNCHANGED <<pc, wait>>
                  /\ rt' = [rt EXCEPT !.rejecting = GoesOnTo(rt.rejecting)]
ReapAnswered == /\ up[1].kind = "aborted" /\ up[1].by = "reap" /\ UNCHANGED pc
                /\ rt' = [rt EXCEPT !.reap = "no"] /\ wait' = Woken(wait)

LEMMA AnswerTaken ==
  ASSUME PipesTyped, RtTyped, PcTyped, Answered
  PROVE  /\ ~ended /\ ~Resuming /\ up[1] \in Messages /\ up[1].by # "pi" /\ up' \in Seq(Messages) /\ Loses(up, up')
         /\ UNCHANGED <<pi, down, act, ended, times, hit>>
         /\ StateHeard \/ WorkAnswered \/ StopAnswered \/ RejectAnswered \/ ReapAnswered
<1>1. /\ ~ended /\ ~Resuming /\ up # << >> /\ up[1].by # "pi" /\ up' = Tail(up)
      /\ UNCHANGED <<pi, down, act, ended, times, hit>>
  BY DEF Answered
<1>2. up[1] \in Messages /\ up' \in Seq(Messages) /\ Loses(up, up')
  BY <1>1, Popped DEF PipesTyped
<1>3. /\ up[1].kind \in {"state", "started", "refused", "cleared", "aborted"}
      /\ up[1].kind = "state" => up[1].by \in Callers
      /\ up[1].kind \in {"started", "refused"} => up[1].by = "work"
      /\ up[1].kind = "cleared" => up[1].by \in {"stop", "reject"}
      /\ up[1].kind = "aborted" => up[1].by \in {"stop", "reject", "reap"}
  BY <1>1, <1>2, MessageKinds
<1>4. StateHeard \/ WorkAnswered \/ StopAnswered \/ RejectAnswered \/ ReapAnswered
  BY <1>1, <1>3 DEF Answered, StateHeard, WorkAnswered, StopAnswered, RejectAnswered, ReapAnswered, Callers,
     PcTyped
<1> QED
  BY <1>1, <1>2, <1>4

LEMMA CountFacts ==
  ASSUME CountTyped, NEW k \in {"runs", "stray", "turns", "retries", "compact", "stops", "crowded", "early", "dropped"},
         NEW max, Count(k, max)
  PROVE  /\ times' \in Counts
         /\ k # "early" => times'["early"] = times["early"]
         /\ k # "dropped" => times'["dropped"] = times["dropped"]
         /\ k # "crowded" => times'["crowded"] = times["crowded"]
         /\ k = "crowded" => times'["crowded"] > 0
BY DEF CountTyped, Counts, Count

LEMMA ClosingTells ==
  /\ \A k \in {"start", "retry", "cstart", "started", "state"} : ~Tells(Closing, Say({k}))
  /\ ~Tells(Closing, Say({"start", "retry"})) /\ \A x : ~Tells(Closing, Seeing(x))
  /\ \A w \in {"stop", "reject", "reap"} :
       /\ ~Tells(Closing, Of(w)) /\ ~Tells(Closing, Asking(w)) /\ ~Tells(Closing, ClearsBy(w))
       /\ ~Tells(Closing, AbortsBy(w))
  /\ ~Tells(Closing, Asking("work"))
  /\ Tells(Closing, Of("work")) <=> pi.held
  /\ Tells(Closing, Prompting) <=> pi.held
  /\ Tells(Closing, Say({"settled"})) <=> pi.run # "none"
  /\ Tells(Closing, Say({"cend"})) <=> pi.comp
  /\ Tells(Closing, Say({"settled", "cend"})) <=> pi.run # "none" \/ pi.comp
<1> DEFINE a == Event("end")
           b == Event("retried")
           c == Event("cend")
           d == Event("settled")
           e == Answer("refused", "work")
<1>1. /\ a \in Messages /\ b \in Messages /\ c \in Messages /\ d \in Messages /\ e \in Messages
      /\ a.kind = "end" /\ b.kind = "retried" /\ c.kind = "cend" /\ d.kind = "settled" /\ e.kind = "refused"
      /\ a.by = "pi" /\ b.by = "pi" /\ c.by = "pi" /\ d.by = "pi" /\ e.by = "work"
  BY EventFact, AnswerFact
<1>2. \A A : Tells(Closing, A) <=> \/ pi.at = "turn" /\ a \in A
                                   \/ pi.at = "retry" /\ b \in A
                                   \/ pi.comp /\ c \in A
                                   \/ pi.run # "none" /\ d \in A
                                   \/ pi.held /\ e \in A
  BY ClosingFacts
<1> HIDE DEF a, b, c, d, e
<1>3. Known(a) /\ Known(b) /\ Known(c) /\ Known(d) /\ Known(e)
  BY <1>1, MessageKinds
<1>4. ASSUME NEW k \in {"start", "retry", "cstart", "started", "state"} PROVE ~Tells(Closing, Say({k}))
  BY <1>1, <1>2, <1>3 DEF Known, KnownSay
<1>5. /\ ~Tells(Closing, Say({"start", "retry"}))
      /\ Tells(Closing, Say({"settled"})) <=> pi.run # "none"
      /\ Tells(Closing, Say({"cend"})) <=> pi.comp
      /\ Tells(Closing, Say({"settled", "cend"})) <=> pi.run # "none" \/ pi.comp
  BY <1>1, <1>2, <1>3 DEF Known, KnownSay
<1>6. ASSUME NEW x PROVE ~Tells(Closing, Seeing(x))
  BY <1>1, <1>2, <1>3 DEF Known, KnownSeen
<1>7. ASSUME NEW w \in {"stop", "reject", "reap"}
      PROVE  ~Tells(Closing, Of(w)) /\ ~Tells(Closing, Asking(w)) /\ ~Tells(Closing, ClearsBy(w)) /\ ~Tells(Closing, AbortsBy(w))
  BY <1>1, <1>2, <1>3 DEF Known, KnownOf, KnownFor
<1>8. ~Tells(Closing, Asking("work")) /\ (Tells(Closing, Of("work")) <=> pi.held) /\ (Tells(Closing, Prompting) <=> pi.held)
  BY <1>1, <1>2, <1>3 DEF Known, KnownOf, KnownFor
<1> QED
  BY <1>4, <1>5, <1>6, <1>7, <1>8

\* Where a run has started and nothing is on its way to the stop, an event comes before whatever will be.
LEMMA EventFirst ==
  ASSUME PipesTyped, Open(up, Say({"start"}), Say({"settled"})), ~Tells(up, Of("stop"))
  PROVE  First(up, Events, Of("stop"))
<1>1. PICK i \in 1..Len(up) : up[i] \in Say({"start"})
  BY DEF Open
<1>2. up[i] \in Messages
  BY DEF PipesTyped
<1>3. up[i] \in Events
  BY <1>1, <1>2 DEF Say, Events, Messages, States, Replies, Cleareds, Aborteds
<1>4. \A j \in 1..Len(up) : up[j] \notin Of("stop")
  BY DEF Tells
<1> QED
  BY <1>3, <1>4 DEF First


LEMMA OpenTells ==
  \A s, A, Z : Open(s, A, Z) => Tells(s, A)
BY DEF Open, Tells

\* An answer that a run started is an answer to the activation's prompt.
LEMMA StartedTells ==
  ASSUME NEW s \in Seq(Messages), Tells(s, Say({"started"}))
  PROVE  Tells(s, Of("work")) /\ Tells(s, Prompting)
<1>1. PICK i \in 1..Len(s) : s[i] \in Say({"started"})
  BY DEF Tells
<1>2. s[i] \in Messages /\ s[i].kind = "started"
  BY <1>1 DEF Say
<1>3. Known(s[i]) /\ s[i].by = "work"
  BY <1>2, MessageKinds
<1>4. s[i] \in Of("work") /\ s[i] \in Prompting
  BY <1>2, <1>3 DEF Known, KnownOf, KnownFor
<1> QED
  BY <1>4 DEF Tells

\* What is said by, or to, a function is one of the things it asks for.
LEMMA OfKinds ==
  ASSUME NEW S, NEW s \in Seq(S), S \in {Commands, Messages}
  PROVE  /\ Tells(s, Of("work")) => Tells(s, Asking("work")) \/ Tells(s, Prompting)
         /\ Tells(s, Of("stop")) =>
              Tells(s, Asking("stop")) \/ Tells(s, ClearsBy("stop")) \/ Tells(s, AbortsBy("stop"))
         /\ Tells(s, Of("reject")) => Tells(s, ClearsBy("reject")) \/ Tells(s, AbortsBy("reject"))
<1>1. ASSUME NEW i \in 1..Len(s)
      PROVE  /\ s[i] \in Of("work") => s[i] \in Asking("work") \/ s[i] \in Prompting
             /\ s[i] \in Of("stop") =>
                  s[i] \in Asking("stop") \/ s[i] \in ClearsBy("stop") \/ s[i] \in AbortsBy("stop")
             /\ s[i] \in Of("reject") => s[i] \in ClearsBy("reject") \/ s[i] \in AbortsBy("reject")
  <2> DEFINE m == s[i]
  <2>1. m \in Commands \/ m \in Messages
    OBVIOUS
  <2> HIDE DEF m
  <2>2. Known(m) /\ (m.by \in {"work", "stop", "reject"} => m.by # "pi")
    BY <2>1, CommandKinds, MessageKinds
  <2>3. /\ m.by = "work" => m.kind \in {"get_state", "state", "prompt", "started", "refused"}
        /\ m.by = "stop" => m.kind \in {"get_state", "state", "clear_queue", "cleared", "abort", "aborted"}
        /\ m.by = "reject" => m.kind \in {"clear_queue", "cleared", "abort", "aborted"}
    BY <2>1, CommandKinds, MessageKinds DEF Callers
  <2> QED
    BY <2>2, <2>3 DEF Known, KnownOf, KnownFor, m
<1> QED
  BY <1>1 DEF Tells

LEMMA NobodyAsks ==
  ASSUME PipesTyped
  PROVE  /\ OnWay(Of("work")) => OnWay(Asking("work")) \/ OnWay(Prompting)
         /\ OnWay(Of("stop")) => OnWay(Asking("stop")) \/ OnWay(ClearsBy("stop")) \/ OnWay(AbortsBy("stop"))
         /\ OnWay(Of("reject")) => OnWay(ClearsBy("reject")) \/ OnWay(AbortsBy("reject"))
BY OfKinds DEF OnWay, PipesTyped

LEMMA NothingBehind ==
  \A s, A, Z : ~Tells(s, Z) => Before(s, A, Z)
BY DEF Tells, Before

\* The news that wakes a sleeper.
LEMMA NewsTells ==
  ASSUME PipesTyped, Tells(up, Say({"settled"})) \/ Tells(up, Say({"cend"}))
  PROVE  Tells(up, Say({"settled", "cend"}))
<1>1. PICK i \in 1..Len(up) : up[i] \in Say({"settled"}) \/ up[i] \in Say({"cend"})
  BY DEF Tells
<1>2. up[i] \in Say({"settled", "cend"})
  BY <1>1 DEF Say
<1> QED
  BY <1>2 DEF Tells

\* What asks for something is one of what its function says.
KindsIn(s) == /\ \A w : Tells(s, Asking(w)) \/ Tells(s, ClearsBy(w)) \/ Tells(s, AbortsBy(w)) => Tells(s, Of(w))
              /\ Tells(s, Prompting) => Tells(s, Of("work"))
LEMMA KindsOf ==
  ASSUME NEW S, NEW s \in Seq(S), S \in {Commands, Messages}
  PROVE  KindsIn(s)
<1>1. ASSUME NEW w, Tells(s, Asking(w)) \/ Tells(s, ClearsBy(w)) \/ Tells(s, AbortsBy(w)) PROVE Tells(s, Of(w))
  <2>1. PICK i \in 1..Len(s) : s[i] \in Asking(w) \cup ClearsBy(w) \cup AbortsBy(w)
    BY <1>1 DEF Tells
  <2>2. s[i] \in Of(w)
    BY <2>1 DEF Asking, ClearsBy, AbortsBy, Of
  <2> QED
    BY <2>2 DEF Tells
<1>2. ASSUME Tells(s, Prompting) PROVE Tells(s, Of("work"))
  <2>1. PICK i \in 1..Len(s) : s[i] \in Prompting
    BY <1>2 DEF Tells
  <2> DEFINE m == s[i]
  <2>2. (m \in Commands \/ m \in Messages) /\ m \in Prompting
    BY <2>1
  <2> HIDE DEF m
  <2>3. Known(m)
    BY <2>2, CommandKinds, MessageKinds
  <2>4. m.kind \in {"prompt", "started", "refused"}
    BY <2>2, <2>3 DEF Known, KnownFor
  <2>5. m.by = "work"
    BY <2>2, <2>4, CommandKinds, MessageKinds
  <2>6. m \in Of("work")
    BY <2>3, <2>5 DEF Known, KnownOf
  <2> QED
    BY <2>6 DEF m, Tells
<1> QED
  BY <1>1, <1>2 DEF KindsIn

\* A run of another extension starts.
LEMMA StrayRunStep ==
  ASSUME SessionTyped, Sound, StrayRun
  PROVE  SessionTyped' /\ Sound'
<1>1. /\ up' \in Seq(Messages) /\ Gains(up, up', Event("start")) /\ Event("start") \in Messages
      /\ Event("start").kind = "start" /\ Event("start").by = "pi"
      /\ pi' = [pi EXCEPT !.run = "stray", !.at = "turn"] /\ UNCHANGED <<down, rt, act, wait, pc, hit, ended>>
      /\ ~ended /\ pi.run = "none" /\ ~pi.comp /\ ~pi.held
  BY Emitted DEF StrayRun, SessionTyped
<1>2. Known(Event("start"))
  BY <1>1, MessageKinds
<1>3. pi'.run = "stray" /\ pi'.at = "turn" /\ pi'.comp = pi.comp /\ pi'.held = pi.held
  BY <1>1 DEF SessionTyped, PiTyped, Real
<1>4. /\ times' \in Counts
      /\ times'["early"] = times["early"] /\ times'["dropped"] = times["dropped"]
      /\ times'["crowded"] = times["crowded"]
  BY CountFacts DEF StrayRun, SessionTyped
<1>5. SessionTyped'
  <2>1. PiTyped'
    BY <1>1, <1>2, <1>3, <1>4 DEF SessionTyped, PiTyped, Real
  <2>2. PipesTyped'
    BY <1>1, <1>2, <1>3, <1>4 DEF SessionTyped, PipesTyped
  <2>3. CountTyped'
    BY <1>1, <1>2, <1>3, <1>4 DEF SessionTyped, CountTyped
  <2>4. RtTyped' /\ ActTyped' /\ WaitTyped' /\ PcTyped'
    BY <1>1, <1>2, <1>3, <1>4 DEF SessionTyped, RtTyped, ActTyped, WaitTyped, PcTyped
  <2> QED
    BY <2>1, <2>2, <2>3, <2>4 DEF SessionTyped
<1>6. LineInv'
  BY <1>1, <1>2, <1>3, <1>4 DEF Sound, LineInv, OnWay, Alone, Callers, Known, Gains, KnownOf, KnownFor,
     GainsTells, GainsOnce, SessionTyped, PiTyped, Real, PipesTyped, RtTyped, Believed, ActTyped, WaitTyped,
     Waits, PcTyped, CountTyped
<1>7. CallersInv'
  BY <1>1, <1>2, <1>3, <1>4 DEF Sound, CallersInv, Callers, SessionTyped, PiTyped, Real, PipesTyped, RtTyped,
     Believed, ActTyped, WaitTyped, Waits, PcTyped, CountTyped
<1>8. ToldInv'
  BY <1>1, <1>2, <1>3, <1>4 DEF Sound, ToldInv, Unanswered, Known, Gains, KnownSay, GainsTells, GainsOpen,
     SessionTyped, PiTyped, Real, PipesTyped, RtTyped, Believed, ActTyped, WaitTyped, Waits, PcTyped, CountTyped
<1>9. AskedInv'
  BY <1>1, <1>2, <1>3, <1>4 DEF Sound, AskedInv, Reason, Callers, Known, Gains, KnownSay, KnownSeen, GainsTells,
     GainsOpen, SessionTyped, PiTyped, Real, PipesTyped, RtTyped, Believed, ActTyped, WaitTyped, Waits, PcTyped,
     CountTyped
<1>10. StoppedInv'
  BY <1>1, <1>2, <1>3, <1>4 DEF Sound, StoppedInv, Callers, Known, Gains, KnownOf, KnownSay, GainsTells,
     GainsOpen, GainsFirst, SessionTyped, PiTyped, Real, PipesTyped, RtTyped, Believed, ActTyped, WaitTyped,
     Waits, PcTyped, CountTyped
<1>11. OwnInv'
  BY <1>1, <1>2, <1>3, <1>4 DEF Sound, OwnInv, Known, Gains, KnownSay, GainsTells, GainsOpen, SessionTyped,
     PiTyped, Real, PipesTyped, RtTyped, Believed, ActTyped, WaitTyped, Waits, PcTyped, CountTyped
<1>12. RejectsInv'
  BY <1>1, <1>2, <1>3, <1>4 DEF Sound, RejectsInv, AheadOf, Callers, Known, Gains, KnownOf, GainsTells,
     GainsBefore, SessionTyped, PiTyped, Real, PipesTyped, RtTyped, Believed, ActTyped, WaitTyped, Waits,
     PcTyped, CountTyped
<1>13. ReapsInv'
  BY <1>1, <1>2, <1>3, <1>4 DEF Sound, ReapsInv, AheadOf, OnWay, Callers, Known, Gains, KnownOf, GainsTells,
     GainsBefore, SessionTyped, PiTyped, Real, PipesTyped, RtTyped, Believed, ActTyped, WaitTyped, Waits,
     PcTyped, CountTyped
<1> QED
  BY <1>5, <1>6, <1>7, <1>8, <1>9, <1>10, <1>11, <1>12, <1>13 DEF Sound

\* One more turn.
LEMMA TurnStep ==
  ASSUME SessionTyped, Sound, Turn
  PROVE  SessionTyped' /\ Sound'
<1>1. /\ up' \in Seq(Messages) /\ Gains(up, up', Event("turn")) /\ Event("turn") \in Messages
      /\ Event("turn").kind = "turn" /\ Event("turn").by = "pi"
      /\ pi' = pi /\ UNCHANGED <<down, rt, act, wait, pc, hit, ended>>
      /\ ~ended /\ pi.at = "turn"
  BY Emitted DEF Turn, SessionTyped
<1>2. Known(Event("turn"))
  BY <1>1, MessageKinds
<1>3. pi'.run = pi.run /\ pi'.at = pi.at /\ pi'.comp = pi.comp /\ pi'.held = pi.held
  BY <1>1 DEF SessionTyped, PiTyped, Real
<1>4. /\ times' \in Counts
      /\ times'["early"] = times["early"] /\ times'["dropped"] = times["dropped"]
      /\ times'["crowded"] = times["crowded"]
  BY CountFacts DEF Turn, SessionTyped
<1>5. SessionTyped'
  <2>1. PiTyped'
    BY <1>1, <1>2, <1>3, <1>4 DEF SessionTyped, PiTyped, Real
  <2>2. PipesTyped'
    BY <1>1, <1>2, <1>3, <1>4 DEF SessionTyped, PipesTyped
  <2>3. CountTyped'
    BY <1>1, <1>2, <1>3, <1>4 DEF SessionTyped, CountTyped
  <2>4. RtTyped' /\ ActTyped' /\ WaitTyped' /\ PcTyped'
    BY <1>1, <1>2, <1>3, <1>4 DEF SessionTyped, RtTyped, ActTyped, WaitTyped, PcTyped
  <2> QED
    BY <2>1, <2>2, <2>3, <2>4 DEF SessionTyped
<1>6. LineInv'
  BY <1>1, <1>2, <1>3, <1>4 DEF Sound, LineInv, OnWay, Alone, Callers, Known, Gains, KnownOf, KnownFor,
     GainsTells, GainsOnce, SessionTyped, PiTyped, Real, PipesTyped, RtTyped, Believed, ActTyped, WaitTyped,
     Waits, PcTyped, CountTyped
<1>7. CallersInv'
  BY <1>1, <1>2, <1>3, <1>4 DEF Sound, CallersInv, Callers, SessionTyped, PiTyped, Real, PipesTyped, RtTyped,
     Believed, ActTyped, WaitTyped, Waits, PcTyped, CountTyped
<1>8. ToldInv'
  BY <1>1, <1>2, <1>3, <1>4 DEF Sound, ToldInv, Unanswered, Known, Gains, KnownSay, GainsTells, GainsOpen,
     SessionTyped, PiTyped, Real, PipesTyped, RtTyped, Believed, ActTyped, WaitTyped, Waits, PcTyped, CountTyped
<1>9. AskedInv'
  BY <1>1, <1>2, <1>3, <1>4 DEF Sound, AskedInv, Reason, Callers, Known, Gains, KnownSay, KnownSeen, GainsTells,
     GainsOpen, SessionTyped, PiTyped, Real, PipesTyped, RtTyped, Believed, ActTyped, WaitTyped, Waits, PcTyped,
     CountTyped
<1>10. StoppedInv'
  BY <1>1, <1>2, <1>3, <1>4 DEF Sound, StoppedInv, Callers, Known, Gains, KnownOf, KnownSay, GainsTells,
     GainsOpen, GainsFirst, SessionTyped, PiTyped, Real, PipesTyped, RtTyped, Believed, ActTyped, WaitTyped,
     Waits, PcTyped, CountTyped
<1>11. OwnInv'
  BY <1>1, <1>2, <1>3, <1>4 DEF Sound, OwnInv, Known, Gains, KnownSay, GainsTells, GainsOpen, SessionTyped,
     PiTyped, Real, PipesTyped, RtTyped, Believed, ActTyped, WaitTyped, Waits, PcTyped, CountTyped
<1>12. RejectsInv'
  BY <1>1, <1>2, <1>3, <1>4 DEF Sound, RejectsInv, AheadOf, Callers, Known, Gains, KnownOf, GainsTells,
     GainsBefore, SessionTyped, PiTyped, Real, PipesTyped, RtTyped, Believed, ActTyped, WaitTyped, Waits,
     PcTyped, CountTyped
<1>13. ReapsInv'
  BY <1>1, <1>2, <1>3, <1>4 DEF Sound, ReapsInv, AheadOf, OnWay, Callers, Known, Gains, KnownOf, GainsTells,
     GainsBefore, SessionTyped, PiTyped, Real, PipesTyped, RtTyped, Believed, ActTyped, WaitTyped, Waits,
     PcTyped, CountTyped
<1> QED
  BY <1>5, <1>6, <1>7, <1>8, <1>9, <1>10, <1>11, <1>12, <1>13 DEF Sound

\* The agent ends its turn.
LEMMA AgentEndStep ==
  ASSUME SessionTyped, Sound, AgentEnd
  PROVE  SessionTyped' /\ Sound'
<1>1. /\ up' \in Seq(Messages) /\ Gains(up, up', Event("end")) /\ Event("end") \in Messages
      /\ Event("end").kind = "end" /\ Event("end").by = "pi"
      /\ pi' = [pi EXCEPT !.at = "over"] /\ UNCHANGED <<down, rt, act, wait, pc, hit, ended, times>>
      /\ ~ended /\ pi.at = "turn"
  BY Emitted DEF AgentEnd, SessionTyped
<1>2. Known(Event("end"))
  BY <1>1, MessageKinds
<1>3. pi'.run = pi.run /\ pi'.at = "over" /\ pi'.comp = pi.comp /\ pi'.held = pi.held
  BY <1>1 DEF SessionTyped, PiTyped, Real
<1>4. SessionTyped'
  <2>1. PiTyped'
    BY <1>1, <1>2, <1>3 DEF SessionTyped, PiTyped, Real
  <2>2. PipesTyped'
    BY <1>1, <1>2, <1>3 DEF SessionTyped, PipesTyped
  <2>3. CountTyped'
    BY <1>1, <1>2, <1>3 DEF SessionTyped, CountTyped
  <2>4. RtTyped' /\ ActTyped' /\ WaitTyped' /\ PcTyped'
    BY <1>1, <1>2, <1>3 DEF SessionTyped, RtTyped, ActTyped, WaitTyped, PcTyped
  <2> QED
    BY <2>1, <2>2, <2>3, <2>4 DEF SessionTyped
<1>5. LineInv'
  BY <1>1, <1>2, <1>3 DEF Sound, LineInv, OnWay, Alone, Callers, Known, Gains, KnownOf, KnownFor, GainsTells,
     GainsOnce, SessionTyped, PiTyped, Real, PipesTyped, RtTyped, Believed, ActTyped, WaitTyped, Waits, PcTyped,
     CountTyped
<1>6. CallersInv'
  BY <1>1, <1>2, <1>3 DEF Sound, CallersInv, Callers, SessionTyped, PiTyped, Real, PipesTyped, RtTyped,
     Believed, ActTyped, WaitTyped, Waits, PcTyped, CountTyped
<1>7. ToldInv'
  BY <1>1, <1>2, <1>3 DEF Sound, ToldInv, Unanswered, Known, Gains, KnownSay, GainsTells, GainsOpen,
     SessionTyped, PiTyped, Real, PipesTyped, RtTyped, Believed, ActTyped, WaitTyped, Waits, PcTyped, CountTyped
<1>8. AskedInv'
  BY <1>1, <1>2, <1>3 DEF Sound, AskedInv, Reason, Callers, Known, Gains, KnownSay, KnownSeen, GainsTells,
     GainsOpen, SessionTyped, PiTyped, Real, PipesTyped, RtTyped, Believed, ActTyped, WaitTyped, Waits, PcTyped,
     CountTyped
<1>9. StoppedInv'
  BY <1>1, <1>2, <1>3 DEF Sound, StoppedInv, Callers, Known, Gains, KnownOf, KnownSay, GainsTells, GainsOpen,
     GainsFirst, SessionTyped, PiTyped, Real, PipesTyped, RtTyped, Believed, ActTyped, WaitTyped, Waits,
     PcTyped, CountTyped
<1>10. OwnInv'
  BY <1>1, <1>2, <1>3 DEF Sound, OwnInv, Known, Gains, KnownSay, GainsTells, GainsOpen, SessionTyped, PiTyped,
     Real, PipesTyped, RtTyped, Believed, ActTyped, WaitTyped, Waits, PcTyped, CountTyped
<1>11. RejectsInv'
  BY <1>1, <1>2, <1>3 DEF Sound, RejectsInv, AheadOf, Callers, Known, Gains, KnownOf, GainsTells, GainsBefore,
     SessionTyped, PiTyped, Real, PipesTyped, RtTyped, Believed, ActTyped, WaitTyped, Waits, PcTyped, CountTyped
<1>12. ReapsInv'
  BY <1>1, <1>2, <1>3 DEF Sound, ReapsInv, AheadOf, OnWay, Callers, Known, Gains, KnownOf, GainsTells,
     GainsBefore, SessionTyped, PiTyped, Real, PipesTyped, RtTyped, Believed, ActTyped, WaitTyped, Waits,
     PcTyped, CountTyped
<1> QED
  BY <1>4, <1>5, <1>6, <1>7, <1>8, <1>9, <1>10, <1>11, <1>12 DEF Sound

\* A retry begins.
LEMMA RetryStartStep ==
  ASSUME SessionTyped, Sound, RetryStart
  PROVE  SessionTyped' /\ Sound'
<1>1. /\ up' \in Seq(Messages) /\ Gains(up, up', Event("retry")) /\ Event("retry") \in Messages
      /\ Event("retry").kind = "retry" /\ Event("retry").by = "pi"
      /\ pi' = [pi EXCEPT !.at = "retry"] /\ UNCHANGED <<down, rt, act, wait, pc, hit, ended>>
      /\ ~ended /\ pi.at = "over" /\ ~pi.comp
  BY Emitted DEF RetryStart, SessionTyped
<1>2. Known(Event("retry"))
  BY <1>1, MessageKinds
<1>3. pi'.run = pi.run /\ pi'.at = "retry" /\ pi'.comp = pi.comp /\ pi'.held = pi.held
  BY <1>1 DEF SessionTyped, PiTyped, Real
<1>4. /\ times' \in Counts
      /\ times'["early"] = times["early"] /\ times'["dropped"] = times["dropped"]
      /\ times'["crowded"] = times["crowded"]
  BY CountFacts DEF RetryStart, SessionTyped
<1>5. SessionTyped'
  <2>1. PiTyped'
    BY <1>1, <1>2, <1>3, <1>4 DEF SessionTyped, PiTyped, Real
  <2>2. PipesTyped'
    BY <1>1, <1>2, <1>3, <1>4 DEF SessionTyped, PipesTyped
  <2>3. CountTyped'
    BY <1>1, <1>2, <1>3, <1>4 DEF SessionTyped, CountTyped
  <2>4. RtTyped' /\ ActTyped' /\ WaitTyped' /\ PcTyped'
    BY <1>1, <1>2, <1>3, <1>4 DEF SessionTyped, RtTyped, ActTyped, WaitTyped, PcTyped
  <2> QED
    BY <2>1, <2>2, <2>3, <2>4 DEF SessionTyped
<1>6. LineInv'
  BY <1>1, <1>2, <1>3, <1>4 DEF Sound, LineInv, OnWay, Alone, Callers, Known, Gains, KnownOf, KnownFor,
     GainsTells, GainsOnce, SessionTyped, PiTyped, Real, PipesTyped, RtTyped, Believed, ActTyped, WaitTyped,
     Waits, PcTyped, CountTyped
<1>7. CallersInv'
  BY <1>1, <1>2, <1>3, <1>4 DEF Sound, CallersInv, Callers, SessionTyped, PiTyped, Real, PipesTyped, RtTyped,
     Believed, ActTyped, WaitTyped, Waits, PcTyped, CountTyped
<1>8. ToldInv'
  BY <1>1, <1>2, <1>3, <1>4 DEF Sound, ToldInv, Unanswered, Known, Gains, KnownSay, GainsTells, GainsOpen,
     SessionTyped, PiTyped, Real, PipesTyped, RtTyped, Believed, ActTyped, WaitTyped, Waits, PcTyped, CountTyped
<1>9. AskedInv'
  BY <1>1, <1>2, <1>3, <1>4 DEF Sound, AskedInv, Reason, Callers, Known, Gains, KnownSay, KnownSeen, GainsTells,
     GainsOpen, SessionTyped, PiTyped, Real, PipesTyped, RtTyped, Believed, ActTyped, WaitTyped, Waits, PcTyped,
     CountTyped
<1>10. StoppedInv'
  BY <1>1, <1>2, <1>3, <1>4 DEF Sound, StoppedInv, Callers, Known, Gains, KnownOf, KnownSay, GainsTells,
     GainsOpen, GainsFirst, SessionTyped, PiTyped, Real, PipesTyped, RtTyped, Believed, ActTyped, WaitTyped,
     Waits, PcTyped, CountTyped
<1>11. OwnInv'
  BY <1>1, <1>2, <1>3, <1>4 DEF Sound, OwnInv, Known, Gains, KnownSay, GainsTells, GainsOpen, SessionTyped,
     PiTyped, Real, PipesTyped, RtTyped, Believed, ActTyped, WaitTyped, Waits, PcTyped, CountTyped
<1>12. RejectsInv'
  BY <1>1, <1>2, <1>3, <1>4 DEF Sound, RejectsInv, AheadOf, Callers, Known, Gains, KnownOf, GainsTells,
     GainsBefore, SessionTyped, PiTyped, Real, PipesTyped, RtTyped, Believed, ActTyped, WaitTyped, Waits,
     PcTyped, CountTyped
<1>13. ReapsInv'
  BY <1>1, <1>2, <1>3, <1>4 DEF Sound, ReapsInv, AheadOf, OnWay, Callers, Known, Gains, KnownOf, GainsTells,
     GainsBefore, SessionTyped, PiTyped, Real, PipesTyped, RtTyped, Believed, ActTyped, WaitTyped, Waits,
     PcTyped, CountTyped
<1> QED
  BY <1>5, <1>6, <1>7, <1>8, <1>9, <1>10, <1>11, <1>12, <1>13 DEF Sound

\* The run settles.
LEMMA SettleStep ==
  ASSUME SessionTyped, Sound, Settle
  PROVE  SessionTyped' /\ Sound'
<1>1. /\ up' \in Seq(Messages) /\ Gains(up, up', Event("settled")) /\ Event("settled") \in Messages
      /\ Event("settled").kind = "settled" /\ Event("settled").by = "pi"
      /\ pi' = [pi EXCEPT !.run = "none", !.at = "idle"] /\ UNCHANGED <<down, rt, act, wait, pc, hit, ended, times>>
      /\ ~ended /\ pi.at = "over" /\ ~pi.comp
  BY Emitted DEF Settle, SessionTyped
<1>2. Known(Event("settled"))
  BY <1>1, MessageKinds
<1>3. pi'.run = "none" /\ pi'.at = "idle" /\ pi'.comp = pi.comp /\ pi'.held = pi.held
  BY <1>1 DEF SessionTyped, PiTyped, Real
<1>4. SessionTyped'
  <2>1. PiTyped'
    BY <1>1, <1>2, <1>3 DEF SessionTyped, PiTyped, Real
  <2>2. PipesTyped'
    BY <1>1, <1>2, <1>3 DEF SessionTyped, PipesTyped
  <2>3. CountTyped'
    BY <1>1, <1>2, <1>3 DEF SessionTyped, CountTyped
  <2>4. RtTyped' /\ ActTyped' /\ WaitTyped' /\ PcTyped'
    BY <1>1, <1>2, <1>3 DEF SessionTyped, RtTyped, ActTyped, WaitTyped, PcTyped
  <2> QED
    BY <2>1, <2>2, <2>3, <2>4 DEF SessionTyped
<1>5. LineInv'
  BY <1>1, <1>2, <1>3 DEF Sound, LineInv, OnWay, Alone, Callers, Known, Gains, KnownOf, KnownFor, GainsTells,
     GainsOnce, SessionTyped, PiTyped, Real, PipesTyped, RtTyped, Believed, ActTyped, WaitTyped, Waits, PcTyped,
     CountTyped
<1>6. CallersInv'
  BY <1>1, <1>2, <1>3 DEF Sound, CallersInv, Callers, SessionTyped, PiTyped, Real, PipesTyped, RtTyped,
     Believed, ActTyped, WaitTyped, Waits, PcTyped, CountTyped
<1>7. ToldInv'
  <2>1. /\ Tells(up', Say({"settled"}))
        /\ Tells(up', Say({"cend"})) <=> Tells(up, Say({"cend"}))
        /\ Tells(up', Say({"started"})) <=> Tells(up, Say({"started"}))
        /\ ~Open(up', Say({"start"}), Say({"settled"}))
        /\ ~Open(up', Say({"start", "retry"}), Say({"settled"}))
        /\ Open(up', Say({"cstart"}), Say({"cend"})) <=> Open(up, Say({"cstart"}), Say({"cend"}))
    BY <1>1, <1>2, <1>3 DEF Known, KnownSay, Gains, GainsTells, GainsOpen, Callers
  <2> QED
    BY <1>1, <1>2, <1>3, <2>1 DEF Sound, ToldInv, Unanswered, SessionTyped, PiTyped, Real, PipesTyped,
       RtTyped, Believed, ActTyped, WaitTyped, Waits, PcTyped, CountTyped
<1>8. AskedInv'
  BY <1>1, <1>2, <1>3 DEF Sound, AskedInv, Reason, Callers, Known, Gains, KnownSay, KnownSeen, GainsTells,
     GainsOpen, SessionTyped, PiTyped, Real, PipesTyped, RtTyped, Believed, ActTyped, WaitTyped, Waits, PcTyped,
     CountTyped
<1>9. StoppedInv'
  BY <1>1, <1>2, <1>3 DEF Sound, StoppedInv, Callers, Known, Gains, KnownOf, KnownSay, GainsTells, GainsOpen,
     GainsFirst, SessionTyped, PiTyped, Real, PipesTyped, RtTyped, Believed, ActTyped, WaitTyped, Waits,
     PcTyped, CountTyped
<1>10. OwnInv'
  BY <1>1, <1>2, <1>3 DEF Sound, OwnInv, Known, Gains, KnownSay, GainsTells, GainsOpen, SessionTyped, PiTyped,
     Real, PipesTyped, RtTyped, Believed, ActTyped, WaitTyped, Waits, PcTyped, CountTyped
<1>11. RejectsInv'
  BY <1>1, <1>2, <1>3 DEF Sound, RejectsInv, AheadOf, Callers, Known, Gains, KnownOf, GainsTells, GainsBefore,
     SessionTyped, PiTyped, Real, PipesTyped, RtTyped, Believed, ActTyped, WaitTyped, Waits, PcTyped, CountTyped
<1>12. ReapsInv'
  BY <1>1, <1>2, <1>3 DEF Sound, ReapsInv, AheadOf, OnWay, Callers, Known, Gains, KnownOf, GainsTells,
     GainsBefore, SessionTyped, PiTyped, Real, PipesTyped, RtTyped, Believed, ActTyped, WaitTyped, Waits,
     PcTyped, CountTyped
<1> QED
  BY <1>4, <1>5, <1>6, <1>7, <1>8, <1>9, <1>10, <1>11, <1>12 DEF Sound

\* A compaction starts.
LEMMA CompactionStartStep ==
  ASSUME SessionTyped, Sound, CompactionStart
  PROVE  SessionTyped' /\ Sound'
<1>1. /\ up' \in Seq(Messages) /\ Gains(up, up', Event("cstart")) /\ Event("cstart") \in Messages
      /\ Event("cstart").kind = "cstart" /\ Event("cstart").by = "pi"
      /\ pi' = [pi EXCEPT !.comp = TRUE] /\ UNCHANGED <<down, rt, act, wait, pc, hit, ended>>
      /\ ~ended /\ pi.at \in {"over", "idle"} /\ ~pi.comp
  BY Emitted DEF CompactionStart, SessionTyped
<1>2. Known(Event("cstart"))
  BY <1>1, MessageKinds
<1>3. pi'.run = pi.run /\ pi'.at = pi.at /\ pi'.comp /\ pi'.held = pi.held
  BY <1>1 DEF SessionTyped, PiTyped, Real
<1>4. /\ times' \in Counts
      /\ times'["early"] = times["early"] /\ times'["dropped"] = times["dropped"]
      /\ times'["crowded"] = times["crowded"]
  BY CountFacts DEF CompactionStart, SessionTyped
<1>5. SessionTyped'
  <2>1. PiTyped'
    BY <1>1, <1>2, <1>3, <1>4 DEF SessionTyped, PiTyped, Real
  <2>2. PipesTyped'
    BY <1>1, <1>2, <1>3, <1>4 DEF SessionTyped, PipesTyped
  <2>3. CountTyped'
    BY <1>1, <1>2, <1>3, <1>4 DEF SessionTyped, CountTyped
  <2>4. RtTyped' /\ ActTyped' /\ WaitTyped' /\ PcTyped'
    BY <1>1, <1>2, <1>3, <1>4 DEF SessionTyped, RtTyped, ActTyped, WaitTyped, PcTyped
  <2> QED
    BY <2>1, <2>2, <2>3, <2>4 DEF SessionTyped
<1>6. LineInv'
  BY <1>1, <1>2, <1>3, <1>4 DEF Sound, LineInv, OnWay, Alone, Callers, Known, Gains, KnownOf, KnownFor,
     GainsTells, GainsOnce, SessionTyped, PiTyped, Real, PipesTyped, RtTyped, Believed, ActTyped, WaitTyped,
     Waits, PcTyped, CountTyped
<1>7. CallersInv'
  BY <1>1, <1>2, <1>3, <1>4 DEF Sound, CallersInv, Callers, SessionTyped, PiTyped, Real, PipesTyped, RtTyped,
     Believed, ActTyped, WaitTyped, Waits, PcTyped, CountTyped
<1>8. ToldInv'
  <2>1. /\ Tells(up', Say({"settled"})) <=> Tells(up, Say({"settled"}))
        /\ Tells(up', Say({"cend"})) <=> Tells(up, Say({"cend"}))
        /\ Tells(up', Say({"started"})) <=> Tells(up, Say({"started"}))
        /\ Open(up', Say({"start"}), Say({"settled"})) <=> Open(up, Say({"start"}), Say({"settled"}))
        /\ Open(up', Say({"start", "retry"}), Say({"settled"})) <=>
             Open(up, Say({"start", "retry"}), Say({"settled"}))
        /\ Open(up', Say({"cstart"}), Say({"cend"}))
    BY <1>1, <1>2, <1>3, <1>4 DEF Known, KnownSay, Gains, GainsTells, GainsOpen, Callers
  <2> QED
    BY <1>1, <1>2, <1>3, <1>4, <2>1 DEF Sound, ToldInv, Unanswered, SessionTyped, PiTyped, Real, PipesTyped,
       RtTyped, Believed, ActTyped, WaitTyped, Waits, PcTyped, CountTyped
<1>9. AskedInv'
  BY <1>1, <1>2, <1>3, <1>4 DEF Sound, AskedInv, Reason, Callers, Known, Gains, KnownSay, KnownSeen, GainsTells,
     GainsOpen, SessionTyped, PiTyped, Real, PipesTyped, RtTyped, Believed, ActTyped, WaitTyped, Waits, PcTyped,
     CountTyped
<1>10. StoppedInv'
  BY <1>1, <1>2, <1>3, <1>4 DEF Sound, StoppedInv, Callers, Known, Gains, KnownOf, KnownSay, GainsTells,
     GainsOpen, GainsFirst, SessionTyped, PiTyped, Real, PipesTyped, RtTyped, Believed, ActTyped, WaitTyped,
     Waits, PcTyped, CountTyped
<1>11. OwnInv'
  BY <1>1, <1>2, <1>3, <1>4 DEF Sound, OwnInv, Known, Gains, KnownSay, GainsTells, GainsOpen, SessionTyped,
     PiTyped, Real, PipesTyped, RtTyped, Believed, ActTyped, WaitTyped, Waits, PcTyped, CountTyped
<1>12. RejectsInv'
  BY <1>1, <1>2, <1>3, <1>4 DEF Sound, RejectsInv, AheadOf, Callers, Known, Gains, KnownOf, GainsTells,
     GainsBefore, SessionTyped, PiTyped, Real, PipesTyped, RtTyped, Believed, ActTyped, WaitTyped, Waits,
     PcTyped, CountTyped
<1>13. ReapsInv'
  BY <1>1, <1>2, <1>3, <1>4 DEF Sound, ReapsInv, AheadOf, OnWay, Callers, Known, Gains, KnownOf, GainsTells,
     GainsBefore, SessionTyped, PiTyped, Real, PipesTyped, RtTyped, Believed, ActTyped, WaitTyped, Waits,
     PcTyped, CountTyped
<1> QED
  BY <1>5, <1>6, <1>7, <1>8, <1>9, <1>10, <1>11, <1>12, <1>13 DEF Sound

\* A compaction ends.
LEMMA CompactionEndStep ==
  ASSUME SessionTyped, Sound, CompactionEnd
  PROVE  SessionTyped' /\ Sound'
<1>1. /\ up' \in Seq(Messages) /\ Gains(up, up', Event("cend")) /\ Event("cend") \in Messages
      /\ Event("cend").kind = "cend" /\ Event("cend").by = "pi"
      /\ pi' = [pi EXCEPT !.comp = FALSE] /\ UNCHANGED <<down, rt, act, wait, pc, hit, ended, times>>
      /\ ~ended /\ pi.comp
  BY Emitted DEF CompactionEnd, SessionTyped
<1>2. Known(Event("cend"))
  BY <1>1, MessageKinds
<1>3. pi'.run = pi.run /\ pi'.at = pi.at /\ ~pi'.comp /\ pi'.held = pi.held
  BY <1>1 DEF SessionTyped, PiTyped, Real
<1>4. SessionTyped'
  <2>1. PiTyped'
    BY <1>1, <1>2, <1>3 DEF SessionTyped, PiTyped, Real
  <2>2. PipesTyped'
    BY <1>1, <1>2, <1>3 DEF SessionTyped, PipesTyped
  <2>3. CountTyped'
    BY <1>1, <1>2, <1>3 DEF SessionTyped, CountTyped
  <2>4. RtTyped' /\ ActTyped' /\ WaitTyped' /\ PcTyped'
    BY <1>1, <1>2, <1>3 DEF SessionTyped, RtTyped, ActTyped, WaitTyped, PcTyped
  <2> QED
    BY <2>1, <2>2, <2>3, <2>4 DEF SessionTyped
<1>5. LineInv'
  BY <1>1, <1>2, <1>3 DEF Sound, LineInv, OnWay, Alone, Callers, Known, Gains, KnownOf, KnownFor, GainsTells,
     GainsOnce, SessionTyped, PiTyped, Real, PipesTyped, RtTyped, Believed, ActTyped, WaitTyped, Waits, PcTyped,
     CountTyped
<1>6. CallersInv'
  BY <1>1, <1>2, <1>3 DEF Sound, CallersInv, Callers, SessionTyped, PiTyped, Real, PipesTyped, RtTyped,
     Believed, ActTyped, WaitTyped, Waits, PcTyped, CountTyped
<1>7. ToldInv'
  <2>1. /\ Tells(up', Say({"settled"})) <=> Tells(up, Say({"settled"}))
        /\ Tells(up', Say({"cend"}))
        /\ Tells(up', Say({"started"})) <=> Tells(up, Say({"started"}))
        /\ Open(up', Say({"start"}), Say({"settled"})) <=> Open(up, Say({"start"}), Say({"settled"}))
        /\ Open(up', Say({"start", "retry"}), Say({"settled"})) <=>
             Open(up, Say({"start", "retry"}), Say({"settled"}))
        /\ ~Open(up', Say({"cstart"}), Say({"cend"}))
    BY <1>1, <1>2, <1>3 DEF Known, KnownSay, Gains, GainsTells, GainsOpen, Callers
  <2> QED
    BY <1>1, <1>2, <1>3, <2>1 DEF Sound, ToldInv, Unanswered, SessionTyped, PiTyped, Real, PipesTyped,
       RtTyped, Believed, ActTyped, WaitTyped, Waits, PcTyped, CountTyped
<1>8. AskedInv'
  BY <1>1, <1>2, <1>3 DEF Sound, AskedInv, Reason, Callers, Known, Gains, KnownSay, KnownSeen, GainsTells,
     GainsOpen, SessionTyped, PiTyped, Real, PipesTyped, RtTyped, Believed, ActTyped, WaitTyped, Waits, PcTyped,
     CountTyped
<1>9. StoppedInv'
  BY <1>1, <1>2, <1>3 DEF Sound, StoppedInv, Callers, Known, Gains, KnownOf, KnownSay, GainsTells, GainsOpen,
     GainsFirst, SessionTyped, PiTyped, Real, PipesTyped, RtTyped, Believed, ActTyped, WaitTyped, Waits,
     PcTyped, CountTyped
<1>10. OwnInv'
  BY <1>1, <1>2, <1>3 DEF Sound, OwnInv, Known, Gains, KnownSay, GainsTells, GainsOpen, SessionTyped, PiTyped,
     Real, PipesTyped, RtTyped, Believed, ActTyped, WaitTyped, Waits, PcTyped, CountTyped
<1>11. RejectsInv'
  BY <1>1, <1>2, <1>3 DEF Sound, RejectsInv, AheadOf, Callers, Known, Gains, KnownOf, GainsTells, GainsBefore,
     SessionTyped, PiTyped, Real, PipesTyped, RtTyped, Believed, ActTyped, WaitTyped, Waits, PcTyped, CountTyped
<1>12. ReapsInv'
  BY <1>1, <1>2, <1>3 DEF Sound, ReapsInv, AheadOf, OnWay, Callers, Known, Gains, KnownOf, GainsTells,
     GainsBefore, SessionTyped, PiTyped, Real, PipesTyped, RtTyped, Believed, ActTyped, WaitTyped, Waits,
     PcTyped, CountTyped
<1> QED
  BY <1>4, <1>5, <1>6, <1>7, <1>8, <1>9, <1>10, <1>11, <1>12 DEF Sound

\* A retry goes on with the run.
LEMMA RetryEndStep ==
  ASSUME SessionTyped, Sound, RetryEnd
  PROVE  SessionTyped' /\ Sound'
<1>1. /\ Event("retried") \in Messages /\ Event("retried").kind = "retried" /\ Event("retried").by = "pi"
      /\ Event("start") \in Messages /\ Event("start").kind = "start" /\ Event("start").by = "pi"
  BY AnswerFact, EventFact
<1>2. /\ up' \in Seq(Messages) /\ GainsTwo(up, up', Event("retried"), Event("start"))
      /\ ~ended /\ pi.at = "retry" /\ pi' = [pi EXCEPT !.at = "turn"] /\ UNCHANGED <<down, rt, act, wait, pc, hit, ended, times>>
  BY <1>1, EmittedTwo DEF RetryEnd, SessionTyped
<1>3. Known(Event("retried")) /\ Known(Event("start"))
  BY <1>1, MessageKinds
<1>4. pi'.run = pi.run /\ pi'.at = "turn" /\ pi'.comp = pi.comp /\ pi'.held = pi.held
  BY <1>2 DEF SessionTyped, PiTyped, Real, Started
<1>5. SessionTyped'
  <2>1. PiTyped'
    BY <1>1, <1>2, <1>3, <1>4 DEF SessionTyped, PiTyped, Real
  <2>2. PipesTyped'
    BY <1>1, <1>2, <1>3, <1>4 DEF SessionTyped, PipesTyped
  <2>3. CountTyped'
    BY <1>1, <1>2, <1>3, <1>4 DEF SessionTyped, CountTyped
  <2>4. RtTyped' /\ ActTyped' /\ WaitTyped' /\ PcTyped'
    BY <1>1, <1>2, <1>3, <1>4 DEF SessionTyped, RtTyped, ActTyped, WaitTyped, PcTyped
  <2> QED
    BY <2>1, <2>2, <2>3, <2>4 DEF SessionTyped
<1>6. LineInv'
  <2>1. /\ Tells(up', Of("work")) <=> Tells(up, Of("work"))
        /\ Tells(up', Of("stop")) <=> Tells(up, Of("stop"))
        /\ Tells(up', Of("reject")) <=> Tells(up, Of("reject"))
        /\ Tells(up', Asking("work")) <=> Tells(up, Asking("work"))
        /\ Tells(up', Asking("stop")) <=> Tells(up, Asking("stop"))
        /\ Tells(up', Prompting) <=> Tells(up, Prompting)
        /\ Tells(up', ClearsBy("stop")) <=> Tells(up, ClearsBy("stop"))
        /\ Tells(up', ClearsBy("reject")) <=> Tells(up, ClearsBy("reject"))
        /\ Tells(up', AbortsBy("stop")) <=> Tells(up, AbortsBy("stop"))
        /\ Tells(up', AbortsBy("reject")) <=> Tells(up, AbortsBy("reject"))
        /\ Once(up, Of("work")) => Once(up', Of("work"))
        /\ Once(up, Of("stop")) => Once(up', Of("stop"))
        /\ Once(up, Of("reject")) => Once(up', Of("reject"))
    BY <1>1, <1>2, <1>3, <1>4 DEF Known, KnownOf, KnownFor, GainsTwo, GainsTwoTells, GainsTwoOnce, Callers
  <2> QED
    BY <1>1, <1>2, <1>3, <1>4, <2>1 DEF Sound, LineInv, OnWay, Alone, Callers, SessionTyped, PiTyped, Real,
       PipesTyped, RtTyped, Believed, ActTyped, WaitTyped, Waits, PcTyped, CountTyped
<1>7. CallersInv'
  BY <1>1, <1>2, <1>3, <1>4 DEF Sound, CallersInv, Callers, SessionTyped, PiTyped, Real, PipesTyped, RtTyped,
     Believed, ActTyped, WaitTyped, Waits, PcTyped, CountTyped
<1>8. ToldInv'
  <2>1. /\ Tells(up', Say({"settled"})) <=> Tells(up, Say({"settled"}))
        /\ Tells(up', Say({"cend"})) <=> Tells(up, Say({"cend"}))
        /\ Tells(up', Say({"started"})) <=> Tells(up, Say({"started"}))
        /\ Open(up', Say({"start"}), Say({"settled"}))
        /\ Open(up', Say({"start", "retry"}), Say({"settled"}))
        /\ Open(up', Say({"cstart"}), Say({"cend"})) <=> Open(up, Say({"cstart"}), Say({"cend"}))
    BY <1>1, <1>2, <1>3, <1>4 DEF Known, KnownSay, GainsTwo, GainsTwoTells, GainsTwoOpen, Callers
  <2> QED
    BY <1>1, <1>2, <1>3, <1>4, <2>1 DEF Sound, ToldInv, Unanswered, SessionTyped, PiTyped, Real, PipesTyped,
       RtTyped, Believed, ActTyped, WaitTyped, Waits, PcTyped, CountTyped
<1>9. AskedInv'
  <2>1. /\ Tells(up', Say({"settled"})) <=> Tells(up, Say({"settled"}))
        /\ Tells(up', Say({"cend"})) <=> Tells(up, Say({"cend"}))
        /\ Tells(up', Say({"settled", "cend"})) <=> Tells(up, Say({"settled", "cend"}))
        /\ Open(up', Seeing("run"), Say({"settled"})) <=> Open(up, Seeing("run"), Say({"settled"}))
        /\ Open(up', Seeing("comp"), Say({"cend"})) <=> Open(up, Seeing("comp"), Say({"cend"}))
    BY <1>1, <1>2, <1>3, <1>4 DEF Known, KnownSay, KnownSeen, GainsTwo, GainsTwoTells, GainsTwoOpen, Callers
  <2> QED
    BY <1>1, <1>2, <1>3, <1>4, <2>1 DEF Sound, AskedInv, Reason, Callers, SessionTyped, PiTyped, Real,
       PipesTyped, RtTyped, Believed, ActTyped, WaitTyped, Waits, PcTyped, CountTyped
<1>10. StoppedInv'
  <2>1. /\ Tells(up', Of("stop")) <=> Tells(up, Of("stop"))
        /\ Tells(up', Say({"started"})) <=> Tells(up, Say({"started"}))
        /\ First(up', Events, Of("stop")) <=> (First(up, Events, Of("stop")) \/ ~Tells(up, Of("stop")))
        /\ Open(up', Say({"started"}), Of("stop")) <=> Open(up, Say({"started"}), Of("stop"))
    BY <1>1, <1>2, <1>3, <1>4 DEF Known, KnownOf, KnownSay, GainsTwo, GainsTwoTells, GainsTwoOpen,
       GainsTwoFirst, Callers
  <2> QED
    BY <1>1, <1>2, <1>3, <1>4, <2>1 DEF Sound, StoppedInv, Callers, SessionTyped, PiTyped, Real, PipesTyped,
       RtTyped, Believed, ActTyped, WaitTyped, Waits, PcTyped, CountTyped
<1>11. OwnInv'
  <2>1. /\ Tells(up', Say({"settled"})) <=> Tells(up, Say({"settled"}))
        /\ Open(up', Say({"started"}), Say({"settled"})) <=> Open(up, Say({"started"}), Say({"settled"}))
    BY <1>1, <1>2, <1>3, <1>4 DEF Known, KnownSay, GainsTwo, GainsTwoTells, GainsTwoOpen, Callers
  <2> QED
    BY <1>1, <1>2, <1>3, <1>4, <2>1 DEF Sound, OwnInv, SessionTyped, PiTyped, Real, PipesTyped, RtTyped,
       Believed, ActTyped, WaitTyped, Waits, PcTyped, CountTyped
<1>12. RejectsInv'
  <2>1. /\ Tells(up', Of("work")) <=> Tells(up, Of("work"))
        /\ Tells(up', Of("reject")) <=> Tells(up, Of("reject"))
        /\ Before(up, Of("reject"), Of("work")) => Before(up', Of("reject"), Of("work"))
    BY <1>1, <1>2, <1>3, <1>4 DEF Known, KnownOf, GainsTwo, GainsTwoTells, GainsTwoBefore, Callers
  <2> QED
    BY <1>1, <1>2, <1>3, <1>4, <2>1 DEF Sound, RejectsInv, AheadOf, Callers, SessionTyped, PiTyped, Real,
       PipesTyped, RtTyped, Believed, ActTyped, WaitTyped, Waits, PcTyped, CountTyped
<1>13. ReapsInv'
  <2>1. /\ Tells(up', Of("work")) <=> Tells(up, Of("work"))
        /\ Tells(up', Of("reap")) <=> Tells(up, Of("reap"))
        /\ Before(up, Of("reap"), Of("work")) => Before(up', Of("reap"), Of("work"))
    BY <1>1, <1>2, <1>3, <1>4 DEF Known, KnownOf, GainsTwo, GainsTwoTells, GainsTwoBefore, Callers
  <2> QED
    BY <1>1, <1>2, <1>3, <1>4, <2>1 DEF Sound, ReapsInv, AheadOf, OnWay, Callers, SessionTyped, PiTyped, Real,
       PipesTyped, RtTyped, Believed, ActTyped, WaitTyped, Waits, PcTyped, CountTyped
<1> QED
  BY <1>5, <1>6, <1>7, <1>8, <1>9, <1>10, <1>11, <1>12, <1>13 DEF Sound

\* The prompt Pi held back starts its run.
LEMMA HeldStartsStep ==
  ASSUME SessionTyped, Sound, HeldStarts
  PROVE  SessionTyped' /\ Sound'
<1>1. /\ Answer("started", "work") \in Messages /\ Answer("started", "work").kind = "started"
      /\ Answer("started", "work").by = "work"
      /\ Event("start") \in Messages /\ Event("start").kind = "start" /\ Event("start").by = "pi"
  BY AnswerFact, EventFact
<1>2. /\ up' \in Seq(Messages) /\ GainsTwo(up, up', Answer("started", "work"), Event("start"))
      /\ ~ended /\ pi.held /\ ~pi.comp /\ pi.run = "none" /\ pi' = Started(pi) /\ UNCHANGED <<down, rt, act, wait, pc, hit, ended, times>>
  BY <1>1, EmittedTwo DEF HeldStarts, SessionTyped
<1>3. Known(Answer("started", "work")) /\ Known(Event("start"))
  BY <1>1, MessageKinds
<1>4. pi'.run = "own" /\ pi'.at = "turn" /\ pi'.comp = pi.comp /\ ~pi'.held
  BY <1>2 DEF SessionTyped, PiTyped, Real, Started
<1>5. pc.work = "prompt"
  BY <1>2 DEF Sound, LineInv
<1>6. SessionTyped'
  <2>1. PiTyped'
    BY <1>1, <1>2, <1>3, <1>4, <1>5 DEF SessionTyped, PiTyped, Real, Started
  <2>2. PipesTyped'
    BY <1>1, <1>2, <1>3, <1>4, <1>5 DEF SessionTyped, PipesTyped, Started
  <2>3. CountTyped'
    BY <1>1, <1>2, <1>3, <1>4, <1>5 DEF SessionTyped, CountTyped, Started
  <2>4. RtTyped' /\ ActTyped' /\ WaitTyped' /\ PcTyped'
    BY <1>1, <1>2, <1>3, <1>4, <1>5 DEF SessionTyped, Started, RtTyped, ActTyped, WaitTyped, PcTyped
  <2> QED
    BY <2>1, <2>2, <2>3, <2>4 DEF SessionTyped
<1>7. LineInv'
  <2>1. /\ Tells(up', Of("work"))
        /\ Tells(up', Of("stop")) <=> Tells(up, Of("stop"))
        /\ Tells(up', Of("reject")) <=> Tells(up, Of("reject"))
        /\ Tells(up', Asking("work")) <=> Tells(up, Asking("work"))
        /\ Tells(up', Asking("stop")) <=> Tells(up, Asking("stop"))
        /\ Tells(up', Prompting)
        /\ Tells(up', ClearsBy("stop")) <=> Tells(up, ClearsBy("stop"))
        /\ Tells(up', ClearsBy("reject")) <=> Tells(up, ClearsBy("reject"))
        /\ Tells(up', AbortsBy("stop")) <=> Tells(up, AbortsBy("stop"))
        /\ Tells(up', AbortsBy("reject")) <=> Tells(up, AbortsBy("reject"))
        /\ Once(up, Of("work")) /\ ~(Tells(up, Of("work"))) => Once(up', Of("work"))
        /\ Once(up, Of("stop")) => Once(up', Of("stop"))
        /\ Once(up, Of("reject")) => Once(up', Of("reject"))
    BY <1>1, <1>2, <1>3, <1>4, <1>5 DEF Known, KnownOf, KnownFor, GainsTwo, GainsTwoTells, GainsTwoOnce, Callers
  <2> QED
    BY <1>1, <1>2, <1>3, <1>4, <1>5, <2>1 DEF Sound, LineInv, OnWay, Alone, Callers, SessionTyped, PiTyped,
       Real, PipesTyped, RtTyped, Believed, ActTyped, WaitTyped, Waits, PcTyped, CountTyped
<1>8. CallersInv'
  BY <1>1, <1>2, <1>3, <1>4, <1>5 DEF Sound, CallersInv, Callers, SessionTyped, PiTyped, Real, PipesTyped,
     RtTyped, Believed, ActTyped, WaitTyped, Waits, PcTyped, CountTyped, Started
<1>9. ToldInv'
  <2>1. /\ Tells(up', Say({"settled"})) <=> Tells(up, Say({"settled"}))
        /\ Tells(up', Say({"cend"})) <=> Tells(up, Say({"cend"}))
        /\ Tells(up', Say({"started"}))
        /\ Open(up', Say({"start"}), Say({"settled"}))
        /\ Open(up', Say({"start", "retry"}), Say({"settled"}))
        /\ Open(up', Say({"cstart"}), Say({"cend"})) <=> Open(up, Say({"cstart"}), Say({"cend"}))
    BY <1>1, <1>2, <1>3, <1>4, <1>5 DEF Known, KnownSay, GainsTwo, GainsTwoTells, GainsTwoOpen, Callers
  <2> QED
    BY <1>1, <1>2, <1>3, <1>4, <1>5, <2>1 DEF Sound, ToldInv, Unanswered, SessionTyped, PiTyped, Real,
       PipesTyped, RtTyped, Believed, ActTyped, WaitTyped, Waits, PcTyped, CountTyped
<1>10. AskedInv'
  <2>1. /\ Tells(up', Say({"settled"})) <=> Tells(up, Say({"settled"}))
        /\ Tells(up', Say({"cend"})) <=> Tells(up, Say({"cend"}))
        /\ Tells(up', Say({"settled", "cend"})) <=> Tells(up, Say({"settled", "cend"}))
        /\ Open(up', Seeing("run"), Say({"settled"})) <=> Open(up, Seeing("run"), Say({"settled"}))
        /\ Open(up', Seeing("comp"), Say({"cend"})) <=> Open(up, Seeing("comp"), Say({"cend"}))
    BY <1>1, <1>2, <1>3, <1>4, <1>5 DEF Known, KnownSay, KnownSeen, GainsTwo, GainsTwoTells, GainsTwoOpen,
       Callers
  <2> QED
    BY <1>1, <1>2, <1>3, <1>4, <1>5, <2>1 DEF Sound, AskedInv, Reason, Callers, SessionTyped, PiTyped, Real,
       PipesTyped, RtTyped, Believed, ActTyped, WaitTyped, Waits, PcTyped, CountTyped
<1>11. StoppedInv'
  <2>1. /\ Tells(up', Of("stop")) <=> Tells(up, Of("stop"))
        /\ Tells(up', Say({"started"}))
        /\ First(up', Events, Of("stop")) <=> (First(up, Events, Of("stop")) \/ ~Tells(up, Of("stop")))
        /\ Open(up', Say({"started"}), Of("stop"))
    BY <1>1, <1>2, <1>3, <1>4, <1>5 DEF Known, KnownOf, KnownSay, GainsTwo, GainsTwoTells, GainsTwoOpen,
       GainsTwoFirst, Callers
  <2> QED
    BY <1>1, <1>2, <1>3, <1>4, <1>5, <2>1 DEF Sound, StoppedInv, Callers, CallersInv, LineInv, SessionTyped,
       PiTyped, Real, PipesTyped, RtTyped, Believed, ActTyped, WaitTyped, Waits, PcTyped, CountTyped
<1>12. OwnInv'
  <2>1. /\ Tells(up', Say({"settled"})) <=> Tells(up, Say({"settled"}))
        /\ Open(up', Say({"started"}), Say({"settled"}))
    BY <1>1, <1>2, <1>3, <1>4, <1>5 DEF Known, KnownSay, GainsTwo, GainsTwoTells, GainsTwoOpen, Callers
  <2> QED
    BY <1>1, <1>2, <1>3, <1>4, <1>5, <2>1 DEF Sound, OwnInv, CallersInv, LineInv, SessionTyped, PiTyped, Real,
       PipesTyped, RtTyped, Believed, ActTyped, WaitTyped, Waits, PcTyped, CountTyped
<1>13. RejectsInv'
  <2>1. /\ Tells(up', Of("work"))
        /\ Tells(up', Of("reject")) <=> Tells(up, Of("reject"))
        /\ Before(up, Of("reject"), Of("work")) => Before(up', Of("reject"), Of("work"))
    BY <1>1, <1>2, <1>3, <1>4, <1>5 DEF Known, KnownOf, GainsTwo, GainsTwoTells, GainsTwoBefore, Callers
  <2> QED
    BY <1>1, <1>2, <1>3, <1>4, <1>5, <2>1 DEF Sound, RejectsInv, AheadOf, Callers, SessionTyped, PiTyped,
       Real, PipesTyped, RtTyped, Believed, ActTyped, WaitTyped, Waits, PcTyped, CountTyped
<1>14. ReapsInv'
  <2>1. /\ Tells(up', Of("work"))
        /\ Tells(up', Of("reap")) <=> Tells(up, Of("reap"))
        /\ Before(up, Of("reap"), Of("work")) => Before(up', Of("reap"), Of("work"))
    BY <1>1, <1>2, <1>3, <1>4, <1>5 DEF Known, KnownOf, GainsTwo, GainsTwoTells, GainsTwoBefore, Callers
  <2> QED
    BY <1>1, <1>2, <1>3, <1>4, <1>5, <2>1 DEF Sound, ReapsInv, AheadOf, OnWay, Callers, SessionTyped, PiTyped,
       Real, PipesTyped, RtTyped, Believed, ActTyped, WaitTyped, Waits, PcTyped, CountTyped
<1> QED
  BY <1>6, <1>7, <1>8, <1>9, <1>10, <1>11, <1>12, <1>13, <1>14 DEF Sound

\* Pi answers a read of its state.
LEMMA ReadAnsweredStep ==
  ASSUME SessionTyped, Sound, Receive, ReadAnswered
  PROVE  SessionTyped' /\ Sound'
<1>1. /\ ~ended /\ down[1] \in Commands /\ down' \in Seq(Commands) /\ up' \in Seq(Messages) /\ Loses(down, down')
      /\ UNCHANGED <<rt, act, wait, pc, ended, times>>
  BY Received DEF SessionTyped
<1>2. /\ Known(down[1])
      /\ down[1].kind = "get_state" => down[1].by \in Callers
      /\ down[1].kind = "prompt" => down[1].by = "work"
      /\ down[1].kind = "clear_queue" => down[1].by \in {"stop", "reject"}
      /\ down[1].kind = "abort" => down[1].by \in {"stop", "reject", "reap"}
  BY <1>1, CommandKinds
<1>3. PICK x \in SUBSET {"run", "comp"}, m \in Messages :
        /\ "run" \in x <=> pi.at = "turn"
        /\ "comp" \in x <=> pi.comp
        /\ m.kind = "state" /\ m.by = down[1].by /\ m.seen = x /\ Gains(up, up', m)
  BY DEF ReadAnswered
<1>4. down[1].kind = "get_state" /\ UNCHANGED <<pi, hit>>
  BY DEF ReadAnswered
<1>5. Known(m)
  BY <1>3, MessageKinds
<1>6. SessionTyped'
  <2>1. PiTyped'
    BY <1>1, <1>2, <1>3, <1>4, <1>5 DEF SessionTyped, PiTyped, Real
  <2>2. PipesTyped'
    BY <1>1, <1>2, <1>3, <1>4, <1>5 DEF SessionTyped, PipesTyped
  <2>3. CountTyped'
    BY <1>1, <1>2, <1>3, <1>4, <1>5 DEF SessionTyped, CountTyped
  <2>4. RtTyped' /\ ActTyped' /\ WaitTyped' /\ PcTyped'
    BY <1>1, <1>2, <1>3, <1>4, <1>5 DEF SessionTyped, RtTyped, ActTyped, WaitTyped, PcTyped
  <2> QED
    BY <2>1, <2>2, <2>3, <2>4 DEF SessionTyped
<1>7. LineInv'
  BY <1>1, <1>2, <1>3, <1>4, <1>5 DEF Sound, LineInv, OnWay, Alone, Callers, Known, Gains, Loses, KnownOf,
     KnownFor, GainsTells, GainsOnce, LosesTells, LosesOnce, SessionTyped, PiTyped, Real, PipesTyped, RtTyped,
     Believed, ActTyped, WaitTyped, Waits, PcTyped, CountTyped
<1>8. CallersInv'
  BY <1>1, <1>2, <1>3, <1>4, <1>5 DEF Sound, CallersInv, Callers, SessionTyped, PiTyped, Real, PipesTyped,
     RtTyped, Believed, ActTyped, WaitTyped, Waits, PcTyped, CountTyped
<1>9. ToldInv'
  <2>1. /\ Tells(up', Say({"settled"})) <=> Tells(up, Say({"settled"}))
        /\ Tells(up', Say({"cend"})) <=> Tells(up, Say({"cend"}))
        /\ Tells(up', Say({"started"})) <=> Tells(up, Say({"started"}))
        /\ Open(up', Say({"start"}), Say({"settled"})) <=> Open(up, Say({"start"}), Say({"settled"}))
        /\ Open(up', Say({"start", "retry"}), Say({"settled"})) <=>
             Open(up, Say({"start", "retry"}), Say({"settled"}))
        /\ Open(up', Say({"cstart"}), Say({"cend"})) <=> Open(up, Say({"cstart"}), Say({"cend"}))
    BY <1>1, <1>2, <1>3, <1>4, <1>5 DEF Known, KnownSay, Gains, GainsTells, GainsOpen, Callers
  <2> QED
    BY <1>1, <1>2, <1>3, <1>4, <1>5, <2>1 DEF Sound, ToldInv, Unanswered, SessionTyped, PiTyped, Real,
       PipesTyped, RtTyped, Believed, ActTyped, WaitTyped, Waits, PcTyped, CountTyped
<1>10. AskedInv'
  BY <1>1, <1>2, <1>3, <1>4, <1>5 DEF Sound, AskedInv, Reason, Callers, Known, Gains, KnownSay, KnownSeen,
     GainsTells, GainsOpen, SessionTyped, PiTyped, Real, PipesTyped, RtTyped, Believed, ActTyped, WaitTyped,
     Waits, PcTyped, CountTyped
<1>11. StoppedInv'
  <2>1. /\ Tells(up', Of("stop")) <=> (Tells(up, Of("stop")) \/ m.by = "stop")
        /\ Tells(up', Say({"started"})) <=> Tells(up, Say({"started"}))
        /\ First(up', Events, Of("stop")) <=> First(up, Events, Of("stop"))
        /\ Open(up', Say({"started"}), Of("stop")) <=> (Open(up, Say({"started"}), Of("stop")) /\ ~(m.by = "stop"))
    BY <1>1, <1>2, <1>3, <1>4, <1>5 DEF Known, KnownOf, KnownSay, Gains, GainsTells, GainsOpen, GainsFirst,
       Callers
  <2>2. ASSUME wait["stop"].at = "asked", wait["stop"].clean, pi.run = "own", m.by = "stop"
        PROVE  First(up, Events, Of("stop"))
    <3>1. ~rt.unsettled /\ ~Tells(up, Of("stop"))
      BY <1>1, <1>2, <1>3, <1>4, <1>5, <2>2 DEF Sound, StoppedInv, LineInv, Alone, Loses, LosesTells, Known,
         KnownOf
    <3>2. Open(up, Say({"start"}), Say({"settled"}))
      BY <2>2, <3>1 DEF Sound, ToldInv
    <3> QED
      BY <3>1, <3>2, EventFirst DEF SessionTyped
  <2> QED
    BY <1>1, <1>2, <1>3, <1>4, <1>5, <2>1, <2>2 DEF Sound, StoppedInv, SessionTyped, WaitTyped, Waits, Callers
<1>12. OwnInv'
  BY <1>1, <1>2, <1>3, <1>4, <1>5 DEF Sound, OwnInv, Known, Gains, KnownSay, GainsTells, GainsOpen,
     SessionTyped, PiTyped, Real, PipesTyped, RtTyped, Believed, ActTyped, WaitTyped, Waits, PcTyped, CountTyped
<1>13. RejectsInv'
  BY <1>1, <1>2, <1>3, <1>4, <1>5 DEF Sound, RejectsInv, AheadOf, Callers, Known, Gains, Loses, KnownOf,
     GainsTells, GainsBefore, LosesTells, LosesBefore, SessionTyped, PiTyped, Real, PipesTyped, RtTyped,
     Believed, ActTyped, WaitTyped, Waits, PcTyped, CountTyped
<1>14. ReapsInv'
  BY <1>1, <1>2, <1>3, <1>4, <1>5 DEF Sound, ReapsInv, AheadOf, OnWay, Callers, Known, Gains, Loses, KnownOf,
     GainsTells, GainsBefore, LosesTells, LosesBefore, SessionTyped, PiTyped, Real, PipesTyped, RtTyped,
     Believed, ActTyped, WaitTyped, Waits, PcTyped, CountTyped
<1> QED
  BY <1>6, <1>7, <1>8, <1>9, <1>10, <1>11, <1>12, <1>13, <1>14 DEF Sound

\* Pi has cleared its queue.
LEMMA ClearAnsweredStep ==
  ASSUME SessionTyped, Sound, Receive, ClearAnswered
  PROVE  SessionTyped' /\ Sound'
<1>1. /\ ~ended /\ down[1] \in Commands /\ down' \in Seq(Commands) /\ up' \in Seq(Messages) /\ Loses(down, down')
      /\ UNCHANGED <<rt, act, wait, pc, ended, times>>
  BY Received DEF SessionTyped
<1>2. /\ Known(down[1])
      /\ down[1].kind = "get_state" => down[1].by \in Callers
      /\ down[1].kind = "prompt" => down[1].by = "work"
      /\ down[1].kind = "clear_queue" => down[1].by \in {"stop", "reject"}
      /\ down[1].kind = "abort" => down[1].by \in {"stop", "reject", "reap"}
  BY <1>1, CommandKinds
<1>3. PICK m \in Messages : m.kind = "cleared" /\ m.by = down[1].by /\ Gains(up, up', m)
  BY DEF ClearAnswered
<1>4. down[1].kind = "clear_queue" /\ UNCHANGED <<pi, hit>>
  BY DEF ClearAnswered
<1>5. Known(m)
  BY <1>3, MessageKinds
<1>6. SessionTyped'
  <2>1. PiTyped'
    BY <1>1, <1>2, <1>3, <1>4, <1>5 DEF SessionTyped, PiTyped, Real
  <2>2. PipesTyped'
    BY <1>1, <1>2, <1>3, <1>4, <1>5 DEF SessionTyped, PipesTyped
  <2>3. CountTyped'
    BY <1>1, <1>2, <1>3, <1>4, <1>5 DEF SessionTyped, CountTyped
  <2>4. RtTyped' /\ ActTyped' /\ WaitTyped' /\ PcTyped'
    BY <1>1, <1>2, <1>3, <1>4, <1>5 DEF SessionTyped, RtTyped, ActTyped, WaitTyped, PcTyped
  <2> QED
    BY <2>1, <2>2, <2>3, <2>4 DEF SessionTyped
<1>7. LineInv'
  BY <1>1, <1>2, <1>3, <1>4, <1>5 DEF Sound, LineInv, OnWay, Alone, Callers, Known, Gains, Loses, KnownOf,
     KnownFor, GainsTells, GainsOnce, LosesTells, LosesOnce, SessionTyped, PiTyped, Real, PipesTyped, RtTyped,
     Believed, ActTyped, WaitTyped, Waits, PcTyped, CountTyped
<1>8. CallersInv'
  BY <1>1, <1>2, <1>3, <1>4, <1>5 DEF Sound, CallersInv, Callers, SessionTyped, PiTyped, Real, PipesTyped,
     RtTyped, Believed, ActTyped, WaitTyped, Waits, PcTyped, CountTyped
<1>9. ToldInv'
  <2>1. /\ Tells(up', Say({"settled"})) <=> Tells(up, Say({"settled"}))
        /\ Tells(up', Say({"cend"})) <=> Tells(up, Say({"cend"}))
        /\ Tells(up', Say({"started"})) <=> Tells(up, Say({"started"}))
        /\ Open(up', Say({"start"}), Say({"settled"})) <=> Open(up, Say({"start"}), Say({"settled"}))
        /\ Open(up', Say({"start", "retry"}), Say({"settled"})) <=>
             Open(up, Say({"start", "retry"}), Say({"settled"}))
        /\ Open(up', Say({"cstart"}), Say({"cend"})) <=> Open(up, Say({"cstart"}), Say({"cend"}))
    BY <1>1, <1>2, <1>3, <1>4, <1>5 DEF Known, KnownSay, Gains, GainsTells, GainsOpen, Callers
  <2> QED
    BY <1>1, <1>2, <1>3, <1>4, <1>5, <2>1 DEF Sound, ToldInv, Unanswered, SessionTyped, PiTyped, Real,
       PipesTyped, RtTyped, Believed, ActTyped, WaitTyped, Waits, PcTyped, CountTyped
<1>10. AskedInv'
  BY <1>1, <1>2, <1>3, <1>4, <1>5 DEF Sound, AskedInv, Reason, Callers, Known, Gains, KnownSay, KnownSeen,
     GainsTells, GainsOpen, SessionTyped, PiTyped, Real, PipesTyped, RtTyped, Believed, ActTyped, WaitTyped,
     Waits, PcTyped, CountTyped
<1>11. StoppedInv'
  <2>1. /\ Tells(up', Of("stop")) <=> (Tells(up, Of("stop")) \/ m.by = "stop")
        /\ Tells(up', Say({"started"})) <=> Tells(up, Say({"started"}))
        /\ First(up', Events, Of("stop")) <=> First(up, Events, Of("stop"))
        /\ Open(up', Say({"started"}), Of("stop")) <=> (Open(up, Say({"started"}), Of("stop")) /\ ~(m.by = "stop"))
    BY <1>1, <1>2, <1>3, <1>4, <1>5 DEF Known, KnownOf, KnownSay, Gains, GainsTells, GainsOpen, GainsFirst,
       Callers
  <2>2. m.by = "stop" => wait["stop"].at = "off"
    BY <1>1, <1>2, <1>3, <1>4, <1>5 DEF Sound, LineInv, CallersInv, OnWay, Loses, LosesTells, Known, KnownFor
  <2> QED
    BY <1>1, <1>2, <1>3, <1>4, <1>5, <2>1, <2>2 DEF Sound, StoppedInv, SessionTyped, WaitTyped, Waits, Callers
<1>12. OwnInv'
  BY <1>1, <1>2, <1>3, <1>4, <1>5 DEF Sound, OwnInv, Known, Gains, KnownSay, GainsTells, GainsOpen,
     SessionTyped, PiTyped, Real, PipesTyped, RtTyped, Believed, ActTyped, WaitTyped, Waits, PcTyped, CountTyped
<1>13. RejectsInv'
  BY <1>1, <1>2, <1>3, <1>4, <1>5 DEF Sound, RejectsInv, AheadOf, Callers, Known, Gains, Loses, KnownOf,
     GainsTells, GainsBefore, LosesTells, LosesBefore, SessionTyped, PiTyped, Real, PipesTyped, RtTyped,
     Believed, ActTyped, WaitTyped, Waits, PcTyped, CountTyped
<1>14. ReapsInv'
  BY <1>1, <1>2, <1>3, <1>4, <1>5 DEF Sound, ReapsInv, AheadOf, OnWay, Callers, Known, Gains, Loses, KnownOf,
     GainsTells, GainsBefore, LosesTells, LosesBefore, SessionTyped, PiTyped, Real, PipesTyped, RtTyped,
     Believed, ActTyped, WaitTyped, Waits, PcTyped, CountTyped
<1> QED
  BY <1>6, <1>7, <1>8, <1>9, <1>10, <1>11, <1>12, <1>13, <1>14 DEF Sound

\* Pi runs something already, and refuses the prompt.
LEMMA PromptRefusedStep ==
  ASSUME SessionTyped, Sound, Receive, PromptRefused
  PROVE  SessionTyped' /\ Sound'
<1>1. /\ ~ended /\ down[1] \in Commands /\ down' \in Seq(Commands) /\ up' \in Seq(Messages) /\ Loses(down, down')
      /\ UNCHANGED <<rt, act, wait, pc, ended, times>>
  BY Received DEF SessionTyped
<1>2. /\ Known(down[1])
      /\ down[1].kind = "get_state" => down[1].by \in Callers
      /\ down[1].kind = "prompt" => down[1].by = "work"
      /\ down[1].kind = "clear_queue" => down[1].by \in {"stop", "reject"}
      /\ down[1].kind = "abort" => down[1].by \in {"stop", "reject", "reap"}
  BY <1>1, CommandKinds
<1>3. PICK m \in Messages : m.kind = "refused" /\ m.by = "work" /\ Gains(up, up', m)
  BY DEF PromptRefused
<1>4. down[1].kind = "prompt" /\ UNCHANGED <<pi, hit>>
  BY DEF PromptRefused
<1>5. Known(m)
  BY <1>3, MessageKinds
<1>6. SessionTyped'
  <2>1. PiTyped'
    BY <1>1, <1>2, <1>3, <1>4, <1>5 DEF SessionTyped, PiTyped, Real
  <2>2. PipesTyped'
    BY <1>1, <1>2, <1>3, <1>4, <1>5 DEF SessionTyped, PipesTyped
  <2>3. CountTyped'
    BY <1>1, <1>2, <1>3, <1>4, <1>5 DEF SessionTyped, CountTyped
  <2>4. RtTyped' /\ ActTyped' /\ WaitTyped' /\ PcTyped'
    BY <1>1, <1>2, <1>3, <1>4, <1>5 DEF SessionTyped, RtTyped, ActTyped, WaitTyped, PcTyped
  <2> QED
    BY <2>1, <2>2, <2>3, <2>4 DEF SessionTyped
<1>7. LineInv'
  BY <1>1, <1>2, <1>3, <1>4, <1>5 DEF Sound, LineInv, OnWay, Alone, Callers, Known, Gains, Loses, KnownOf,
     KnownFor, GainsTells, GainsOnce, LosesTells, LosesOnce, SessionTyped, PiTyped, Real, PipesTyped, RtTyped,
     Believed, ActTyped, WaitTyped, Waits, PcTyped, CountTyped
<1>8. CallersInv'
  BY <1>1, <1>2, <1>3, <1>4, <1>5 DEF Sound, CallersInv, Callers, SessionTyped, PiTyped, Real, PipesTyped,
     RtTyped, Believed, ActTyped, WaitTyped, Waits, PcTyped, CountTyped
<1>9. ToldInv'
  <2>1. /\ Tells(up', Say({"settled"})) <=> Tells(up, Say({"settled"}))
        /\ Tells(up', Say({"cend"})) <=> Tells(up, Say({"cend"}))
        /\ Tells(up', Say({"started"})) <=> Tells(up, Say({"started"}))
        /\ Open(up', Say({"start"}), Say({"settled"})) <=> Open(up, Say({"start"}), Say({"settled"}))
        /\ Open(up', Say({"start", "retry"}), Say({"settled"})) <=>
             Open(up, Say({"start", "retry"}), Say({"settled"}))
        /\ Open(up', Say({"cstart"}), Say({"cend"})) <=> Open(up, Say({"cstart"}), Say({"cend"}))
    BY <1>1, <1>2, <1>3, <1>4, <1>5 DEF Known, KnownSay, Gains, GainsTells, GainsOpen, Callers
  <2> QED
    BY <1>1, <1>2, <1>3, <1>4, <1>5, <2>1 DEF Sound, ToldInv, Unanswered, SessionTyped, PiTyped, Real,
       PipesTyped, RtTyped, Believed, ActTyped, WaitTyped, Waits, PcTyped, CountTyped
<1>10. AskedInv'
  BY <1>1, <1>2, <1>3, <1>4, <1>5 DEF Sound, AskedInv, Reason, Callers, Known, Gains, KnownSay, KnownSeen,
     GainsTells, GainsOpen, SessionTyped, PiTyped, Real, PipesTyped, RtTyped, Believed, ActTyped, WaitTyped,
     Waits, PcTyped, CountTyped
<1>11. StoppedInv'
  BY <1>1, <1>2, <1>3, <1>4, <1>5 DEF Sound, StoppedInv, Callers, Known, Gains, KnownOf, KnownSay, GainsTells,
     GainsOpen, GainsFirst, SessionTyped, PiTyped, Real, PipesTyped, RtTyped, Believed, ActTyped, WaitTyped,
     Waits, PcTyped, CountTyped
<1>12. OwnInv'
  BY <1>1, <1>2, <1>3, <1>4, <1>5 DEF Sound, OwnInv, Known, Gains, KnownSay, GainsTells, GainsOpen,
     SessionTyped, PiTyped, Real, PipesTyped, RtTyped, Believed, ActTyped, WaitTyped, Waits, PcTyped, CountTyped
<1>13. RejectsInv'
  BY <1>1, <1>2, <1>3, <1>4, <1>5 DEF Sound, RejectsInv, AheadOf, Callers, Known, Gains, Loses, KnownOf,
     GainsTells, GainsBefore, LosesTells, LosesBefore, SessionTyped, PiTyped, Real, PipesTyped, RtTyped,
     Believed, ActTyped, WaitTyped, Waits, PcTyped, CountTyped
<1>14. ReapsInv'
  BY <1>1, <1>2, <1>3, <1>4, <1>5 DEF Sound, ReapsInv, AheadOf, OnWay, Callers, Known, Gains, Loses, KnownOf,
     GainsTells, GainsBefore, LosesTells, LosesBefore, SessionTyped, PiTyped, Real, PipesTyped, RtTyped,
     Believed, ActTyped, WaitTyped, Waits, PcTyped, CountTyped
<1> QED
  BY <1>6, <1>7, <1>8, <1>9, <1>10, <1>11, <1>12, <1>13, <1>14 DEF Sound

\* Pi holds a prompt back while it compacts.
LEMMA PromptHeldStep ==
  ASSUME SessionTyped, Sound, Receive, PromptHeld
  PROVE  SessionTyped' /\ Sound'
<1>1. /\ ~ended /\ down[1] \in Commands /\ down' \in Seq(Commands) /\ up' \in Seq(Messages) /\ Loses(down, down')
      /\ UNCHANGED <<rt, act, wait, pc, ended, times>>
  BY Received DEF SessionTyped
<1>2. /\ Known(down[1])
      /\ down[1].kind = "get_state" => down[1].by \in Callers
      /\ down[1].kind = "prompt" => down[1].by = "work"
      /\ down[1].kind = "clear_queue" => down[1].by \in {"stop", "reject"}
      /\ down[1].kind = "abort" => down[1].by \in {"stop", "reject", "reap"}
  BY <1>1, CommandKinds
<1>3. down[1].kind = "prompt" /\ pi.run = "none" /\ pi.comp /\ pi' = [pi EXCEPT !.held = TRUE] /\ UNCHANGED <<up, hit>>
  BY DEF PromptHeld
<1>4. pi'.run = "none" /\ pi'.at = pi.at /\ pi'.comp /\ pi'.held
  BY <1>3 DEF SessionTyped, PiTyped, Real
<1>5. SessionTyped'
  <2>1. PiTyped'
    BY <1>1, <1>2, <1>3, <1>4 DEF SessionTyped, PiTyped, Real
  <2>2. PipesTyped'
    BY <1>1, <1>2, <1>3, <1>4 DEF SessionTyped, PipesTyped
  <2>3. CountTyped'
    BY <1>1, <1>2, <1>3, <1>4 DEF SessionTyped, CountTyped
  <2>4. RtTyped' /\ ActTyped' /\ WaitTyped' /\ PcTyped'
    BY <1>1, <1>2, <1>3, <1>4 DEF SessionTyped, RtTyped, ActTyped, WaitTyped, PcTyped
  <2> QED
    BY <2>1, <2>2, <2>3, <2>4 DEF SessionTyped
<1>6. LineInv'
  BY <1>1, <1>2, <1>3, <1>4 DEF Sound, LineInv, OnWay, Alone, Callers, Known, Loses, KnownOf, KnownFor,
     LosesTells, LosesOnce, SessionTyped, PiTyped, Real, PipesTyped, RtTyped, Believed, ActTyped, WaitTyped,
     Waits, PcTyped, CountTyped
<1>7. CallersInv'
  BY <1>1, <1>2, <1>3, <1>4 DEF Sound, CallersInv, Callers, SessionTyped, PiTyped, Real, PipesTyped, RtTyped,
     Believed, ActTyped, WaitTyped, Waits, PcTyped, CountTyped
<1>8. ToldInv'
  BY <1>1, <1>2, <1>3, <1>4 DEF Sound, ToldInv, Unanswered, Known, Loses, KnownSay, LosesTells, LosesOpen,
     SessionTyped, PiTyped, Real, PipesTyped, RtTyped, Believed, ActTyped, WaitTyped, Waits, PcTyped, CountTyped
<1>9. AskedInv'
  BY <1>1, <1>2, <1>3, <1>4 DEF Sound, AskedInv, Reason, Callers, Known, Loses, KnownSay, KnownSeen, LosesTells,
     LosesOpen, SessionTyped, PiTyped, Real, PipesTyped, RtTyped, Believed, ActTyped, WaitTyped, Waits, PcTyped,
     CountTyped
<1>10. StoppedInv'
  BY <1>1, <1>2, <1>3, <1>4 DEF Sound, StoppedInv, Callers, Known, Loses, KnownOf, KnownSay, LosesTells,
     LosesOpen, LosesFirst, SessionTyped, PiTyped, Real, PipesTyped, RtTyped, Believed, ActTyped, WaitTyped,
     Waits, PcTyped, CountTyped
<1>11. OwnInv'
  BY <1>1, <1>2, <1>3, <1>4 DEF Sound, OwnInv, Known, Loses, KnownSay, LosesTells, LosesOpen, SessionTyped,
     PiTyped, Real, PipesTyped, RtTyped, Believed, ActTyped, WaitTyped, Waits, PcTyped, CountTyped
<1>12. RejectsInv'
  BY <1>1, <1>2, <1>3, <1>4 DEF Sound, RejectsInv, AheadOf, Callers, Known, Loses, KnownOf, LosesTells,
     LosesBefore, SessionTyped, PiTyped, Real, PipesTyped, RtTyped, Believed, ActTyped, WaitTyped, Waits,
     PcTyped, CountTyped
<1>13. ReapsInv'
  BY <1>1, <1>2, <1>3, <1>4 DEF Sound, ReapsInv, AheadOf, OnWay, Callers, Known, Loses, KnownOf, LosesTells,
     LosesBefore, SessionTyped, PiTyped, Real, PipesTyped, RtTyped, Believed, ActTyped, WaitTyped, Waits,
     PcTyped, CountTyped
<1> QED
  BY <1>5, <1>6, <1>7, <1>8, <1>9, <1>10, <1>11, <1>12, <1>13 DEF Sound

\* A prompt starts its run.
LEMMA PromptStartsStep ==
  ASSUME SessionTyped, Sound, Receive, PromptStarts
  PROVE  SessionTyped' /\ Sound'
<1>1. /\ ~ended /\ down[1] \in Commands /\ down' \in Seq(Commands) /\ up' \in Seq(Messages) /\ Loses(down, down')
      /\ UNCHANGED <<rt, act, wait, pc, ended, times>>
  BY Received DEF SessionTyped
<1>2. /\ Known(down[1])
      /\ down[1].kind = "get_state" => down[1].by \in Callers
      /\ down[1].kind = "prompt" => down[1].by = "work"
      /\ down[1].kind = "clear_queue" => down[1].by \in {"stop", "reject"}
      /\ down[1].kind = "abort" => down[1].by \in {"stop", "reject", "reap"}
  BY <1>1, CommandKinds
<1>3. PICK m \in Messages, e \in Messages :
        m.kind = "started" /\ m.by = "work" /\ e.kind = "start" /\ e.by = "pi" /\ GainsTwo(up, up', m, e)
  BY DEF PromptStarts
<1>4. down[1].kind = "prompt" /\ pi.run = "none" /\ ~pi.comp /\ pi' = Started(pi) /\ hit' = hit
  BY DEF PromptStarts
<1>5. Known(m) /\ Known(e)
  BY <1>3, MessageKinds
<1>6. pi'.run = "own" /\ pi'.at = "turn" /\ ~pi'.comp /\ ~pi'.held
  BY <1>4 DEF SessionTyped, PiTyped, Real, Started
<1>7. pc.work = "prompt" /\ rt.pending
  BY <1>1, <1>2, <1>4 DEF Sound, LineInv, CallersInv, OnWay, Loses, LosesTells, Known, KnownFor
<1>8. SessionTyped'
  <2>1. PiTyped'
    BY <1>1, <1>2, <1>3, <1>4, <1>5, <1>6, <1>7 DEF SessionTyped, PiTyped, Real, Started
  <2>2. PipesTyped'
    BY <1>1, <1>2, <1>3, <1>4, <1>5, <1>6, <1>7 DEF SessionTyped, PipesTyped, Started
  <2>3. CountTyped'
    BY <1>1, <1>2, <1>3, <1>4, <1>5, <1>6, <1>7 DEF SessionTyped, CountTyped, Started
  <2>4. RtTyped' /\ ActTyped' /\ WaitTyped' /\ PcTyped'
    BY <1>1, <1>2, <1>3, <1>4, <1>5, <1>6, <1>7 DEF SessionTyped, Started, RtTyped, ActTyped, WaitTyped, PcTyped
  <2> QED
    BY <2>1, <2>2, <2>3, <2>4 DEF SessionTyped
<1>9. LineInv'
  BY <1>1, <1>2, <1>3, <1>4, <1>5, <1>6, <1>7 DEF Sound, LineInv, OnWay, Alone, Callers, Known, GainsTwo, Loses,
     KnownOf, KnownFor, GainsTwoTells, GainsTwoOnce, LosesTells, LosesOnce, SessionTyped, PiTyped, Real,
     PipesTyped, RtTyped, Believed, ActTyped, WaitTyped, Waits, PcTyped, CountTyped, Started
<1>10. CallersInv'
  BY <1>1, <1>2, <1>3, <1>4, <1>5, <1>6, <1>7 DEF Sound, CallersInv, Callers, SessionTyped, PiTyped, Real,
     PipesTyped, RtTyped, Believed, ActTyped, WaitTyped, Waits, PcTyped, CountTyped, Started
<1>11. ToldInv'
  <2>1. /\ Tells(up', Say({"settled"})) <=> Tells(up, Say({"settled"}))
        /\ Tells(up', Say({"cend"})) <=> Tells(up, Say({"cend"}))
        /\ Tells(up', Say({"started"}))
        /\ Open(up', Say({"start"}), Say({"settled"}))
        /\ Open(up', Say({"start", "retry"}), Say({"settled"}))
        /\ Open(up', Say({"cstart"}), Say({"cend"})) <=> Open(up, Say({"cstart"}), Say({"cend"}))
    BY <1>1, <1>2, <1>3, <1>4, <1>5, <1>6, <1>7 DEF Known, KnownSay, GainsTwo, GainsTwoTells, GainsTwoOpen,
       Callers
  <2> QED
    BY <1>1, <1>2, <1>3, <1>4, <1>5, <1>6, <1>7, <2>1 DEF Sound, ToldInv, Unanswered, SessionTyped, PiTyped,
       Real, PipesTyped, RtTyped, Believed, ActTyped, WaitTyped, Waits, PcTyped, CountTyped
<1>12. AskedInv'
  BY <1>1, <1>2, <1>3, <1>4, <1>5, <1>6, <1>7 DEF Sound, AskedInv, Reason, Callers, Known, GainsTwo, Loses,
     KnownSay, KnownSeen, GainsTwoTells, GainsTwoOpen, LosesTells, LosesOpen, SessionTyped, PiTyped, Real,
     PipesTyped, RtTyped, Believed, ActTyped, WaitTyped, Waits, PcTyped, CountTyped, Started
<1>13. StoppedInv'
  <2>1. /\ Tells(up', Of("stop")) <=> Tells(up, Of("stop"))
        /\ Tells(up', Say({"started"}))
        /\ First(up', Events, Of("stop")) <=> (First(up, Events, Of("stop")) \/ ~Tells(up, Of("stop")))
        /\ Open(up', Say({"started"}), Of("stop"))
    BY <1>1, <1>2, <1>3, <1>4, <1>5, <1>6, <1>7 DEF Known, KnownOf, KnownSay, GainsTwo, GainsTwoTells,
       GainsTwoOpen, GainsTwoFirst, Callers
  <2> QED
    BY <1>1, <1>2, <1>3, <1>4, <1>5, <1>6, <1>7, <2>1 DEF Sound, StoppedInv, Callers, SessionTyped, PiTyped,
       Real, PipesTyped, RtTyped, Believed, ActTyped, WaitTyped, Waits, PcTyped, CountTyped
<1>14. OwnInv'
  <2>1. /\ Tells(up', Say({"settled"})) <=> Tells(up, Say({"settled"}))
        /\ Open(up', Say({"started"}), Say({"settled"}))
    BY <1>1, <1>2, <1>3, <1>4, <1>5, <1>6, <1>7 DEF Known, KnownSay, GainsTwo, GainsTwoTells, GainsTwoOpen,
       Callers
  <2> QED
    BY <1>1, <1>2, <1>3, <1>4, <1>5, <1>6, <1>7, <2>1 DEF Sound, OwnInv, SessionTyped, PiTyped, Real,
       PipesTyped, RtTyped, Believed, ActTyped, WaitTyped, Waits, PcTyped, CountTyped
<1>15. RejectsInv'
  BY <1>1, <1>2, <1>3, <1>4, <1>5, <1>6, <1>7 DEF Sound, RejectsInv, AheadOf, Callers, Known, GainsTwo, Loses,
     KnownOf, GainsTwoTells, GainsTwoBefore, LosesTells, LosesBefore, SessionTyped, PiTyped, Real, PipesTyped,
     RtTyped, Believed, ActTyped, WaitTyped, Waits, PcTyped, CountTyped, Started
<1>16. ReapsInv'
  BY <1>1, <1>2, <1>3, <1>4, <1>5, <1>6, <1>7 DEF Sound, ReapsInv, AheadOf, OnWay, Callers, Known, GainsTwo,
     Loses, KnownOf, GainsTwoTells, GainsTwoBefore, LosesTells, LosesBefore, SessionTyped, PiTyped, Real,
     PipesTyped, RtTyped, Believed, ActTyped, WaitTyped, Waits, PcTyped, CountTyped, Started
<1> QED
  BY <1>8, <1>9, <1>10, <1>11, <1>12, <1>13, <1>14, <1>15, <1>16 DEF Sound

\* Pi aborts whatever there is.
LEMMA AbortAnsweredStep ==
  ASSUME SessionTyped, Sound, Receive, AbortAnswered
  PROVE  SessionTyped' /\ Sound'
<1>1. /\ ~ended /\ down[1] \in Commands /\ down' \in Seq(Commands) /\ up' \in Seq(Messages) /\ Loses(down, down')
      /\ UNCHANGED <<rt, act, wait, pc, ended, times>>
  BY Received DEF SessionTyped
<1>2. /\ Known(down[1])
      /\ down[1].kind = "get_state" => down[1].by \in Callers
      /\ down[1].kind = "prompt" => down[1].by = "work"
      /\ down[1].kind = "clear_queue" => down[1].by \in {"stop", "reject"}
      /\ down[1].kind = "abort" => down[1].by \in {"stop", "reject", "reap"}
  BY <1>1, CommandKinds
<1>3. PICK m \in Messages : m.kind = "aborted" /\ m.by = down[1].by /\ Joins(up, Closing, up', m)
  BY DEF AbortAnswered
<1>4. /\ down[1].kind = "abort" /\ pi' = Idle
      /\ hit' = IF pi.run = "own" /\ act.on /\ down[1].by # "stop" THEN down[1].by ELSE hit
  BY DEF AbortAnswered
<1>5. Known(m)
  BY <1>3, MessageKinds
<1>6. pi'.run = "none" /\ pi'.at = "idle" /\ ~pi'.comp /\ ~pi'.held
  BY <1>4 DEF Idle
<1>7. pi.held => pc.work = "prompt"
  BY DEF Sound, LineInv
<1>8. SessionTyped'
  <2>1. PiTyped'
    BY <1>1, <1>2, <1>3, <1>4, <1>5, <1>6, <1>7 DEF SessionTyped, PiTyped, Real, Idle
  <2>2. PipesTyped'
    BY <1>1, <1>2, <1>3, <1>4, <1>5, <1>6, <1>7 DEF SessionTyped, PipesTyped, Idle
  <2>3. CountTyped'
    BY <1>1, <1>2, <1>3, <1>4, <1>5, <1>6, <1>7 DEF SessionTyped, CountTyped, Idle
  <2>4. RtTyped' /\ ActTyped' /\ WaitTyped' /\ PcTyped'
    BY <1>1, <1>2, <1>3, <1>4, <1>5, <1>6, <1>7 DEF SessionTyped, Idle, RtTyped, ActTyped, WaitTyped, PcTyped
  <2> QED
    BY <2>1, <2>2, <2>3, <2>4 DEF SessionTyped
<1>9. LineInv'
  <2>1. /\ Tells(up', Of("work")) <=> (Tells(up, Of("work")) \/ pi.held \/ m.by = "work")
        /\ Tells(up', Of("stop")) <=> (Tells(up, Of("stop")) \/ m.by = "stop")
        /\ Tells(up', Of("reject")) <=> (Tells(up, Of("reject")) \/ m.by = "reject")
        /\ Tells(up', Asking("work")) <=> Tells(up, Asking("work"))
        /\ Tells(up', Asking("stop")) <=> Tells(up, Asking("stop"))
        /\ Tells(up', Prompting) <=> (Tells(up, Prompting) \/ pi.held)
        /\ Tells(up', ClearsBy("stop")) <=> Tells(up, ClearsBy("stop"))
        /\ Tells(up', ClearsBy("reject")) <=> Tells(up, ClearsBy("reject"))
        /\ Tells(up', AbortsBy("stop")) <=> (Tells(up, AbortsBy("stop")) \/ m.by = "stop")
        /\ Tells(up', AbortsBy("reject")) <=> (Tells(up, AbortsBy("reject")) \/ m.by = "reject")
        /\ Once(up, Of("work")) /\ (~((Tells(up, Of("work")) /\ pi.held)) /\ ~((Tells(up, Of("work")) /\ m.by = "work"))) =>
             Once(up', Of("work"))
        /\ Once(up, Of("stop")) /\ ~((Tells(up, Of("stop")) /\ m.by = "stop")) => Once(up', Of("stop"))
        /\ Once(up, Of("reject")) /\ ~((Tells(up, Of("reject")) /\ m.by = "reject")) => Once(up', Of("reject"))
    BY <1>1, <1>2, <1>3, <1>4, <1>5, <1>6, <1>7, ClosingTells, ClosingFacts DEF Known, KnownOf, KnownFor,
       Joins, JoinsTells, JoinsOnce, Callers
  <2> QED
    BY <1>1, <1>2, <1>3, <1>4, <1>5, <1>6, <1>7, <2>1 DEF Sound, LineInv, Known, KnownOf, KnownFor, Loses,
       LosesTells, LosesOnce, OnWay, Alone, Callers, SessionTyped, PiTyped, Real, PipesTyped, RtTyped,
       Believed, ActTyped, WaitTyped, Waits, PcTyped, CountTyped
<1>10. CallersInv'
  BY <1>1, <1>2, <1>3, <1>4, <1>5, <1>6, <1>7 DEF Sound, CallersInv, Callers, SessionTyped, PiTyped, Real,
     PipesTyped, RtTyped, Believed, ActTyped, WaitTyped, Waits, PcTyped, CountTyped, Idle
<1>11. ToldInv'
  <2>1. /\ Tells(up', Say({"settled"})) <=> (Tells(up, Say({"settled"})) \/ pi.run # "none")
        /\ Tells(up', Say({"cend"})) <=> (Tells(up, Say({"cend"})) \/ pi.comp)
        /\ Tells(up', Say({"started"})) <=> Tells(up, Say({"started"}))
        /\ Open(up', Say({"start"}), Say({"settled"})) <=>
             (Open(up, Say({"start"}), Say({"settled"})) /\ ~(pi.run # "none"))
        /\ Open(up', Say({"start", "retry"}), Say({"settled"})) <=>
             (Open(up, Say({"start", "retry"}), Say({"settled"})) /\ ~(pi.run # "none"))
        /\ Open(up', Say({"cstart"}), Say({"cend"})) <=> (Open(up, Say({"cstart"}), Say({"cend"})) /\ ~(pi.comp))
    BY <1>1, <1>2, <1>3, <1>4, <1>5, <1>6, <1>7, ClosingTells, ClosingFacts DEF Known, KnownSay, Joins,
       JoinsTells, JoinsOpen, Callers
  <2> QED
    BY <1>1, <1>2, <1>3, <1>4, <1>5, <1>6, <1>7, <2>1 DEF Sound, ToldInv, Unanswered, SessionTyped, PiTyped,
       Real, PipesTyped, RtTyped, Believed, ActTyped, WaitTyped, Waits, PcTyped, CountTyped
<1>12. AskedInv'
  <2>1. /\ Tells(up', Say({"settled"})) <=> (Tells(up, Say({"settled"})) \/ pi.run # "none")
        /\ Tells(up', Say({"cend"})) <=> (Tells(up, Say({"cend"})) \/ pi.comp)
        /\ Tells(up', Say({"settled", "cend"})) <=>
             (Tells(up, Say({"settled", "cend"})) \/ (pi.run # "none" \/ pi.comp))
        /\ Open(up', Seeing("run"), Say({"settled"})) <=>
             (Open(up, Seeing("run"), Say({"settled"})) /\ ~(pi.run # "none"))
        /\ Open(up', Seeing("comp"), Say({"cend"})) <=> (Open(up, Seeing("comp"), Say({"cend"})) /\ ~(pi.comp))
    BY <1>1, <1>2, <1>3, <1>4, <1>5, <1>6, <1>7, ClosingTells, ClosingFacts DEF Known, KnownSay, KnownSeen,
       Joins, JoinsTells, JoinsOpen, Callers
  <2> QED
    BY <1>1, <1>2, <1>3, <1>4, <1>5, <1>6, <1>7, <2>1 DEF Sound, AskedInv, Reason, Callers, SessionTyped,
       PiTyped, Real, PipesTyped, RtTyped, Believed, ActTyped, WaitTyped, Waits, PcTyped, CountTyped
<1>13. StoppedInv'
  BY <1>1, <1>2, <1>3, <1>4, <1>5, <1>6, <1>7 DEF Sound, StoppedInv, Callers, Known, Joins, Loses, KnownOf,
     KnownSay, JoinsTells, JoinsOpen, LosesTells, LosesOpen, LosesFirst, SessionTyped, PiTyped, Real,
     PipesTyped, RtTyped, Believed, ActTyped, WaitTyped, Waits, PcTyped, CountTyped, Idle
<1>14. OwnInv'
  <2>1. /\ Tells(up', Say({"settled"})) <=> (Tells(up, Say({"settled"})) \/ pi.run # "none")
        /\ Open(up', Say({"started"}), Say({"settled"})) <=>
             (Open(up, Say({"started"}), Say({"settled"})) /\ ~(pi.run # "none"))
    BY <1>1, <1>2, <1>3, <1>4, <1>5, <1>6, <1>7, ClosingTells, ClosingFacts DEF Known, KnownSay, Joins,
       JoinsTells, JoinsOpen, Callers
  <2> QED
    BY <1>1, <1>2, <1>3, <1>4, <1>5, <1>6, <1>7, <2>1 DEF Sound, OwnInv, SessionTyped, PiTyped, Real,
       PipesTyped, RtTyped, Believed, ActTyped, WaitTyped, Waits, PcTyped, CountTyped
<1>15. RejectsInv'
  <2>1. /\ Tells(up', Of("work")) <=> (Tells(up, Of("work")) \/ pi.held \/ m.by = "work")
        /\ Tells(up', Of("reject")) <=> (Tells(up, Of("reject")) \/ m.by = "reject")
        /\ Before(up, Of("reject"), Of("work")) /\ ~((m.by = "reject" /\ (Tells(up, Of("work")) \/ pi.held))) =>
             Before(up', Of("reject"), Of("work"))
    BY <1>1, <1>2, <1>3, <1>4, <1>5, <1>6, <1>7, ClosingTells, ClosingFacts DEF Known, KnownOf, Joins,
       JoinsTells, JoinsBefore, Callers
  <2> QED
    BY <1>1, <1>2, <1>3, <1>4, <1>5, <1>6, <1>7, <2>1 DEF Sound, RejectsInv, Known, KnownOf, Loses,
       LosesTells, LosesBefore, AheadOf, Callers, SessionTyped, PiTyped, Real, PipesTyped, RtTyped, Believed,
       ActTyped, WaitTyped, Waits, PcTyped, CountTyped
<1>16. ReapsInv'
  <2>1. /\ Tells(up', Of("work")) <=> (Tells(up, Of("work")) \/ pi.held \/ m.by = "work")
        /\ Tells(up', Of("reap")) <=> (Tells(up, Of("reap")) \/ m.by = "reap")
        /\ Before(up, Of("reap"), Of("work")) /\ ~((m.by = "reap" /\ (Tells(up, Of("work")) \/ pi.held))) =>
             Before(up', Of("reap"), Of("work"))
    BY <1>1, <1>2, <1>3, <1>4, <1>5, <1>6, <1>7, ClosingTells, ClosingFacts DEF Known, KnownOf, Joins,
       JoinsTells, JoinsBefore, Callers
  <2> QED
    BY <1>1, <1>2, <1>3, <1>4, <1>5, <1>6, <1>7, <2>1 DEF Sound, ReapsInv, Known, KnownOf, Loses, LosesTells,
       LosesBefore, AheadOf, OnWay, Callers, SessionTyped, PiTyped, Real, PipesTyped, RtTyped, Believed,
       ActTyped, WaitTyped, Waits, PcTyped, CountTyped
<1> QED
  BY <1>8, <1>9, <1>10, <1>11, <1>12, <1>13, <1>14, <1>15, <1>16 DEF Sound

\* The stop's clearing of the queue was answered: it aborts.
LEMMA ClearedStep ==
  ASSUME SessionTyped, Sound, Cleared
  PROVE  SessionTyped' /\ Sound'
<1>1. /\ pc' = [pc EXCEPT !.stop = "abort"]
      /\ down' = Append(down, Command("abort", "stop"))
  BY DEF Cleared, ToStop
<1>2. /\ Command("abort", "stop") \in Commands /\ Command("abort", "stop").kind = "abort"
      /\ Command("abort", "stop").by = "stop"
  BY CommandFact
<1>3. Known(Command("abort", "stop"))
  BY <1>2, CommandKinds
<1>4. down' \in Seq(Commands) /\ Gains(down, down', Command("abort", "stop"))
  BY <1>1, <1>2, Appended DEF SessionTyped, PipesTyped
<1>5. /\ pc' \in [work : {"off", "wait", "probe", "prepared", "load", "state", "prompt", "started", "refused"},
                  stop : {"off", "grace", "clear", "clear+", "abort", "abort+", "idle"}]
      /\ pc'.work = pc.work /\ pc'.stop = "abort"
  BY <1>1 DEF SessionTyped, PcTyped, ActTyped
<1>6. /\ ~ended /\ pc.stop = "clear+"
      /\ UNCHANGED <<up, pi, ended, hit, rt, wait, act, times>>
  BY DEF Cleared, ToStop
<1>7. ~OnWay(Of("stop"))
  BY <1>6, NobodyAsks DEF Sound, LineInv, CallersInv, SessionTyped, Callers
<1>8. SessionTyped'
  <2>1. PipesTyped'
    BY <1>2, <1>3, <1>4, <1>5, <1>6, <1>7 DEF SessionTyped, PipesTyped
  <2>2. PcTyped'
    BY <1>2, <1>3, <1>4, <1>5, <1>6, <1>7 DEF SessionTyped, PcTyped
  <2>3. PiTyped' /\ RtTyped' /\ ActTyped' /\ WaitTyped' /\ CountTyped'
    BY <1>2, <1>3, <1>4, <1>5, <1>6, <1>7 DEF SessionTyped, PiTyped, RtTyped, ActTyped, WaitTyped, CountTyped
  <2> QED
    BY <2>1, <2>2, <2>3 DEF SessionTyped
<1>9. LineInv'
  <2>1. /\ Tells(down', Of("work")) <=> Tells(down, Of("work"))
        /\ Tells(down', Of("stop"))
        /\ Tells(down', Of("reject")) <=> Tells(down, Of("reject"))
        /\ Tells(down', Asking("work")) <=> Tells(down, Asking("work"))
        /\ Tells(down', Asking("stop")) <=> Tells(down, Asking("stop"))
        /\ Tells(down', Prompting) <=> Tells(down, Prompting)
        /\ Tells(down', ClearsBy("stop")) <=> Tells(down, ClearsBy("stop"))
        /\ Tells(down', ClearsBy("reject")) <=> Tells(down, ClearsBy("reject"))
        /\ Tells(down', AbortsBy("stop"))
        /\ Tells(down', AbortsBy("reject")) <=> Tells(down, AbortsBy("reject"))
        /\ Once(down, Of("work")) => Once(down', Of("work"))
        /\ Once(down, Of("stop")) /\ ~(Tells(down, Of("stop"))) => Once(down', Of("stop"))
        /\ Once(down, Of("reject")) => Once(down', Of("reject"))
    BY <1>2, <1>3, <1>4, <1>5, <1>6, <1>7 DEF Known, KnownOf, KnownFor, Gains, GainsTells, GainsOnce, Callers
  <2> QED
    BY <1>2, <1>3, <1>4, <1>5, <1>6, <1>7, <2>1 DEF Sound, LineInv, OnWay, Alone, Callers, SessionTyped,
       PiTyped, Real, PipesTyped, RtTyped, Believed, ActTyped, WaitTyped, Waits, PcTyped, CountTyped
<1>10. CallersInv'
  BY <1>2, <1>3, <1>4, <1>5, <1>6, <1>7 DEF Sound, CallersInv, Callers, SessionTyped, PiTyped, Real, PipesTyped,
     RtTyped, Believed, ActTyped, WaitTyped, Waits, PcTyped, CountTyped
<1>11. ToldInv'
  BY <1>2, <1>3, <1>4, <1>5, <1>6, <1>7 DEF Sound, ToldInv, Unanswered, SessionTyped, PiTyped, Real, PipesTyped,
     RtTyped, Believed, ActTyped, WaitTyped, Waits, PcTyped, CountTyped
<1>12. AskedInv'
  BY <1>2, <1>3, <1>4, <1>5, <1>6, <1>7 DEF Sound, AskedInv, Reason, Callers, SessionTyped, PiTyped, Real,
     PipesTyped, RtTyped, Believed, ActTyped, WaitTyped, Waits, PcTyped, CountTyped
<1>13. StoppedInv'
  BY <1>2, <1>3, <1>4, <1>5, <1>6, <1>7 DEF Sound, StoppedInv, Callers, SessionTyped, PiTyped, Real, PipesTyped,
     RtTyped, Believed, ActTyped, WaitTyped, Waits, PcTyped, CountTyped
<1>14. OwnInv'
  BY <1>2, <1>3, <1>4, <1>5, <1>6, <1>7 DEF Sound, OwnInv, SessionTyped, PiTyped, Real, PipesTyped, RtTyped,
     Believed, ActTyped, WaitTyped, Waits, PcTyped, CountTyped
<1>15. RejectsInv'
  <2>1. /\ Tells(down', Of("work")) <=> Tells(down, Of("work"))
        /\ Tells(down', Of("reject")) <=> Tells(down, Of("reject"))
        /\ Before(down, Of("reject"), Of("work")) => Before(down', Of("reject"), Of("work"))
    BY <1>2, <1>3, <1>4, <1>5, <1>6, <1>7 DEF Known, KnownOf, Gains, GainsTells, GainsBefore, Callers
  <2> QED
    BY <1>2, <1>3, <1>4, <1>5, <1>6, <1>7, <2>1 DEF Sound, RejectsInv, AheadOf, Callers, SessionTyped,
       PiTyped, Real, PipesTyped, RtTyped, Believed, ActTyped, WaitTyped, Waits, PcTyped, CountTyped
<1>16. ReapsInv'
  <2>1. /\ Tells(down', Of("work")) <=> Tells(down, Of("work"))
        /\ Tells(down', Of("reap")) <=> Tells(down, Of("reap"))
        /\ Before(down, Of("reap"), Of("work")) => Before(down', Of("reap"), Of("work"))
    BY <1>2, <1>3, <1>4, <1>5, <1>6, <1>7 DEF Known, KnownOf, Gains, GainsTells, GainsBefore, Callers
  <2> QED
    BY <1>2, <1>3, <1>4, <1>5, <1>6, <1>7, <2>1 DEF Sound, ReapsInv, AheadOf, OnWay, Callers, SessionTyped,
       PiTyped, Real, PipesTyped, RtTyped, Believed, ActTyped, WaitTyped, Waits, PcTyped, CountTyped
<1> QED
  BY <1>8, <1>9, <1>10, <1>11, <1>12, <1>13, <1>14, <1>15, <1>16 DEF Sound

\* The stop's abort was answered: it waits for true idle.
LEMMA AbortedStep ==
  ASSUME SessionTyped, Sound, Aborted
  PROVE  SessionTyped' /\ Sound'
<1>1. /\ pc' = [pc EXCEPT !.stop = "idle"]
      /\ wait' = Listen
  BY DEF Aborted, ToStop
<1>2. /\ pc' \in [work : {"off", "wait", "probe", "prepared", "load", "state", "prompt", "started", "refused"},
                  stop : {"off", "grace", "clear", "clear+", "abort", "abort+", "idle"}]
      /\ pc'.work = pc.work /\ pc'.stop = "idle"
  BY <1>1 DEF SessionTyped, PcTyped, ActTyped
<1>3. /\ wait' \in [Callers -> Waits]
      /\ wait'["stop"].at = "look" /\ ~wait'["stop"].clean /\ wait'["stop"].seen = {} /\ ~wait'["stop"].woken
      /\ wait'["work"].at = wait["work"].at /\ wait'["work"].clean = wait["work"].clean
      /\ wait'["work"].seen = wait["work"].seen /\ wait'["work"].woken = wait["work"].woken
  BY <1>1 DEF SessionTyped, WaitTyped, Waits, Callers, NoWait, Listen
<1>4. /\ ~ended /\ pc.stop = "abort+"
      /\ UNCHANGED <<up, pi, ended, hit, rt, act, down, times>>
  BY DEF Aborted, ToStop
<1>5. SessionTyped'
  <2>1. WaitTyped'
    BY <1>2, <1>3, <1>4 DEF SessionTyped, WaitTyped, Waits
  <2>2. PcTyped'
    BY <1>2, <1>3, <1>4 DEF SessionTyped, PcTyped
  <2>3. PiTyped' /\ PipesTyped' /\ RtTyped' /\ ActTyped' /\ CountTyped'
    BY <1>2, <1>3, <1>4 DEF SessionTyped, PiTyped, PipesTyped, RtTyped, ActTyped, CountTyped
  <2> QED
    BY <2>1, <2>2, <2>3 DEF SessionTyped
<1>6. LineInv'
  BY <1>2, <1>3, <1>4 DEF Sound, LineInv, CallersInv, OnWay, Alone, Callers, SessionTyped, PiTyped, Real,
     PipesTyped, RtTyped, Believed, ActTyped, WaitTyped, Waits, PcTyped, CountTyped
<1>7. CallersInv'
  BY <1>2, <1>3, <1>4 DEF Sound, CallersInv, Callers, SessionTyped, PiTyped, Real, PipesTyped, RtTyped,
     Believed, ActTyped, WaitTyped, Waits, PcTyped, CountTyped
<1>8. ToldInv'
  BY <1>2, <1>3, <1>4 DEF Sound, ToldInv, Unanswered, SessionTyped, PiTyped, Real, PipesTyped, RtTyped,
     Believed, ActTyped, WaitTyped, Waits, PcTyped, CountTyped
<1>9. AskedInv'
  BY <1>2, <1>3, <1>4 DEF Sound, AskedInv, Reason, Callers, SessionTyped, PiTyped, Real, PipesTyped, RtTyped,
     Believed, ActTyped, WaitTyped, Waits, PcTyped, CountTyped
<1>10. StoppedInv'
  BY <1>2, <1>3, <1>4 DEF Sound, StoppedInv, Callers, SessionTyped, PiTyped, Real, PipesTyped, RtTyped,
     Believed, ActTyped, WaitTyped, Waits, PcTyped, CountTyped
<1>11. OwnInv'
  BY <1>2, <1>3, <1>4 DEF Sound, OwnInv, SessionTyped, PiTyped, Real, PipesTyped, RtTyped, Believed, ActTyped,
     WaitTyped, Waits, PcTyped, CountTyped
<1>12. RejectsInv'
  BY <1>2, <1>3, <1>4 DEF Sound, RejectsInv, AheadOf, Callers, SessionTyped, PiTyped, Real, PipesTyped, RtTyped,
     Believed, ActTyped, WaitTyped, Waits, PcTyped, CountTyped
<1>13. ReapsInv'
  BY <1>2, <1>3, <1>4 DEF Sound, ReapsInv, AheadOf, OnWay, Callers, SessionTyped, PiTyped, Real, PipesTyped,
     RtTyped, Believed, ActTyped, WaitTyped, Waits, PcTyped, CountTyped
<1> QED
  BY <1>5, <1>6, <1>7, <1>8, <1>9, <1>10, <1>11, <1>12, <1>13 DEF Sound

\* The stop is over.
LEMMA StoppedStep ==
  ASSUME SessionTyped, Sound, Stopped
  PROVE  SessionTyped' /\ Sound'
<1>1. /\ pc' = [pc EXCEPT !.stop = "off"]
      /\ wait' = [Woken(wait) EXCEPT !["stop"] = NoWait]
  BY DEF Stopped, ToStop
<1>2. /\ pc' \in [work : {"off", "wait", "probe", "prepared", "load", "state", "prompt", "started", "refused"},
                  stop : {"off", "grace", "clear", "clear+", "abort", "abort+", "idle"}]
      /\ pc'.work = pc.work /\ pc'.stop = "off"
  BY <1>1 DEF SessionTyped, PcTyped, ActTyped
<1>3. /\ wait' \in [Callers -> Waits]
      /\ wait'["stop"].at = "off" /\ ~wait'["stop"].clean /\ wait'["stop"].seen = {} /\ ~wait'["stop"].woken
      /\ wait'["work"].at = wait["work"].at /\ wait'["work"].clean = wait["work"].clean
      /\ wait'["work"].seen = wait["work"].seen /\ wait'["work"].woken
  BY <1>1 DEF SessionTyped, WaitTyped, Waits, Callers, NoWait, Woken
<1>4. /\ ~ended /\ pc.stop \in {"grace", "idle"} /\ wait["stop"].at = "done"
      /\ UNCHANGED <<up, pi, ended, hit, rt, act, down, times>>
  BY DEF Stopped, ToStop
<1>5. SessionTyped'
  <2>1. WaitTyped'
    BY <1>2, <1>3, <1>4 DEF SessionTyped, WaitTyped, Waits
  <2>2. PcTyped'
    BY <1>2, <1>3, <1>4 DEF SessionTyped, PcTyped
  <2>3. PiTyped' /\ PipesTyped' /\ RtTyped' /\ ActTyped' /\ CountTyped'
    BY <1>2, <1>3, <1>4 DEF SessionTyped, PiTyped, PipesTyped, RtTyped, ActTyped, CountTyped
  <2> QED
    BY <2>1, <2>2, <2>3 DEF SessionTyped
<1>6. LineInv'
  BY <1>2, <1>3, <1>4 DEF Sound, LineInv, OnWay, Alone, Callers, SessionTyped, PiTyped, Real, PipesTyped,
     RtTyped, Believed, ActTyped, WaitTyped, Waits, PcTyped, CountTyped
<1>7. CallersInv'
  BY <1>2, <1>3, <1>4 DEF Sound, CallersInv, Callers, SessionTyped, PiTyped, Real, PipesTyped, RtTyped,
     Believed, ActTyped, WaitTyped, Waits, PcTyped, CountTyped
<1>8. ToldInv'
  BY <1>2, <1>3, <1>4 DEF Sound, ToldInv, Unanswered, SessionTyped, PiTyped, Real, PipesTyped, RtTyped,
     Believed, ActTyped, WaitTyped, Waits, PcTyped, CountTyped
<1>9. AskedInv'
  BY <1>2, <1>3, <1>4 DEF Sound, AskedInv, Reason, Callers, SessionTyped, PiTyped, Real, PipesTyped, RtTyped,
     Believed, ActTyped, WaitTyped, Waits, PcTyped, CountTyped
<1>10. StoppedInv'
  BY <1>2, <1>3, <1>4 DEF Sound, StoppedInv, Callers, SessionTyped, PiTyped, Real, PipesTyped, RtTyped,
     Believed, ActTyped, WaitTyped, Waits, PcTyped, CountTyped
<1>11. OwnInv'
  BY <1>2, <1>3, <1>4 DEF Sound, OwnInv, StoppedInv, CallersInv, SessionTyped, PiTyped, Real, PipesTyped,
     RtTyped, Believed, ActTyped, WaitTyped, Waits, PcTyped, CountTyped
<1>12. RejectsInv'
  BY <1>2, <1>3, <1>4 DEF Sound, RejectsInv, AheadOf, Callers, SessionTyped, PiTyped, Real, PipesTyped, RtTyped,
     Believed, ActTyped, WaitTyped, Waits, PcTyped, CountTyped
<1>13. ReapsInv'
  BY <1>2, <1>3, <1>4 DEF Sound, ReapsInv, AheadOf, OnWay, Callers, SessionTyped, PiTyped, Real, PipesTyped,
     RtTyped, Believed, ActTyped, WaitTyped, Waits, PcTyped, CountTyped
<1> QED
  BY <1>5, <1>6, <1>7, <1>8, <1>9, <1>10, <1>11, <1>12, <1>13 DEF Sound

\* The grace is over.
LEMMA GraceOverStep ==
  ASSUME SessionTyped, Sound, GraceOver
  PROVE  SessionTyped' /\ Sound'
<1>1. /\ pc' = [pc EXCEPT !.stop = "clear"]
      /\ wait' = [wait EXCEPT !["stop"] = NoWait]
      /\ down' = Append(down, Command("clear_queue", "stop"))
  BY DEF GraceOver, ToStop
<1>2. /\ Command("clear_queue", "stop") \in Commands /\ Command("clear_queue", "stop").kind = "clear_queue"
      /\ Command("clear_queue", "stop").by = "stop"
  BY CommandFact
<1>3. Known(Command("clear_queue", "stop"))
  BY <1>2, CommandKinds
<1>4. down' \in Seq(Commands) /\ Gains(down, down', Command("clear_queue", "stop"))
  BY <1>1, <1>2, Appended DEF SessionTyped, PipesTyped
<1>5. /\ pc' \in [work : {"off", "wait", "probe", "prepared", "load", "state", "prompt", "started", "refused"},
                  stop : {"off", "grace", "clear", "clear+", "abort", "abort+", "idle"}]
      /\ pc'.work = pc.work /\ pc'.stop = "clear"
  BY <1>1 DEF SessionTyped, PcTyped, ActTyped
<1>6. /\ wait' \in [Callers -> Waits]
      /\ wait'["stop"].at = "off" /\ ~wait'["stop"].clean /\ wait'["stop"].seen = {} /\ ~wait'["stop"].woken
      /\ wait'["work"].at = wait["work"].at /\ wait'["work"].clean = wait["work"].clean
      /\ wait'["work"].seen = wait["work"].seen /\ wait'["work"].woken = wait["work"].woken
  BY <1>1 DEF SessionTyped, WaitTyped, Waits, Callers, NoWait
<1>7. /\ ~ended /\ pc.stop = "grace" /\ wait["stop"].at = "sleep"
      /\ UNCHANGED <<up, pi, ended, hit, rt, act, times>>
  BY DEF GraceOver, ToStop
<1>8. ~OnWay(Of("stop"))
  BY <1>7, NobodyAsks DEF Sound, LineInv, CallersInv, SessionTyped, Callers
<1>9. SessionTyped'
  <2>1. PipesTyped'
    BY <1>2, <1>3, <1>4, <1>5, <1>6, <1>7, <1>8 DEF SessionTyped, PipesTyped
  <2>2. WaitTyped'
    BY <1>2, <1>3, <1>4, <1>5, <1>6, <1>7, <1>8 DEF SessionTyped, WaitTyped, Waits
  <2>3. PcTyped'
    BY <1>2, <1>3, <1>4, <1>5, <1>6, <1>7, <1>8 DEF SessionTyped, PcTyped
  <2>4. PiTyped' /\ RtTyped' /\ ActTyped' /\ CountTyped'
    BY <1>2, <1>3, <1>4, <1>5, <1>6, <1>7, <1>8 DEF SessionTyped, PiTyped, RtTyped, ActTyped, CountTyped
  <2> QED
    BY <2>1, <2>2, <2>3, <2>4 DEF SessionTyped
<1>10. LineInv'
  <2>1. /\ Tells(down', Of("work")) <=> Tells(down, Of("work"))
        /\ Tells(down', Of("stop"))
        /\ Tells(down', Of("reject")) <=> Tells(down, Of("reject"))
        /\ Tells(down', Asking("work")) <=> Tells(down, Asking("work"))
        /\ Tells(down', Asking("stop")) <=> Tells(down, Asking("stop"))
        /\ Tells(down', Prompting) <=> Tells(down, Prompting)
        /\ Tells(down', ClearsBy("stop"))
        /\ Tells(down', ClearsBy("reject")) <=> Tells(down, ClearsBy("reject"))
        /\ Tells(down', AbortsBy("stop")) <=> Tells(down, AbortsBy("stop"))
        /\ Tells(down', AbortsBy("reject")) <=> Tells(down, AbortsBy("reject"))
        /\ Once(down, Of("work")) => Once(down', Of("work"))
        /\ Once(down, Of("stop")) /\ ~(Tells(down, Of("stop"))) => Once(down', Of("stop"))
        /\ Once(down, Of("reject")) => Once(down', Of("reject"))
    BY <1>2, <1>3, <1>4, <1>5, <1>6, <1>7, <1>8 DEF Known, KnownOf, KnownFor, Gains, GainsTells, GainsOnce,
       Callers
  <2> QED
    BY <1>2, <1>3, <1>4, <1>5, <1>6, <1>7, <1>8, <2>1 DEF Sound, LineInv, OnWay, Alone, Callers, SessionTyped,
       PiTyped, Real, PipesTyped, RtTyped, Believed, ActTyped, WaitTyped, Waits, PcTyped, CountTyped
<1>11. CallersInv'
  BY <1>2, <1>3, <1>4, <1>5, <1>6, <1>7, <1>8 DEF Sound, CallersInv, Callers, SessionTyped, PiTyped, Real,
     PipesTyped, RtTyped, Believed, ActTyped, WaitTyped, Waits, PcTyped, CountTyped
<1>12. ToldInv'
  BY <1>2, <1>3, <1>4, <1>5, <1>6, <1>7, <1>8 DEF Sound, ToldInv, Unanswered, SessionTyped, PiTyped, Real,
     PipesTyped, RtTyped, Believed, ActTyped, WaitTyped, Waits, PcTyped, CountTyped
<1>13. AskedInv'
  BY <1>2, <1>3, <1>4, <1>5, <1>6, <1>7, <1>8 DEF Sound, AskedInv, Reason, Callers, SessionTyped, PiTyped, Real,
     PipesTyped, RtTyped, Believed, ActTyped, WaitTyped, Waits, PcTyped, CountTyped
<1>14. StoppedInv'
  BY <1>2, <1>3, <1>4, <1>5, <1>6, <1>7, <1>8 DEF Sound, StoppedInv, Callers, SessionTyped, PiTyped, Real,
     PipesTyped, RtTyped, Believed, ActTyped, WaitTyped, Waits, PcTyped, CountTyped
<1>15. OwnInv'
  BY <1>2, <1>3, <1>4, <1>5, <1>6, <1>7, <1>8 DEF Sound, OwnInv, SessionTyped, PiTyped, Real, PipesTyped,
     RtTyped, Believed, ActTyped, WaitTyped, Waits, PcTyped, CountTyped
<1>16. RejectsInv'
  <2>1. /\ Tells(down', Of("work")) <=> Tells(down, Of("work"))
        /\ Tells(down', Of("reject")) <=> Tells(down, Of("reject"))
        /\ Before(down, Of("reject"), Of("work")) => Before(down', Of("reject"), Of("work"))
    BY <1>2, <1>3, <1>4, <1>5, <1>6, <1>7, <1>8 DEF Known, KnownOf, Gains, GainsTells, GainsBefore, Callers
  <2> QED
    BY <1>2, <1>3, <1>4, <1>5, <1>6, <1>7, <1>8, <2>1 DEF Sound, RejectsInv, AheadOf, Callers, SessionTyped,
       PiTyped, Real, PipesTyped, RtTyped, Believed, ActTyped, WaitTyped, Waits, PcTyped, CountTyped
<1>17. ReapsInv'
  <2>1. /\ Tells(down', Of("work")) <=> Tells(down, Of("work"))
        /\ Tells(down', Of("reap")) <=> Tells(down, Of("reap"))
        /\ Before(down, Of("reap"), Of("work")) => Before(down', Of("reap"), Of("work"))
    BY <1>2, <1>3, <1>4, <1>5, <1>6, <1>7, <1>8 DEF Known, KnownOf, Gains, GainsTells, GainsBefore, Callers
  <2> QED
    BY <1>2, <1>3, <1>4, <1>5, <1>6, <1>7, <1>8, <2>1 DEF Sound, ReapsInv, AheadOf, OnWay, Callers,
       SessionTyped, PiTyped, Real, PipesTyped, RtTyped, Believed, ActTyped, WaitTyped, Waits, PcTyped,
       CountTyped
<1> QED
  BY <1>9, <1>10, <1>11, <1>12, <1>13, <1>14, <1>15, <1>16, <1>17 DEF Sound

\* A stop without grace.
LEMMA AbortCurrentStep ==
  ASSUME SessionTyped, Sound, AbortCurrent
  PROVE  SessionTyped' /\ Sound'
<1>1. /\ act' = NoAct
      /\ pc' = [pc EXCEPT !.stop = "clear"]
      /\ wait' = Woken(wait)
      /\ down' = Append(down, Command("clear_queue", "stop"))
  BY DEF AbortCurrent, ToStop
<1>2. /\ Command("clear_queue", "stop") \in Commands /\ Command("clear_queue", "stop").kind = "clear_queue"
      /\ Command("clear_queue", "stop").by = "stop"
  BY CommandFact
<1>3. Known(Command("clear_queue", "stop"))
  BY <1>2, CommandKinds
<1>4. down' \in Seq(Commands) /\ Gains(down, down', Command("clear_queue", "stop"))
  BY <1>1, <1>2, Appended DEF SessionTyped, PipesTyped
<1>5. /\ pc' \in [work : {"off", "wait", "probe", "prepared", "load", "state", "prompt", "started", "refused"},
                  stop : {"off", "grace", "clear", "clear+", "abort", "abort+", "idle"}]
      /\ pc'.work = pc.work /\ pc'.stop = "clear"
      /\ act' \in [on : BOOLEAN, attempted : BOOLEAN, accepted : BOOLEAN, settled : BOOLEAN]
      /\ ~act'.on /\ ~act'.attempted /\ ~act'.accepted /\ ~act'.settled
  BY <1>1 DEF SessionTyped, PcTyped, ActTyped, NoAct
<1>6. /\ wait' \in [Callers -> Waits]
      /\ wait'["stop"].at = wait["stop"].at /\ wait'["stop"].clean = wait["stop"].clean
      /\ wait'["stop"].seen = wait["stop"].seen /\ wait'["stop"].woken
      /\ wait'["work"].at = wait["work"].at /\ wait'["work"].clean = wait["work"].clean
      /\ wait'["work"].seen = wait["work"].seen /\ wait'["work"].woken
  BY <1>1 DEF SessionTyped, WaitTyped, Waits, Callers, Woken
<1>7. /\ times' \in Counts
      /\ times'["early"] = times["early"] /\ times'["dropped"] = times["dropped"]
      /\ times'["crowded"] = times["crowded"]
  BY CountFacts DEF AbortCurrent, SessionTyped
<1>8. /\ ~ended /\ pc.stop = "off"
      /\ UNCHANGED <<up, pi, ended, hit, rt>>
  BY DEF AbortCurrent, ToStop
<1>9. ~OnWay(Of("stop"))
  BY <1>8, NobodyAsks DEF Sound, LineInv, CallersInv, SessionTyped, Callers
<1>10. SessionTyped'
  <2>1. PipesTyped'
    BY <1>2, <1>3, <1>4, <1>5, <1>6, <1>7, <1>8, <1>9 DEF SessionTyped, PipesTyped
  <2>2. ActTyped'
    BY <1>2, <1>3, <1>4, <1>5, <1>6, <1>7, <1>8, <1>9 DEF SessionTyped, ActTyped
  <2>3. WaitTyped'
    BY <1>2, <1>3, <1>4, <1>5, <1>6, <1>7, <1>8, <1>9 DEF SessionTyped, WaitTyped, Waits
  <2>4. PcTyped'
    BY <1>2, <1>3, <1>4, <1>5, <1>6, <1>7, <1>8, <1>9 DEF SessionTyped, PcTyped
  <2>5. CountTyped'
    BY <1>2, <1>3, <1>4, <1>5, <1>6, <1>7, <1>8, <1>9 DEF SessionTyped, CountTyped
  <2>6. PiTyped' /\ RtTyped'
    BY <1>2, <1>3, <1>4, <1>5, <1>6, <1>7, <1>8, <1>9 DEF SessionTyped, PiTyped, RtTyped
  <2> QED
    BY <2>1, <2>2, <2>3, <2>4, <2>5, <2>6 DEF SessionTyped
<1>11. LineInv'
  <2>1. /\ Tells(down', Of("work")) <=> Tells(down, Of("work"))
        /\ Tells(down', Of("stop"))
        /\ Tells(down', Of("reject")) <=> Tells(down, Of("reject"))
        /\ Tells(down', Asking("work")) <=> Tells(down, Asking("work"))
        /\ Tells(down', Asking("stop")) <=> Tells(down, Asking("stop"))
        /\ Tells(down', Prompting) <=> Tells(down, Prompting)
        /\ Tells(down', ClearsBy("stop"))
        /\ Tells(down', ClearsBy("reject")) <=> Tells(down, ClearsBy("reject"))
        /\ Tells(down', AbortsBy("stop")) <=> Tells(down, AbortsBy("stop"))
        /\ Tells(down', AbortsBy("reject")) <=> Tells(down, AbortsBy("reject"))
        /\ Once(down, Of("work")) => Once(down', Of("work"))
        /\ Once(down, Of("stop")) /\ ~(Tells(down, Of("stop"))) => Once(down', Of("stop"))
        /\ Once(down, Of("reject")) => Once(down', Of("reject"))
    BY <1>2, <1>3, <1>4, <1>5, <1>6, <1>7, <1>8, <1>9 DEF Known, KnownOf, KnownFor, Gains, GainsTells,
       GainsOnce, Callers
  <2> QED
    BY <1>2, <1>3, <1>4, <1>5, <1>6, <1>7, <1>8, <1>9, <2>1 DEF Sound, LineInv, OnWay, Alone, Callers,
       SessionTyped, PiTyped, Real, PipesTyped, RtTyped, Believed, ActTyped, WaitTyped, Waits, PcTyped,
       CountTyped
<1>12. CallersInv'
  BY <1>2, <1>3, <1>4, <1>5, <1>6, <1>7, <1>8, <1>9 DEF Sound, CallersInv, Callers, SessionTyped, PiTyped, Real,
     PipesTyped, RtTyped, Believed, ActTyped, WaitTyped, Waits, PcTyped, CountTyped
<1>13. ToldInv'
  BY <1>2, <1>3, <1>4, <1>5, <1>6, <1>7, <1>8, <1>9 DEF Sound, ToldInv, Unanswered, SessionTyped, PiTyped, Real,
     PipesTyped, RtTyped, Believed, ActTyped, WaitTyped, Waits, PcTyped, CountTyped
<1>14. AskedInv'
  BY <1>2, <1>3, <1>4, <1>5, <1>6, <1>7, <1>8, <1>9 DEF Sound, AskedInv, Reason, Callers, SessionTyped, PiTyped,
     Real, PipesTyped, RtTyped, Believed, ActTyped, WaitTyped, Waits, PcTyped, CountTyped
<1>15. StoppedInv'
  BY <1>2, <1>3, <1>4, <1>5, <1>6, <1>7, <1>8, <1>9 DEF Sound, StoppedInv, Callers, SessionTyped, PiTyped, Real,
     PipesTyped, RtTyped, Believed, ActTyped, WaitTyped, Waits, PcTyped, CountTyped
<1>16. OwnInv'
  BY <1>2, <1>3, <1>4, <1>5, <1>6, <1>7, <1>8, <1>9 DEF Sound, OwnInv, SessionTyped, PiTyped, Real, PipesTyped,
     RtTyped, Believed, ActTyped, WaitTyped, Waits, PcTyped, CountTyped
<1>17. RejectsInv'
  <2>1. /\ Tells(down', Of("work")) <=> Tells(down, Of("work"))
        /\ Tells(down', Of("reject")) <=> Tells(down, Of("reject"))
        /\ Before(down, Of("reject"), Of("work")) => Before(down', Of("reject"), Of("work"))
    BY <1>2, <1>3, <1>4, <1>5, <1>6, <1>7, <1>8, <1>9 DEF Known, KnownOf, Gains, GainsTells, GainsBefore,
       Callers
  <2> QED
    BY <1>2, <1>3, <1>4, <1>5, <1>6, <1>7, <1>8, <1>9, <2>1 DEF Sound, RejectsInv, AheadOf, Callers,
       SessionTyped, PiTyped, Real, PipesTyped, RtTyped, Believed, ActTyped, WaitTyped, Waits, PcTyped,
       CountTyped
<1>18. ReapsInv'
  <2>1. /\ Tells(down', Of("work")) <=> Tells(down, Of("work"))
        /\ Tells(down', Of("reap")) <=> Tells(down, Of("reap"))
        /\ Before(down, Of("reap"), Of("work")) => Before(down', Of("reap"), Of("work"))
    BY <1>2, <1>3, <1>4, <1>5, <1>6, <1>7, <1>8, <1>9 DEF Known, KnownOf, Gains, GainsTells, GainsBefore,
       Callers
  <2> QED
    BY <1>2, <1>3, <1>4, <1>5, <1>6, <1>7, <1>8, <1>9, <2>1 DEF Sound, ReapsInv, AheadOf, OnWay, Callers,
       SessionTyped, PiTyped, Real, PipesTyped, RtTyped, Believed, ActTyped, WaitTyped, Waits, PcTyped,
       CountTyped
<1> QED
  BY <1>10, <1>11, <1>12, <1>13, <1>14, <1>15, <1>16, <1>17, <1>18 DEF Sound

\* A stop with grace.
LEMMA SettleOrAbortStep ==
  ASSUME SessionTyped, Sound, SettleOrAbort
  PROVE  SessionTyped' /\ Sound'
<1>1. /\ act' = NoAct
      /\ pc' = [pc EXCEPT !.stop = "grace"]
      /\ wait' = [Woken(Listen) EXCEPT !["stop"].woken = FALSE]
  BY DEF SettleOrAbort, ToStop
<1>2. /\ pc' \in [work : {"off", "wait", "probe", "prepared", "load", "state", "prompt", "started", "refused"},
                  stop : {"off", "grace", "clear", "clear+", "abort", "abort+", "idle"}]
      /\ pc'.work = pc.work /\ pc'.stop = "grace"
      /\ act' \in [on : BOOLEAN, attempted : BOOLEAN, accepted : BOOLEAN, settled : BOOLEAN]
      /\ ~act'.on /\ ~act'.attempted /\ ~act'.accepted /\ ~act'.settled
  BY <1>1 DEF SessionTyped, PcTyped, ActTyped, NoAct
<1>3. /\ wait' \in [Callers -> Waits]
      /\ wait'["stop"].at = "look" /\ ~wait'["stop"].clean /\ wait'["stop"].seen = {} /\ ~wait'["stop"].woken
      /\ wait'["work"].at = wait["work"].at /\ wait'["work"].clean = wait["work"].clean
      /\ wait'["work"].seen = wait["work"].seen /\ wait'["work"].woken
  BY <1>1 DEF SessionTyped, WaitTyped, Waits, Callers, NoWait, Listen, Woken
<1>4. /\ times' \in Counts
      /\ times'["early"] = times["early"] /\ times'["dropped"] = times["dropped"]
      /\ times'["crowded"] = times["crowded"]
  BY CountFacts DEF SettleOrAbort, SessionTyped
<1>5. /\ ~ended /\ pc.stop = "off" /\ act.accepted
      /\ UNCHANGED <<up, pi, ended, hit, rt, down>>
  BY DEF SettleOrAbort, ToStop
<1>6. SessionTyped'
  <2>1. ActTyped'
    BY <1>2, <1>3, <1>4, <1>5 DEF SessionTyped, ActTyped
  <2>2. WaitTyped'
    BY <1>2, <1>3, <1>4, <1>5 DEF SessionTyped, WaitTyped, Waits
  <2>3. PcTyped'
    BY <1>2, <1>3, <1>4, <1>5 DEF SessionTyped, PcTyped
  <2>4. CountTyped'
    BY <1>2, <1>3, <1>4, <1>5 DEF SessionTyped, CountTyped
  <2>5. PiTyped' /\ PipesTyped' /\ RtTyped'
    BY <1>2, <1>3, <1>4, <1>5 DEF SessionTyped, PiTyped, PipesTyped, RtTyped
  <2> QED
    BY <2>1, <2>2, <2>3, <2>4, <2>5 DEF SessionTyped
<1>7. LineInv'
  BY <1>2, <1>3, <1>4, <1>5 DEF Sound, LineInv, CallersInv, OnWay, Alone, Callers, SessionTyped, PiTyped, Real,
     PipesTyped, RtTyped, Believed, ActTyped, WaitTyped, Waits, PcTyped, CountTyped
<1>8. CallersInv'
  BY <1>2, <1>3, <1>4, <1>5 DEF Sound, CallersInv, Callers, SessionTyped, PiTyped, Real, PipesTyped, RtTyped,
     Believed, ActTyped, WaitTyped, Waits, PcTyped, CountTyped
<1>9. ToldInv'
  BY <1>2, <1>3, <1>4, <1>5 DEF Sound, ToldInv, Unanswered, SessionTyped, PiTyped, Real, PipesTyped, RtTyped,
     Believed, ActTyped, WaitTyped, Waits, PcTyped, CountTyped
<1>10. AskedInv'
  BY <1>2, <1>3, <1>4, <1>5 DEF Sound, AskedInv, Reason, Callers, SessionTyped, PiTyped, Real, PipesTyped,
     RtTyped, Believed, ActTyped, WaitTyped, Waits, PcTyped, CountTyped
<1>11. StoppedInv'
  BY <1>2, <1>3, <1>4, <1>5 DEF Sound, StoppedInv, Callers, SessionTyped, PiTyped, Real, PipesTyped, RtTyped,
     Believed, ActTyped, WaitTyped, Waits, PcTyped, CountTyped
<1>12. OwnInv'
  BY <1>2, <1>3, <1>4, <1>5 DEF Sound, OwnInv, SessionTyped, PiTyped, Real, PipesTyped, RtTyped, Believed,
     ActTyped, WaitTyped, Waits, PcTyped, CountTyped
<1>13. RejectsInv'
  BY <1>2, <1>3, <1>4, <1>5 DEF Sound, RejectsInv, AheadOf, Callers, SessionTyped, PiTyped, Real, PipesTyped,
     RtTyped, Believed, ActTyped, WaitTyped, Waits, PcTyped, CountTyped
<1>14. ReapsInv'
  BY <1>2, <1>3, <1>4, <1>5 DEF Sound, ReapsInv, AheadOf, OnWay, Callers, SessionTyped, PiTyped, Real,
     PipesTyped, RtTyped, Believed, ActTyped, WaitTyped, Waits, PcTyped, CountTyped
<1> QED
  BY <1>6, <1>7, <1>8, <1>9, <1>10, <1>11, <1>12, <1>13, <1>14 DEF Sound

\* Pi took the prompt.
LEMMA AcceptStep ==
  ASSUME SessionTyped, Sound, Accept
  PROVE  SessionTyped' /\ Sound'
<1>1. /\ act' = IF act.on THEN [act EXCEPT !.accepted = TRUE] ELSE act
      /\ rt' = [rt EXCEPT !.pending = FALSE]
      /\ pc' = [pc EXCEPT !.work = "off"]
      /\ wait' = Woken(wait)
  BY DEF Accept
<1>2. /\ rt' \in Believed
      /\ rt'.streaming = rt.streaming /\ rt'.unsettled = rt.unsettled /\ rt'.comp = rt.comp
      /\ rt'.retrying = rt.retrying
      /\ rt'.maint = rt.maint /\ rt'.bridge = rt.bridge /\ ~rt'.pending /\ rt'.rejecting = rt.rejecting
  BY <1>1 DEF SessionTyped, RtTyped, Believed
<1>3. /\ pc' \in [work : {"off", "wait", "probe", "prepared", "load", "state", "prompt", "started", "refused"},
                  stop : {"off", "grace", "clear", "clear+", "abort", "abort+", "idle"}]
      /\ pc'.work = "off" /\ pc'.stop = pc.stop
      /\ act' \in [on : BOOLEAN, attempted : BOOLEAN, accepted : BOOLEAN, settled : BOOLEAN]
      /\ act'.on = act.on /\ act'.attempted = act.attempted /\ act'.accepted = (act.accepted \/ act.on) /\ act'.settled = act.settled
  BY <1>1 DEF SessionTyped, PcTyped, ActTyped
<1>4. /\ wait' \in [Callers -> Waits]
      /\ wait'["stop"].at = wait["stop"].at /\ wait'["stop"].clean = wait["stop"].clean
      /\ wait'["stop"].seen = wait["stop"].seen /\ wait'["stop"].woken
      /\ wait'["work"].at = wait["work"].at /\ wait'["work"].clean = wait["work"].clean
      /\ wait'["work"].seen = wait["work"].seen /\ wait'["work"].woken
  BY <1>1 DEF SessionTyped, WaitTyped, Waits, Callers, Woken
<1>5. /\ ~ended /\ pc.work = "started"
      /\ UNCHANGED <<up, pi, ended, hit, down, times>>
  BY DEF Accept
<1>6. SessionTyped'
  <2>1. RtTyped'
    BY <1>2, <1>3, <1>4, <1>5 DEF SessionTyped, RtTyped, Believed
  <2>2. ActTyped'
    BY <1>2, <1>3, <1>4, <1>5 DEF SessionTyped, ActTyped
  <2>3. WaitTyped'
    BY <1>2, <1>3, <1>4, <1>5 DEF SessionTyped, WaitTyped, Waits
  <2>4. PcTyped'
    BY <1>2, <1>3, <1>4, <1>5 DEF SessionTyped, PcTyped
  <2>5. PiTyped' /\ PipesTyped' /\ CountTyped'
    BY <1>2, <1>3, <1>4, <1>5 DEF SessionTyped, PiTyped, PipesTyped, CountTyped
  <2> QED
    BY <2>1, <2>2, <2>3, <2>4, <2>5 DEF SessionTyped
<1>7. LineInv'
  BY <1>2, <1>3, <1>4, <1>5 DEF Sound, LineInv, OnWay, Alone, Callers, SessionTyped, PiTyped, Real, PipesTyped,
     RtTyped, Believed, ActTyped, WaitTyped, Waits, PcTyped, CountTyped
<1>8. CallersInv'
  BY <1>2, <1>3, <1>4, <1>5 DEF Sound, CallersInv, Callers, SessionTyped, PiTyped, Real, PipesTyped, RtTyped,
     Believed, ActTyped, WaitTyped, Waits, PcTyped, CountTyped
<1>9. ToldInv'
  BY <1>2, <1>3, <1>4, <1>5 DEF Sound, ToldInv, Unanswered, SessionTyped, PiTyped, Real, PipesTyped, RtTyped,
     Believed, ActTyped, WaitTyped, Waits, PcTyped, CountTyped
<1>10. AskedInv'
  BY <1>2, <1>3, <1>4, <1>5 DEF Sound, AskedInv, Reason, Callers, SessionTyped, PiTyped, Real, PipesTyped,
     RtTyped, Believed, ActTyped, WaitTyped, Waits, PcTyped, CountTyped
<1>11. StoppedInv'
  BY <1>2, <1>3, <1>4, <1>5 DEF Sound, StoppedInv, Callers, SessionTyped, PiTyped, Real, PipesTyped, RtTyped,
     Believed, ActTyped, WaitTyped, Waits, PcTyped, CountTyped
<1>12. OwnInv'
  BY <1>2, <1>3, <1>4, <1>5 DEF Sound, OwnInv, SessionTyped, PiTyped, Real, PipesTyped, RtTyped, Believed,
     ActTyped, WaitTyped, Waits, PcTyped, CountTyped
<1>13. RejectsInv'
  BY <1>2, <1>3, <1>4, <1>5 DEF Sound, RejectsInv, AheadOf, Callers, SessionTyped, PiTyped, Real, PipesTyped,
     RtTyped, Believed, ActTyped, WaitTyped, Waits, PcTyped, CountTyped
<1>14. ReapsInv'
  BY <1>2, <1>3, <1>4, <1>5 DEF Sound, ReapsInv, AheadOf, OnWay, Callers, SessionTyped, PiTyped, Real,
     PipesTyped, RtTyped, Believed, ActTyped, WaitTyped, Waits, PcTyped, CountTyped
<1> QED
  BY <1>6, <1>7, <1>8, <1>9, <1>10, <1>11, <1>12, <1>13, <1>14 DEF Sound

\* An activation begins.
LEMMA ReserveStep ==
  ASSUME SessionTyped, Sound, Reserve
  PROVE  SessionTyped' /\ Sound'
<1>1. /\ act' = [NoAct EXCEPT !.on = TRUE]
      /\ pc' = [pc EXCEPT !.work = "wait"]
      /\ wait' = [Woken(wait) EXCEPT !["work"] = [NoWait EXCEPT !.at = "look"]]
  BY DEF Reserve
<1>2. /\ pc' \in [work : {"off", "wait", "probe", "prepared", "load", "state", "prompt", "started", "refused"},
                  stop : {"off", "grace", "clear", "clear+", "abort", "abort+", "idle"}]
      /\ pc'.work = "wait" /\ pc'.stop = pc.stop
      /\ act' \in [on : BOOLEAN, attempted : BOOLEAN, accepted : BOOLEAN, settled : BOOLEAN]
      /\ act'.on /\ ~act'.attempted /\ ~act'.accepted /\ ~act'.settled
  BY <1>1 DEF SessionTyped, PcTyped, ActTyped, NoAct
<1>3. /\ wait' \in [Callers -> Waits]
      /\ wait'["stop"].at = wait["stop"].at /\ wait'["stop"].clean = wait["stop"].clean
      /\ wait'["stop"].seen = wait["stop"].seen /\ wait'["stop"].woken
      /\ wait'["work"].at = "look" /\ ~wait'["work"].clean /\ wait'["work"].seen = {} /\ ~wait'["work"].woken
  BY <1>1 DEF SessionTyped, WaitTyped, Waits, Callers, NoWait, Woken
<1>4. /\ times' \in Counts
      /\ times'["early"] = times["early"] /\ times'["dropped"] = times["dropped"]
      /\ times'["crowded"] = times["crowded"]
  BY CountFacts DEF Reserve, SessionTyped
<1>5. /\ ~ended /\ pc.work = "off" /\ pc.stop = "off" /\ ~rt.pending /\ (act.on => act.settled)
      /\ UNCHANGED <<up, pi, ended, hit, rt, down>>
  BY DEF Reserve
<1>6. SessionTyped'
  <2>1. ActTyped'
    BY <1>2, <1>3, <1>4, <1>5 DEF SessionTyped, ActTyped
  <2>2. WaitTyped'
    BY <1>2, <1>3, <1>4, <1>5 DEF SessionTyped, WaitTyped, Waits
  <2>3. PcTyped'
    BY <1>2, <1>3, <1>4, <1>5 DEF SessionTyped, PcTyped
  <2>4. CountTyped'
    BY <1>2, <1>3, <1>4, <1>5 DEF SessionTyped, CountTyped
  <2>5. PiTyped' /\ PipesTyped' /\ RtTyped'
    BY <1>2, <1>3, <1>4, <1>5 DEF SessionTyped, PiTyped, PipesTyped, RtTyped
  <2> QED
    BY <2>1, <2>2, <2>3, <2>4, <2>5 DEF SessionTyped
<1>7. LineInv'
  BY <1>2, <1>3, <1>4, <1>5 DEF Sound, LineInv, CallersInv, OnWay, Alone, Callers, SessionTyped, PiTyped, Real,
     PipesTyped, RtTyped, Believed, ActTyped, WaitTyped, Waits, PcTyped, CountTyped
<1>8. CallersInv'
  BY <1>2, <1>3, <1>4, <1>5 DEF Sound, CallersInv, Callers, SessionTyped, PiTyped, Real, PipesTyped, RtTyped,
     Believed, ActTyped, WaitTyped, Waits, PcTyped, CountTyped
<1>9. ToldInv'
  BY <1>2, <1>3, <1>4, <1>5 DEF Sound, ToldInv, Unanswered, SessionTyped, PiTyped, Real, PipesTyped, RtTyped,
     Believed, ActTyped, WaitTyped, Waits, PcTyped, CountTyped
<1>10. AskedInv'
  BY <1>2, <1>3, <1>4, <1>5 DEF Sound, AskedInv, Reason, Callers, SessionTyped, PiTyped, Real, PipesTyped,
     RtTyped, Believed, ActTyped, WaitTyped, Waits, PcTyped, CountTyped
<1>11. StoppedInv'
  BY <1>2, <1>3, <1>4, <1>5 DEF Sound, StoppedInv, Callers, SessionTyped, PiTyped, Real, PipesTyped, RtTyped,
     Believed, ActTyped, WaitTyped, Waits, PcTyped, CountTyped
<1>12. OwnInv'
  BY <1>2, <1>3, <1>4, <1>5 DEF Sound, OwnInv, SessionTyped, PiTyped, Real, PipesTyped, RtTyped, Believed,
     ActTyped, WaitTyped, Waits, PcTyped, CountTyped
<1>13. RejectsInv'
  BY <1>2, <1>3, <1>4, <1>5 DEF Sound, RejectsInv, AheadOf, Callers, SessionTyped, PiTyped, Real, PipesTyped,
     RtTyped, Believed, ActTyped, WaitTyped, Waits, PcTyped, CountTyped
<1>14. ReapsInv'
  BY <1>2, <1>3, <1>4, <1>5 DEF Sound, ReapsInv, AheadOf, OnWay, Callers, SessionTyped, PiTyped, Real,
     PipesTyped, RtTyped, Believed, ActTyped, WaitTyped, Waits, PcTyped, CountTyped
<1> QED
  BY <1>6, <1>7, <1>8, <1>9, <1>10, <1>11, <1>12, <1>13, <1>14 DEF Sound

\* A compaction the transport does not admit.
LEMMA PrepareContextStep ==
  ASSUME SessionTyped, Sound, PrepareContext
  PROVE  SessionTyped' /\ Sound'
<1>1. /\ rt' = [rt EXCEPT !.maint = TRUE, !.timer = Allowance]
      /\ wait' = Woken(wait)
  BY DEF PrepareContext
<1>2. /\ rt' \in Believed
      /\ rt'.streaming = rt.streaming /\ rt'.unsettled = rt.unsettled /\ rt'.comp = rt.comp
      /\ rt'.retrying = rt.retrying
      /\ rt'.maint /\ rt'.bridge = rt.bridge /\ rt'.pending = rt.pending /\ rt'.rejecting = rt.rejecting
  BY <1>1, SessionAssumption DEF SessionTyped, RtTyped, Believed
<1>3. /\ wait' \in [Callers -> Waits]
      /\ wait'["stop"].at = wait["stop"].at /\ wait'["stop"].clean = wait["stop"].clean
      /\ wait'["stop"].seen = wait["stop"].seen /\ wait'["stop"].woken
      /\ wait'["work"].at = wait["work"].at /\ wait'["work"].clean = wait["work"].clean
      /\ wait'["work"].seen = wait["work"].seen /\ wait'["work"].woken
  BY <1>1 DEF SessionTyped, WaitTyped, Waits, Callers, Woken
<1>4. /\ times' \in Counts
      /\ times'["early"] = times["early"] /\ times'["dropped"] = times["dropped"] /\ times'["crowded"] > 0
  BY CountFacts DEF PrepareContext, SessionTyped
<1>5. /\ ~ended /\ ~rt.comp
      /\ UNCHANGED <<up, pi, ended, hit, pc, act, down>>
  BY DEF PrepareContext
<1>6. SessionTyped'
  <2>1. RtTyped'
    BY <1>2, <1>3, <1>4, <1>5 DEF SessionTyped, RtTyped, Believed
  <2>2. WaitTyped'
    BY <1>2, <1>3, <1>4, <1>5 DEF SessionTyped, WaitTyped, Waits
  <2>3. CountTyped'
    BY <1>2, <1>3, <1>4, <1>5 DEF SessionTyped, CountTyped
  <2>4. PiTyped' /\ PipesTyped' /\ ActTyped' /\ PcTyped'
    BY <1>2, <1>3, <1>4, <1>5 DEF SessionTyped, PiTyped, PipesTyped, ActTyped, PcTyped
  <2> QED
    BY <2>1, <2>2, <2>3, <2>4 DEF SessionTyped
<1>7. LineInv'
  BY <1>2, <1>3, <1>4, <1>5 DEF Sound, LineInv, OnWay, Alone, Callers, SessionTyped, PiTyped, Real, PipesTyped,
     RtTyped, Believed, ActTyped, WaitTyped, Waits, PcTyped, CountTyped
<1>8. CallersInv'
  BY <1>2, <1>3, <1>4, <1>5 DEF Sound, CallersInv, Callers, SessionTyped, PiTyped, Real, PipesTyped, RtTyped,
     Believed, ActTyped, WaitTyped, Waits, PcTyped, CountTyped
<1>9. ToldInv'
  BY <1>2, <1>3, <1>4, <1>5 DEF Sound, ToldInv, Unanswered, SessionTyped, PiTyped, Real, PipesTyped, RtTyped,
     Believed, ActTyped, WaitTyped, Waits, PcTyped, CountTyped
<1>10. AskedInv'
  BY <1>2, <1>3, <1>4, <1>5 DEF Sound, AskedInv, Reason, Callers, SessionTyped, PiTyped, Real, PipesTyped,
     RtTyped, Believed, ActTyped, WaitTyped, Waits, PcTyped, CountTyped
<1>11. StoppedInv'
  BY <1>2, <1>3, <1>4, <1>5 DEF Sound, StoppedInv, Callers, SessionTyped, PiTyped, Real, PipesTyped, RtTyped,
     Believed, ActTyped, WaitTyped, Waits, PcTyped, CountTyped
<1>12. OwnInv'
  BY <1>2, <1>3, <1>4, <1>5 DEF Sound, OwnInv, SessionTyped, PiTyped, Real, PipesTyped, RtTyped, Believed,
     ActTyped, WaitTyped, Waits, PcTyped, CountTyped
<1>13. RejectsInv'
  BY <1>2, <1>3, <1>4, <1>5 DEF Sound, RejectsInv, AheadOf, Callers, SessionTyped, PiTyped, Real, PipesTyped,
     RtTyped, Believed, ActTyped, WaitTyped, Waits, PcTyped, CountTyped
<1>14. ReapsInv'
  BY <1>2, <1>3, <1>4, <1>5 DEF Sound, ReapsInv, AheadOf, OnWay, Callers, SessionTyped, PiTyped, Real,
     PipesTyped, RtTyped, Believed, ActTyped, WaitTyped, Waits, PcTyped, CountTyped
<1> QED
  BY <1>6, <1>7, <1>8, <1>9, <1>10, <1>11, <1>12, <1>13, <1>14 DEF Sound

\* A caller goes on with the state it read.
LEMMA HeardStep ==
  ASSUME SessionTyped, Sound, NEW c \in Callers, Heard(c)
  PROVE  SessionTyped' /\ Sound'
<1>1. /\ wait' = [wait EXCEPT ![c].at = IF FoundIdle(Read(c)) THEN "done" ELSE "sleep"]
      /\ rt' = Read(c)
  BY DEF Heard, Pair
<1>2. /\ rt' \in Believed
      /\ rt'.streaming = rt.streaming /\ rt'.unsettled = rt.unsettled /\ rt'.comp = rt.comp
      /\ rt'.retrying = rt.retrying
      /\ rt'.maint = rt.maint /\ rt'.bridge = rt.bridge /\ rt'.pending = rt.pending /\ rt'.rejecting = rt.rejecting
  BY <1>1 DEF SessionTyped, RtTyped, Believed, WaitTyped, Waits, Read
<1>3. /\ wait' \in [Callers -> Waits]
      /\ \A d \in Callers : d # c => wait'[d] = wait[d]
      /\ wait'[c].at = (IF FoundIdle(Read(c)) THEN "done" ELSE "sleep") /\ wait'[c].clean = wait[c].clean
      /\ wait'[c].seen = wait[c].seen /\ wait'[c].woken = wait[c].woken
  BY <1>1 DEF SessionTyped, WaitTyped, Waits, Callers
<1>4. /\ ~ended /\ wait[c].at = "answered"
      /\ UNCHANGED <<up, pi, ended, hit, pc, act, down, times>>
      /\ Awaits(c)
      /\ (c = "work" => act.on)
  BY DEF Heard, Pair
<1>5. FoundIdle(Read(c)) <=> /\ wait[c].clean /\ "run" \notin wait[c].seen /\ "comp" \notin wait[c].seen
                               /\ ~rt.streaming /\ ~rt.unsettled /\ ~rt.comp /\ ~rt.retrying /\ ~rt.pending /\ ~rt.bridge
  BY DEF FoundIdle, LifecycleIdle, Quiet, Read, SessionTyped, RtTyped, Believed, WaitTyped, Waits
<1>6. SessionTyped'
  <2>1. RtTyped'
    BY <1>2, <1>3, <1>4, <1>5 DEF SessionTyped, RtTyped, Believed
  <2>2. WaitTyped'
    BY <1>2, <1>3, <1>4, <1>5 DEF SessionTyped, WaitTyped, Waits
  <2>3. PiTyped' /\ PipesTyped' /\ ActTyped' /\ PcTyped' /\ CountTyped'
    BY <1>2, <1>3, <1>4, <1>5 DEF SessionTyped, PiTyped, PipesTyped, ActTyped, PcTyped, CountTyped
  <2> QED
    BY <2>1, <2>2, <2>3 DEF SessionTyped
<1>7. LineInv'
  BY <1>2, <1>3, <1>4, <1>5 DEF Sound, LineInv, OnWay, Alone, Callers, SessionTyped, PiTyped, Real, PipesTyped,
     RtTyped, Believed, ActTyped, WaitTyped, Waits, PcTyped, CountTyped
<1>8. CallersInv'
  BY <1>2, <1>3, <1>4, <1>5 DEF Sound, CallersInv, Callers, SessionTyped, PiTyped, Real, PipesTyped, RtTyped,
     Believed, ActTyped, WaitTyped, Waits, PcTyped, CountTyped, Awaits
<1>9. ToldInv'
  BY <1>2, <1>3, <1>4, <1>5 DEF Sound, ToldInv, Unanswered, SessionTyped, PiTyped, Real, PipesTyped, RtTyped,
     Believed, ActTyped, WaitTyped, Waits, PcTyped, CountTyped
<1>10. AskedInv'
  BY <1>2, <1>3, <1>4, <1>5, NewsTells DEF Sound, AskedInv, ToldInv, CallersInv, Reason, Callers, SessionTyped,
     PiTyped, Real, PipesTyped, RtTyped, Believed, ActTyped, WaitTyped, Waits, PcTyped, CountTyped, Unanswered,
     OnWay
<1>11. StoppedInv'
  BY <1>2, <1>3, <1>4, <1>5, StartedTells DEF Sound, StoppedInv, CallersInv, LineInv, Callers, SessionTyped,
     PiTyped, Real, PipesTyped, RtTyped, Believed, ActTyped, WaitTyped, Waits, PcTyped, CountTyped, OnWay
<1>12. OwnInv'
  BY <1>2, <1>3, <1>4, <1>5 DEF Sound, OwnInv, SessionTyped, PiTyped, Real, PipesTyped, RtTyped, Believed,
     ActTyped, WaitTyped, Waits, PcTyped, CountTyped
<1>13. RejectsInv'
  BY <1>2, <1>3, <1>4, <1>5 DEF Sound, RejectsInv, AheadOf, Callers, SessionTyped, PiTyped, Real, PipesTyped,
     RtTyped, Believed, ActTyped, WaitTyped, Waits, PcTyped, CountTyped
<1>14. ReapsInv'
  BY <1>2, <1>3, <1>4, <1>5 DEF Sound, ReapsInv, AheadOf, OnWay, Callers, SessionTyped, PiTyped, Real,
     PipesTyped, RtTyped, Believed, ActTyped, WaitTyped, Waits, PcTyped, CountTyped
<1> QED
  BY <1>6, <1>7, <1>8, <1>9, <1>10, <1>11, <1>12, <1>13, <1>14 DEF Sound

\* A caller wakes up.
LEMMA WakeStep ==
  ASSUME SessionTyped, Sound, NEW c \in Callers, Wake(c)
  PROVE  SessionTyped' /\ Sound'
<1>1. /\ wait' = [wait EXCEPT ![c].at = "look"]
  BY DEF Wake, Pair
<1>2. /\ wait' \in [Callers -> Waits]
      /\ \A d \in Callers : d # c => wait'[d] = wait[d]
      /\ wait'[c].at = "look" /\ wait'[c].clean = wait[c].clean /\ wait'[c].seen = wait[c].seen
      /\ wait'[c].woken = wait[c].woken
  BY <1>1 DEF SessionTyped, WaitTyped, Waits, Callers
<1>3. /\ ~ended /\ wait[c].at = "sleep" /\ wait[c].woken
      /\ UNCHANGED <<up, pi, ended, hit, rt, pc, act, down, times>>
  BY DEF Wake, Pair
<1>4. SessionTyped'
  <2>1. WaitTyped'
    BY <1>2, <1>3 DEF SessionTyped, WaitTyped, Waits
  <2>2. PiTyped' /\ PipesTyped' /\ RtTyped' /\ ActTyped' /\ PcTyped' /\ CountTyped'
    BY <1>2, <1>3 DEF SessionTyped, PiTyped, PipesTyped, RtTyped, ActTyped, PcTyped, CountTyped
  <2> QED
    BY <2>1, <2>2 DEF SessionTyped
<1>5. LineInv'
  BY <1>2, <1>3 DEF Sound, LineInv, OnWay, Alone, Callers, SessionTyped, PiTyped, Real, PipesTyped, RtTyped,
     Believed, ActTyped, WaitTyped, Waits, PcTyped, CountTyped
<1>6. CallersInv'
  BY <1>2, <1>3 DEF Sound, CallersInv, Callers, SessionTyped, PiTyped, Real, PipesTyped, RtTyped, Believed,
     ActTyped, WaitTyped, Waits, PcTyped, CountTyped
<1>7. ToldInv'
  BY <1>2, <1>3 DEF Sound, ToldInv, Unanswered, SessionTyped, PiTyped, Real, PipesTyped, RtTyped, Believed,
     ActTyped, WaitTyped, Waits, PcTyped, CountTyped
<1>8. AskedInv'
  BY <1>2, <1>3 DEF Sound, AskedInv, Reason, Callers, SessionTyped, PiTyped, Real, PipesTyped, RtTyped,
     Believed, ActTyped, WaitTyped, Waits, PcTyped, CountTyped
<1>9. StoppedInv'
  BY <1>2, <1>3 DEF Sound, StoppedInv, Callers, SessionTyped, PiTyped, Real, PipesTyped, RtTyped, Believed,
     ActTyped, WaitTyped, Waits, PcTyped, CountTyped
<1>10. OwnInv'
  BY <1>2, <1>3 DEF Sound, OwnInv, SessionTyped, PiTyped, Real, PipesTyped, RtTyped, Believed, ActTyped,
     WaitTyped, Waits, PcTyped, CountTyped
<1>11. RejectsInv'
  BY <1>2, <1>3 DEF Sound, RejectsInv, AheadOf, Callers, SessionTyped, PiTyped, Real, PipesTyped, RtTyped,
     Believed, ActTyped, WaitTyped, Waits, PcTyped, CountTyped
<1>12. ReapsInv'
  BY <1>2, <1>3 DEF Sound, ReapsInv, AheadOf, OnWay, Callers, SessionTyped, PiTyped, Real, PipesTyped, RtTyped,
     Believed, ActTyped, WaitTyped, Waits, PcTyped, CountTyped
<1> QED
  BY <1>4, <1>5, <1>6, <1>7, <1>8, <1>9, <1>10, <1>11, <1>12 DEF Sound

\* The activation asks for the state, and for the probe.
LEMMA ProbeStep ==
  ASSUME SessionTyped, Sound, Probe
  PROVE  SessionTyped' /\ Sound'
<1>1. /\ rt' = [rt EXCEPT !.bridge = TRUE]
      /\ pc' = [pc EXCEPT !.work = "probe"]
      /\ wait' = [wait EXCEPT !["work"] = [NoWait EXCEPT !.at = "asked", !.clean = TRUE]]
      /\ down' = Append(down, Command("get_state", "work"))
  BY DEF Probe, Ask
<1>2. /\ Command("get_state", "work") \in Commands /\ Command("get_state", "work").kind = "get_state"
      /\ Command("get_state", "work").by = "work"
  BY CommandFact DEF Callers
<1>3. Known(Command("get_state", "work"))
  BY <1>2, CommandKinds
<1>4. down' \in Seq(Commands) /\ Gains(down, down', Command("get_state", "work"))
  BY <1>1, <1>2, Appended DEF SessionTyped, PipesTyped
<1>5. /\ rt' \in Believed
      /\ rt'.streaming = rt.streaming /\ rt'.unsettled = rt.unsettled /\ rt'.comp = rt.comp
      /\ rt'.retrying = rt.retrying
      /\ rt'.maint = rt.maint /\ rt'.bridge /\ rt'.pending = rt.pending /\ rt'.rejecting = rt.rejecting
  BY <1>1 DEF SessionTyped, RtTyped, Believed
<1>6. /\ pc' \in [work : {"off", "wait", "probe", "prepared", "load", "state", "prompt", "started", "refused"},
                  stop : {"off", "grace", "clear", "clear+", "abort", "abort+", "idle"}]
      /\ pc'.work = "probe" /\ pc'.stop = pc.stop
  BY <1>1 DEF SessionTyped, PcTyped, ActTyped
<1>7. /\ wait' \in [Callers -> Waits]
      /\ wait'["work"].at = "asked" /\ wait'["work"].clean /\ wait'["work"].seen = {} /\ ~wait'["work"].woken
      /\ wait'["stop"].at = wait["stop"].at /\ wait'["stop"].clean = wait["stop"].clean
      /\ wait'["stop"].seen = wait["stop"].seen /\ wait'["stop"].woken = wait["stop"].woken
  BY <1>1 DEF SessionTyped, WaitTyped, Waits, Callers, NoWait
<1>8. /\ ~ended /\ pc.work = "wait" /\ wait["work"].at = "done" /\ act.on
      /\ UNCHANGED <<up, pi, ended, hit, act, times>>
  BY DEF Probe, Ask
<1>9. ~OnWay(Of("work"))
  BY <1>8, NobodyAsks DEF Sound, LineInv, CallersInv, SessionTyped, Callers
<1>10. /\ Before(down, Of("reject"), Of("work")) /\ Before(up, Of("reject"), Of("work"))
      /\ Before(down, Of("reap"), Of("work")) /\ Before(up, Of("reap"), Of("work"))
  BY <1>9, NothingBehind DEF OnWay
<1>11. SessionTyped'
  <2>1. PipesTyped'
    BY <1>2, <1>3, <1>4, <1>5, <1>6, <1>7, <1>8, <1>9, <1>10 DEF SessionTyped, PipesTyped
  <2>2. RtTyped'
    BY <1>2, <1>3, <1>4, <1>5, <1>6, <1>7, <1>8, <1>9, <1>10 DEF SessionTyped, RtTyped, Believed
  <2>3. WaitTyped'
    BY <1>2, <1>3, <1>4, <1>5, <1>6, <1>7, <1>8, <1>9, <1>10 DEF SessionTyped, WaitTyped, Waits
  <2>4. PcTyped'
    BY <1>2, <1>3, <1>4, <1>5, <1>6, <1>7, <1>8, <1>9, <1>10 DEF SessionTyped, PcTyped
  <2>5. PiTyped' /\ ActTyped' /\ CountTyped'
    BY <1>2, <1>3, <1>4, <1>5, <1>6, <1>7, <1>8, <1>9, <1>10 DEF SessionTyped, PiTyped, ActTyped, CountTyped
  <2> QED
    BY <2>1, <2>2, <2>3, <2>4, <2>5 DEF SessionTyped
<1>12. LineInv'
  <2>1. /\ Tells(down', Of("work"))
        /\ Tells(down', Of("stop")) <=> Tells(down, Of("stop"))
        /\ Tells(down', Of("reject")) <=> Tells(down, Of("reject"))
        /\ Tells(down', Asking("work"))
        /\ Tells(down', Asking("stop")) <=> Tells(down, Asking("stop"))
        /\ Tells(down', Prompting) <=> Tells(down, Prompting)
        /\ Tells(down', ClearsBy("stop")) <=> Tells(down, ClearsBy("stop"))
        /\ Tells(down', ClearsBy("reject")) <=> Tells(down, ClearsBy("reject"))
        /\ Tells(down', AbortsBy("stop")) <=> Tells(down, AbortsBy("stop"))
        /\ Tells(down', AbortsBy("reject")) <=> Tells(down, AbortsBy("reject"))
        /\ Once(down, Of("work")) /\ ~(Tells(down, Of("work"))) => Once(down', Of("work"))
        /\ Once(down, Of("stop")) => Once(down', Of("stop"))
        /\ Once(down, Of("reject")) => Once(down', Of("reject"))
    BY <1>2, <1>3, <1>4, <1>5, <1>6, <1>7, <1>8, <1>9, <1>10 DEF Known, KnownOf, KnownFor, Gains, GainsTells,
       GainsOnce, Callers
  <2> QED
    BY <1>2, <1>3, <1>4, <1>5, <1>6, <1>7, <1>8, <1>9, <1>10, <2>1 DEF Sound, LineInv, OnWay, Alone, Callers,
       SessionTyped, PiTyped, Real, PipesTyped, RtTyped, Believed, ActTyped, WaitTyped, Waits, PcTyped,
       CountTyped
<1>13. CallersInv'
  BY <1>2, <1>3, <1>4, <1>5, <1>6, <1>7, <1>8, <1>9, <1>10 DEF Sound, CallersInv, Callers, SessionTyped,
     PiTyped, Real, PipesTyped, RtTyped, Believed, ActTyped, WaitTyped, Waits, PcTyped, CountTyped
<1>14. ToldInv'
  BY <1>2, <1>3, <1>4, <1>5, <1>6, <1>7, <1>8, <1>9, <1>10 DEF Sound, ToldInv, Unanswered, SessionTyped,
     PiTyped, Real, PipesTyped, RtTyped, Believed, ActTyped, WaitTyped, Waits, PcTyped, CountTyped
<1>15. AskedInv'
  BY <1>2, <1>3, <1>4, <1>5, <1>6, <1>7, <1>8, <1>9, <1>10 DEF Sound, AskedInv, Reason, Callers, SessionTyped,
     PiTyped, Real, PipesTyped, RtTyped, Believed, ActTyped, WaitTyped, Waits, PcTyped, CountTyped
<1>16. StoppedInv'
  BY <1>2, <1>3, <1>4, <1>5, <1>6, <1>7, <1>8, <1>9, <1>10 DEF Sound, StoppedInv, Callers, SessionTyped,
     PiTyped, Real, PipesTyped, RtTyped, Believed, ActTyped, WaitTyped, Waits, PcTyped, CountTyped
<1>17. OwnInv'
  BY <1>2, <1>3, <1>4, <1>5, <1>6, <1>7, <1>8, <1>9, <1>10 DEF Sound, OwnInv, SessionTyped, PiTyped, Real,
     PipesTyped, RtTyped, Believed, ActTyped, WaitTyped, Waits, PcTyped, CountTyped
<1>18. RejectsInv'
  <2>1. /\ Tells(down', Of("work"))
        /\ Tells(down', Of("reject")) <=> Tells(down, Of("reject"))
        /\ Before(down, Of("reject"), Of("work")) => Before(down', Of("reject"), Of("work"))
    BY <1>2, <1>3, <1>4, <1>5, <1>6, <1>7, <1>8, <1>9, <1>10 DEF Known, KnownOf, Gains, GainsTells,
       GainsBefore, Callers
  <2> QED
    BY <1>2, <1>3, <1>4, <1>5, <1>6, <1>7, <1>8, <1>9, <1>10, <2>1 DEF Sound, RejectsInv, AheadOf, Callers,
       SessionTyped, PiTyped, Real, PipesTyped, RtTyped, Believed, ActTyped, WaitTyped, Waits, PcTyped,
       CountTyped
<1>19. ReapsInv'
  <2>1. /\ Tells(down', Of("work"))
        /\ Tells(down', Of("reap")) <=> Tells(down, Of("reap"))
        /\ Before(down, Of("reap"), Of("work")) => Before(down', Of("reap"), Of("work"))
    BY <1>2, <1>3, <1>4, <1>5, <1>6, <1>7, <1>8, <1>9, <1>10 DEF Known, KnownOf, Gains, GainsTells,
       GainsBefore, Callers
  <2> QED
    BY <1>2, <1>3, <1>4, <1>5, <1>6, <1>7, <1>8, <1>9, <1>10, <2>1 DEF Sound, ReapsInv, AheadOf, OnWay,
       Callers, SessionTyped, PiTyped, Real, PipesTyped, RtTyped, Believed, ActTyped, WaitTyped, Waits,
       PcTyped, CountTyped
<1> QED
  BY <1>11, <1>12, <1>13, <1>14, <1>15, <1>16, <1>17, <1>18, <1>19 DEF Sound

\* The activation is prepared, and asks for the state again.
LEMMA ActivateStep ==
  ASSUME SessionTyped, Sound, Activate
  PROVE  SessionTyped' /\ Sound'
<1>1. /\ act' = [act EXCEPT !.attempted = TRUE]
      /\ rt' = [rt EXCEPT !.bridge = TRUE]
      /\ pc' = [pc EXCEPT !.work = "load"]
      /\ wait' = [wait EXCEPT !["work"] = [NoWait EXCEPT !.at = "asked", !.clean = TRUE]]
      /\ down' = Append(down, Command("get_state", "work"))
  BY DEF Activate, Ask
<1>2. /\ Command("get_state", "work") \in Commands /\ Command("get_state", "work").kind = "get_state"
      /\ Command("get_state", "work").by = "work"
  BY CommandFact DEF Callers
<1>3. Known(Command("get_state", "work"))
  BY <1>2, CommandKinds
<1>4. down' \in Seq(Commands) /\ Gains(down, down', Command("get_state", "work"))
  BY <1>1, <1>2, Appended DEF SessionTyped, PipesTyped
<1>5. /\ rt' \in Believed
      /\ rt'.streaming = rt.streaming /\ rt'.unsettled = rt.unsettled /\ rt'.comp = rt.comp
      /\ rt'.retrying = rt.retrying
      /\ rt'.maint = rt.maint /\ rt'.bridge /\ rt'.pending = rt.pending /\ rt'.rejecting = rt.rejecting
  BY <1>1 DEF SessionTyped, RtTyped, Believed
<1>6. /\ pc' \in [work : {"off", "wait", "probe", "prepared", "load", "state", "prompt", "started", "refused"},
                  stop : {"off", "grace", "clear", "clear+", "abort", "abort+", "idle"}]
      /\ pc'.work = "load" /\ pc'.stop = pc.stop
      /\ act' \in [on : BOOLEAN, attempted : BOOLEAN, accepted : BOOLEAN, settled : BOOLEAN]
      /\ act'.on = act.on /\ act'.attempted /\ act'.accepted = act.accepted /\ act'.settled = act.settled
  BY <1>1 DEF SessionTyped, PcTyped, ActTyped
<1>7. /\ wait' \in [Callers -> Waits]
      /\ wait'["work"].at = "asked" /\ wait'["work"].clean /\ wait'["work"].seen = {} /\ ~wait'["work"].woken
      /\ wait'["stop"].at = wait["stop"].at /\ wait'["stop"].clean = wait["stop"].clean
      /\ wait'["stop"].seen = wait["stop"].seen /\ wait'["stop"].woken = wait["stop"].woken
  BY <1>1 DEF SessionTyped, WaitTyped, Waits, Callers, NoWait
<1>8. /\ ~ended /\ pc.work = "prepared" /\ act.on
      /\ UNCHANGED <<up, pi, ended, hit, times>>
  BY DEF Activate, Ask
<1>9. ~OnWay(Of("work"))
  BY <1>8, NobodyAsks DEF Sound, LineInv, CallersInv, SessionTyped, Callers
<1>10. /\ Before(down, Of("reject"), Of("work")) /\ Before(up, Of("reject"), Of("work"))
      /\ Before(down, Of("reap"), Of("work")) /\ Before(up, Of("reap"), Of("work"))
  BY <1>9, NothingBehind DEF OnWay
<1>11. SessionTyped'
  <2>1. PipesTyped'
    BY <1>2, <1>3, <1>4, <1>5, <1>6, <1>7, <1>8, <1>9, <1>10 DEF SessionTyped, PipesTyped
  <2>2. RtTyped'
    BY <1>2, <1>3, <1>4, <1>5, <1>6, <1>7, <1>8, <1>9, <1>10 DEF SessionTyped, RtTyped, Believed
  <2>3. ActTyped'
    BY <1>2, <1>3, <1>4, <1>5, <1>6, <1>7, <1>8, <1>9, <1>10 DEF SessionTyped, ActTyped
  <2>4. WaitTyped'
    BY <1>2, <1>3, <1>4, <1>5, <1>6, <1>7, <1>8, <1>9, <1>10 DEF SessionTyped, WaitTyped, Waits
  <2>5. PcTyped'
    BY <1>2, <1>3, <1>4, <1>5, <1>6, <1>7, <1>8, <1>9, <1>10 DEF SessionTyped, PcTyped
  <2>6. PiTyped' /\ CountTyped'
    BY <1>2, <1>3, <1>4, <1>5, <1>6, <1>7, <1>8, <1>9, <1>10 DEF SessionTyped, PiTyped, CountTyped
  <2> QED
    BY <2>1, <2>2, <2>3, <2>4, <2>5, <2>6 DEF SessionTyped
<1>12. LineInv'
  <2>1. /\ Tells(down', Of("work"))
        /\ Tells(down', Of("stop")) <=> Tells(down, Of("stop"))
        /\ Tells(down', Of("reject")) <=> Tells(down, Of("reject"))
        /\ Tells(down', Asking("work"))
        /\ Tells(down', Asking("stop")) <=> Tells(down, Asking("stop"))
        /\ Tells(down', Prompting) <=> Tells(down, Prompting)
        /\ Tells(down', ClearsBy("stop")) <=> Tells(down, ClearsBy("stop"))
        /\ Tells(down', ClearsBy("reject")) <=> Tells(down, ClearsBy("reject"))
        /\ Tells(down', AbortsBy("stop")) <=> Tells(down, AbortsBy("stop"))
        /\ Tells(down', AbortsBy("reject")) <=> Tells(down, AbortsBy("reject"))
        /\ Once(down, Of("work")) /\ ~(Tells(down, Of("work"))) => Once(down', Of("work"))
        /\ Once(down, Of("stop")) => Once(down', Of("stop"))
        /\ Once(down, Of("reject")) => Once(down', Of("reject"))
    BY <1>2, <1>3, <1>4, <1>5, <1>6, <1>7, <1>8, <1>9, <1>10 DEF Known, KnownOf, KnownFor, Gains, GainsTells,
       GainsOnce, Callers
  <2> QED
    BY <1>2, <1>3, <1>4, <1>5, <1>6, <1>7, <1>8, <1>9, <1>10, <2>1 DEF Sound, LineInv, OnWay, Alone, Callers,
       SessionTyped, PiTyped, Real, PipesTyped, RtTyped, Believed, ActTyped, WaitTyped, Waits, PcTyped,
       CountTyped
<1>13. CallersInv'
  BY <1>2, <1>3, <1>4, <1>5, <1>6, <1>7, <1>8, <1>9, <1>10 DEF Sound, CallersInv, Callers, SessionTyped,
     PiTyped, Real, PipesTyped, RtTyped, Believed, ActTyped, WaitTyped, Waits, PcTyped, CountTyped
<1>14. ToldInv'
  BY <1>2, <1>3, <1>4, <1>5, <1>6, <1>7, <1>8, <1>9, <1>10 DEF Sound, ToldInv, Unanswered, SessionTyped,
     PiTyped, Real, PipesTyped, RtTyped, Believed, ActTyped, WaitTyped, Waits, PcTyped, CountTyped
<1>15. AskedInv'
  BY <1>2, <1>3, <1>4, <1>5, <1>6, <1>7, <1>8, <1>9, <1>10 DEF Sound, AskedInv, Reason, Callers, SessionTyped,
     PiTyped, Real, PipesTyped, RtTyped, Believed, ActTyped, WaitTyped, Waits, PcTyped, CountTyped
<1>16. StoppedInv'
  BY <1>2, <1>3, <1>4, <1>5, <1>6, <1>7, <1>8, <1>9, <1>10 DEF Sound, StoppedInv, Callers, SessionTyped,
     PiTyped, Real, PipesTyped, RtTyped, Believed, ActTyped, WaitTyped, Waits, PcTyped, CountTyped
<1>17. OwnInv'
  BY <1>2, <1>3, <1>4, <1>5, <1>6, <1>7, <1>8, <1>9, <1>10 DEF Sound, OwnInv, SessionTyped, PiTyped, Real,
     PipesTyped, RtTyped, Believed, ActTyped, WaitTyped, Waits, PcTyped, CountTyped
<1>18. RejectsInv'
  <2>1. /\ Tells(down', Of("work"))
        /\ Tells(down', Of("reject")) <=> Tells(down, Of("reject"))
        /\ Before(down, Of("reject"), Of("work")) => Before(down', Of("reject"), Of("work"))
    BY <1>2, <1>3, <1>4, <1>5, <1>6, <1>7, <1>8, <1>9, <1>10 DEF Known, KnownOf, Gains, GainsTells,
       GainsBefore, Callers
  <2> QED
    BY <1>2, <1>3, <1>4, <1>5, <1>6, <1>7, <1>8, <1>9, <1>10, <2>1 DEF Sound, RejectsInv, AheadOf, Callers,
       OnWay, SessionTyped, PiTyped, Real, PipesTyped, RtTyped, Believed, ActTyped, WaitTyped, Waits, PcTyped,
       CountTyped
<1>19. ReapsInv'
  <2>1. /\ Tells(down', Of("work"))
        /\ Tells(down', Of("reap")) <=> Tells(down, Of("reap"))
        /\ Before(down, Of("reap"), Of("work")) => Before(down', Of("reap"), Of("work"))
    BY <1>2, <1>3, <1>4, <1>5, <1>6, <1>7, <1>8, <1>9, <1>10 DEF Known, KnownOf, Gains, GainsTells,
       GainsBefore, Callers
  <2> QED
    BY <1>2, <1>3, <1>4, <1>5, <1>6, <1>7, <1>8, <1>9, <1>10, <2>1 DEF Sound, ReapsInv, AheadOf, OnWay,
       Callers, SessionTyped, PiTyped, Real, PipesTyped, RtTyped, Believed, ActTyped, WaitTyped, Waits,
       PcTyped, CountTyped
<1> QED
  BY <1>11, <1>12, <1>13, <1>14, <1>15, <1>16, <1>17, <1>18, <1>19 DEF Sound

\* The worker is prepared.
LEMMA PreparedStep ==
  ASSUME SessionTyped, Sound, Prepared
  PROVE  SessionTyped' /\ Sound'
<1>1. /\ rt' = [rt EXCEPT !.seen = wait["work"].seen, !.idleKnown = wait["work"].clean /\ wait["work"].seen = {}, !.bridge = FALSE]
      /\ pc' = [pc EXCEPT !.work = "prepared"]
      /\ wait' = [wait EXCEPT !["work"] = NoWait]
  BY DEF Prepared, Proven, Read
<1>2. /\ rt' \in Believed
      /\ rt'.streaming = rt.streaming /\ rt'.unsettled = rt.unsettled /\ rt'.comp = rt.comp
      /\ rt'.retrying = rt.retrying
      /\ rt'.maint = rt.maint /\ ~rt'.bridge /\ rt'.pending = rt.pending /\ rt'.rejecting = rt.rejecting
  BY <1>1 DEF SessionTyped, RtTyped, Believed, WaitTyped, Waits, Callers
<1>3. /\ pc' \in [work : {"off", "wait", "probe", "prepared", "load", "state", "prompt", "started", "refused"},
                  stop : {"off", "grace", "clear", "clear+", "abort", "abort+", "idle"}]
      /\ pc'.work = "prepared" /\ pc'.stop = pc.stop
  BY <1>1 DEF SessionTyped, PcTyped, ActTyped
<1>4. /\ wait' \in [Callers -> Waits]
      /\ wait'["work"].at = "off" /\ ~wait'["work"].clean /\ wait'["work"].seen = {} /\ ~wait'["work"].woken
      /\ wait'["stop"].at = wait["stop"].at /\ wait'["stop"].clean = wait["stop"].clean
      /\ wait'["stop"].seen = wait["stop"].seen /\ wait'["stop"].woken = wait["stop"].woken
  BY <1>1 DEF SessionTyped, WaitTyped, Waits, Callers, NoWait
<1>5. /\ ~ended /\ pc.work = "probe" /\ wait["work"].at = "answered" /\ act.on
      /\ UNCHANGED <<up, pi, ended, hit, act, down, times>>
  BY DEF Prepared, Proven, Read
<1>6. /\ wait["work"].clean /\ "run" \notin wait["work"].seen /\ "comp" \notin wait["work"].seen
      /\ ~rt.streaming /\ ~rt.unsettled /\ ~rt.comp /\ ~rt.retrying
  BY DEF Prepared, Proven, LifecycleIdle, Quiet, Read, SessionTyped, RtTyped, Believed
<1>7. SessionTyped'
  <2>1. RtTyped'
    BY <1>2, <1>3, <1>4, <1>5, <1>6 DEF SessionTyped, RtTyped, Believed
  <2>2. WaitTyped'
    BY <1>2, <1>3, <1>4, <1>5, <1>6 DEF SessionTyped, WaitTyped, Waits
  <2>3. PcTyped'
    BY <1>2, <1>3, <1>4, <1>5, <1>6 DEF SessionTyped, PcTyped
  <2>4. PiTyped' /\ PipesTyped' /\ ActTyped' /\ CountTyped'
    BY <1>2, <1>3, <1>4, <1>5, <1>6 DEF SessionTyped, PiTyped, PipesTyped, ActTyped, CountTyped
  <2> QED
    BY <2>1, <2>2, <2>3, <2>4 DEF SessionTyped
<1>8. LineInv'
  BY <1>2, <1>3, <1>4, <1>5, <1>6 DEF Sound, LineInv, OnWay, Alone, Callers, SessionTyped, PiTyped, Real,
     PipesTyped, RtTyped, Believed, ActTyped, WaitTyped, Waits, PcTyped, CountTyped
<1>9. CallersInv'
  BY <1>2, <1>3, <1>4, <1>5, <1>6 DEF Sound, CallersInv, Callers, SessionTyped, PiTyped, Real, PipesTyped,
     RtTyped, Believed, ActTyped, WaitTyped, Waits, PcTyped, CountTyped
<1>10. ToldInv'
  BY <1>2, <1>3, <1>4, <1>5, <1>6 DEF Sound, ToldInv, Unanswered, SessionTyped, PiTyped, Real, PipesTyped,
     RtTyped, Believed, ActTyped, WaitTyped, Waits, PcTyped, CountTyped
<1>11. AskedInv'
  BY <1>2, <1>3, <1>4, <1>5, <1>6 DEF Sound, AskedInv, CallersInv, Reason, Callers, SessionTyped, PiTyped, Real,
     PipesTyped, RtTyped, Believed, ActTyped, WaitTyped, Waits, PcTyped, CountTyped
<1>12. StoppedInv'
  BY <1>2, <1>3, <1>4, <1>5, <1>6 DEF Sound, StoppedInv, Callers, SessionTyped, PiTyped, Real, PipesTyped,
     RtTyped, Believed, ActTyped, WaitTyped, Waits, PcTyped, CountTyped
<1>13. OwnInv'
  BY <1>2, <1>3, <1>4, <1>5, <1>6 DEF Sound, OwnInv, SessionTyped, PiTyped, Real, PipesTyped, RtTyped, Believed,
     ActTyped, WaitTyped, Waits, PcTyped, CountTyped
<1>14. RejectsInv'
  BY <1>2, <1>3, <1>4, <1>5, <1>6 DEF Sound, RejectsInv, AheadOf, Callers, SessionTyped, PiTyped, Real,
     PipesTyped, RtTyped, Believed, ActTyped, WaitTyped, Waits, PcTyped, CountTyped
<1>15. ReapsInv'
  BY <1>2, <1>3, <1>4, <1>5, <1>6 DEF Sound, ReapsInv, AheadOf, OnWay, Callers, SessionTyped, PiTyped, Real,
     PipesTyped, RtTyped, Believed, ActTyped, WaitTyped, Waits, PcTyped, CountTyped
<1> QED
  BY <1>7, <1>8, <1>9, <1>10, <1>11, <1>12, <1>13, <1>14, <1>15 DEF Sound

\* The state the activation loads by is there: it asks once more.
LEMMA StateLoadedStep ==
  ASSUME SessionTyped, Sound, StateLoaded
  PROVE  SessionTyped' /\ Sound'
<1>1. /\ rt' = [rt EXCEPT !.seen = wait["work"].seen, !.idleKnown = wait["work"].clean /\ wait["work"].seen = {}, !.bridge = FALSE]
      /\ pc' = [pc EXCEPT !.work = "state"]
      /\ wait' = [wait EXCEPT !["work"] = [NoWait EXCEPT !.at = "asked", !.clean = TRUE]]
      /\ down' = Append(down, Command("get_state", "work"))
  BY DEF StateLoaded, Ask, Proven, Read
<1>2. /\ Command("get_state", "work") \in Commands /\ Command("get_state", "work").kind = "get_state"
      /\ Command("get_state", "work").by = "work"
  BY CommandFact DEF Callers
<1>3. Known(Command("get_state", "work"))
  BY <1>2, CommandKinds
<1>4. down' \in Seq(Commands) /\ Gains(down, down', Command("get_state", "work"))
  BY <1>1, <1>2, Appended DEF SessionTyped, PipesTyped
<1>5. /\ rt' \in Believed
      /\ rt'.streaming = rt.streaming /\ rt'.unsettled = rt.unsettled /\ rt'.comp = rt.comp
      /\ rt'.retrying = rt.retrying
      /\ rt'.maint = rt.maint /\ ~rt'.bridge /\ rt'.pending = rt.pending /\ rt'.rejecting = rt.rejecting
  BY <1>1 DEF SessionTyped, RtTyped, Believed, WaitTyped, Waits, Callers
<1>6. /\ pc' \in [work : {"off", "wait", "probe", "prepared", "load", "state", "prompt", "started", "refused"},
                  stop : {"off", "grace", "clear", "clear+", "abort", "abort+", "idle"}]
      /\ pc'.work = "state" /\ pc'.stop = pc.stop
  BY <1>1 DEF SessionTyped, PcTyped, ActTyped
<1>7. /\ wait' \in [Callers -> Waits]
      /\ wait'["work"].at = "asked" /\ wait'["work"].clean /\ wait'["work"].seen = {} /\ ~wait'["work"].woken
      /\ wait'["stop"].at = wait["stop"].at /\ wait'["stop"].clean = wait["stop"].clean
      /\ wait'["stop"].seen = wait["stop"].seen /\ wait'["stop"].woken = wait["stop"].woken
  BY <1>1 DEF SessionTyped, WaitTyped, Waits, Callers, NoWait
<1>8. /\ ~ended /\ pc.work = "load" /\ wait["work"].at = "answered" /\ act.on
      /\ UNCHANGED <<up, pi, ended, hit, act, times>>
  BY DEF StateLoaded, Ask, Proven, Read
<1>9. /\ wait["work"].clean /\ "run" \notin wait["work"].seen /\ "comp" \notin wait["work"].seen
      /\ ~rt.streaming /\ ~rt.unsettled /\ ~rt.comp /\ ~rt.retrying
  BY DEF StateLoaded, Proven, LifecycleIdle, Quiet, Read, SessionTyped, RtTyped, Believed
<1>10. ~OnWay(Of("work"))
  BY <1>8, NobodyAsks DEF Sound, LineInv, CallersInv, SessionTyped, Callers
<1>11. /\ Before(down, Of("reject"), Of("work")) /\ Before(up, Of("reject"), Of("work"))
      /\ Before(down, Of("reap"), Of("work")) /\ Before(up, Of("reap"), Of("work"))
  BY <1>10, NothingBehind DEF OnWay
<1>12. SessionTyped'
  <2>1. PipesTyped'
    BY <1>2, <1>3, <1>4, <1>5, <1>6, <1>7, <1>8, <1>9, <1>10, <1>11 DEF SessionTyped, PipesTyped
  <2>2. RtTyped'
    BY <1>2, <1>3, <1>4, <1>5, <1>6, <1>7, <1>8, <1>9, <1>10, <1>11 DEF SessionTyped, RtTyped, Believed
  <2>3. WaitTyped'
    BY <1>2, <1>3, <1>4, <1>5, <1>6, <1>7, <1>8, <1>9, <1>10, <1>11 DEF SessionTyped, WaitTyped, Waits
  <2>4. PcTyped'
    BY <1>2, <1>3, <1>4, <1>5, <1>6, <1>7, <1>8, <1>9, <1>10, <1>11 DEF SessionTyped, PcTyped
  <2>5. PiTyped' /\ ActTyped' /\ CountTyped'
    BY <1>2, <1>3, <1>4, <1>5, <1>6, <1>7, <1>8, <1>9, <1>10, <1>11 DEF SessionTyped, PiTyped, ActTyped,
       CountTyped
  <2> QED
    BY <2>1, <2>2, <2>3, <2>4, <2>5 DEF SessionTyped
<1>13. LineInv'
  <2>1. /\ Tells(down', Of("work"))
        /\ Tells(down', Of("stop")) <=> Tells(down, Of("stop"))
        /\ Tells(down', Of("reject")) <=> Tells(down, Of("reject"))
        /\ Tells(down', Asking("work"))
        /\ Tells(down', Asking("stop")) <=> Tells(down, Asking("stop"))
        /\ Tells(down', Prompting) <=> Tells(down, Prompting)
        /\ Tells(down', ClearsBy("stop")) <=> Tells(down, ClearsBy("stop"))
        /\ Tells(down', ClearsBy("reject")) <=> Tells(down, ClearsBy("reject"))
        /\ Tells(down', AbortsBy("stop")) <=> Tells(down, AbortsBy("stop"))
        /\ Tells(down', AbortsBy("reject")) <=> Tells(down, AbortsBy("reject"))
        /\ Once(down, Of("work")) /\ ~(Tells(down, Of("work"))) => Once(down', Of("work"))
        /\ Once(down, Of("stop")) => Once(down', Of("stop"))
        /\ Once(down, Of("reject")) => Once(down', Of("reject"))
    BY <1>2, <1>3, <1>4, <1>5, <1>6, <1>7, <1>8, <1>9, <1>10, <1>11 DEF Known, KnownOf, KnownFor, Gains,
       GainsTells, GainsOnce, Callers
  <2> QED
    BY <1>2, <1>3, <1>4, <1>5, <1>6, <1>7, <1>8, <1>9, <1>10, <1>11, <2>1 DEF Sound, LineInv, OnWay, Alone,
       Callers, SessionTyped, PiTyped, Real, PipesTyped, RtTyped, Believed, ActTyped, WaitTyped, Waits,
       PcTyped, CountTyped
<1>14. CallersInv'
  BY <1>2, <1>3, <1>4, <1>5, <1>6, <1>7, <1>8, <1>9, <1>10, <1>11 DEF Sound, CallersInv, Callers, SessionTyped,
     PiTyped, Real, PipesTyped, RtTyped, Believed, ActTyped, WaitTyped, Waits, PcTyped, CountTyped
<1>15. ToldInv'
  BY <1>2, <1>3, <1>4, <1>5, <1>6, <1>7, <1>8, <1>9, <1>10, <1>11 DEF Sound, ToldInv, Unanswered, SessionTyped,
     PiTyped, Real, PipesTyped, RtTyped, Believed, ActTyped, WaitTyped, Waits, PcTyped, CountTyped
<1>16. AskedInv'
  BY <1>2, <1>3, <1>4, <1>5, <1>6, <1>7, <1>8, <1>9, <1>10, <1>11 DEF Sound, AskedInv, CallersInv, Reason,
     Callers, SessionTyped, PiTyped, Real, PipesTyped, RtTyped, Believed, ActTyped, WaitTyped, Waits, PcTyped,
     CountTyped
<1>17. StoppedInv'
  BY <1>2, <1>3, <1>4, <1>5, <1>6, <1>7, <1>8, <1>9, <1>10, <1>11 DEF Sound, StoppedInv, Callers, SessionTyped,
     PiTyped, Real, PipesTyped, RtTyped, Believed, ActTyped, WaitTyped, Waits, PcTyped, CountTyped
<1>18. OwnInv'
  BY <1>2, <1>3, <1>4, <1>5, <1>6, <1>7, <1>8, <1>9, <1>10, <1>11 DEF Sound, OwnInv, SessionTyped, PiTyped,
     Real, PipesTyped, RtTyped, Believed, ActTyped, WaitTyped, Waits, PcTyped, CountTyped
<1>19. RejectsInv'
  <2>1. /\ Tells(down', Of("work"))
        /\ Tells(down', Of("reject")) <=> Tells(down, Of("reject"))
        /\ Before(down, Of("reject"), Of("work")) => Before(down', Of("reject"), Of("work"))
    BY <1>2, <1>3, <1>4, <1>5, <1>6, <1>7, <1>8, <1>9, <1>10, <1>11 DEF Known, KnownOf, Gains, GainsTells,
       GainsBefore, Callers
  <2> QED
    BY <1>2, <1>3, <1>4, <1>5, <1>6, <1>7, <1>8, <1>9, <1>10, <1>11, <2>1 DEF Sound, RejectsInv, AheadOf,
       Callers, OnWay, SessionTyped, PiTyped, Real, PipesTyped, RtTyped, Believed, ActTyped, WaitTyped, Waits,
       PcTyped, CountTyped
<1>20. ReapsInv'
  <2>1. /\ Tells(down', Of("work"))
        /\ Tells(down', Of("reap")) <=> Tells(down, Of("reap"))
        /\ Before(down, Of("reap"), Of("work")) => Before(down', Of("reap"), Of("work"))
    BY <1>2, <1>3, <1>4, <1>5, <1>6, <1>7, <1>8, <1>9, <1>10, <1>11 DEF Known, KnownOf, Gains, GainsTells,
       GainsBefore, Callers
  <2> QED
    BY <1>2, <1>3, <1>4, <1>5, <1>6, <1>7, <1>8, <1>9, <1>10, <1>11, <2>1 DEF Sound, ReapsInv, AheadOf, OnWay,
       Callers, SessionTyped, PiTyped, Real, PipesTyped, RtTyped, Believed, ActTyped, WaitTyped, Waits,
       PcTyped, CountTyped
<1> QED
  BY <1>12, <1>13, <1>14, <1>15, <1>16, <1>17, <1>18, <1>19, <1>20 DEF Sound

\* The activation prompts.
LEMMA PromptStep ==
  ASSUME SessionTyped, Sound, Prompt
  PROVE  SessionTyped' /\ Sound'
<1>1. /\ rt' = [rt EXCEPT !.seen = wait["work"].seen, !.idleKnown = FALSE, !.pending = TRUE, !.unsettled = TRUE]
      /\ pc' = [pc EXCEPT !.work = "prompt"]
      /\ wait' = [c \in Callers |-> IF c = "work" THEN NoWait ELSE [wait[c] EXCEPT !.clean = FALSE]]
      /\ down' = Append(down, Command("prompt", "work"))
  BY DEF Prompt, Proven, Read
<1>2. /\ Command("prompt", "work") \in Commands /\ Command("prompt", "work").kind = "prompt"
      /\ Command("prompt", "work").by = "work"
  BY CommandFact
<1>3. Known(Command("prompt", "work"))
  BY <1>2, CommandKinds
<1>4. down' \in Seq(Commands) /\ Gains(down, down', Command("prompt", "work"))
  BY <1>1, <1>2, Appended DEF SessionTyped, PipesTyped
<1>5. /\ rt' \in Believed
      /\ rt'.streaming = rt.streaming /\ rt'.unsettled /\ rt'.comp = rt.comp /\ rt'.retrying = rt.retrying
      /\ rt'.maint = rt.maint /\ rt'.bridge = rt.bridge /\ rt'.pending /\ rt'.rejecting = rt.rejecting
  BY <1>1 DEF SessionTyped, RtTyped, Believed, WaitTyped, Waits, Callers
<1>6. /\ pc' \in [work : {"off", "wait", "probe", "prepared", "load", "state", "prompt", "started", "refused"},
                  stop : {"off", "grace", "clear", "clear+", "abort", "abort+", "idle"}]
      /\ pc'.work = "prompt" /\ pc'.stop = pc.stop
  BY <1>1 DEF SessionTyped, PcTyped, ActTyped
<1>7. /\ wait' \in [Callers -> Waits]
      /\ wait'["work"].at = "off" /\ ~wait'["work"].clean /\ wait'["work"].seen = {} /\ ~wait'["work"].woken
      /\ wait'["stop"].at = wait["stop"].at /\ ~wait'["stop"].clean /\ wait'["stop"].seen = wait["stop"].seen
      /\ wait'["stop"].woken = wait["stop"].woken
  BY <1>1 DEF SessionTyped, WaitTyped, Waits, Callers, NoWait
<1>8. /\ ~ended /\ pc.work = "state" /\ wait["work"].at = "answered" /\ act.on
      /\ UNCHANGED <<up, pi, ended, hit, act, times>>
  BY DEF Prompt, Proven, Read
<1>9. /\ wait["work"].clean /\ "run" \notin wait["work"].seen /\ "comp" \notin wait["work"].seen
      /\ ~rt.streaming /\ ~rt.unsettled /\ ~rt.comp /\ ~rt.retrying
  BY DEF Prompt, Proven, LifecycleIdle, Quiet, Read, SessionTyped, RtTyped, Believed
<1>10. ~OnWay(Of("work"))
  BY <1>8, NobodyAsks DEF Sound, LineInv, CallersInv, SessionTyped, Callers
<1>11. SessionTyped'
  <2>1. PipesTyped'
    BY <1>2, <1>3, <1>4, <1>5, <1>6, <1>7, <1>8, <1>9, <1>10 DEF SessionTyped, PipesTyped
  <2>2. RtTyped'
    BY <1>2, <1>3, <1>4, <1>5, <1>6, <1>7, <1>8, <1>9, <1>10 DEF SessionTyped, RtTyped, Believed
  <2>3. WaitTyped'
    BY <1>2, <1>3, <1>4, <1>5, <1>6, <1>7, <1>8, <1>9, <1>10 DEF SessionTyped, WaitTyped, Waits
  <2>4. PcTyped'
    BY <1>2, <1>3, <1>4, <1>5, <1>6, <1>7, <1>8, <1>9, <1>10 DEF SessionTyped, PcTyped
  <2>5. PiTyped' /\ ActTyped' /\ CountTyped'
    BY <1>2, <1>3, <1>4, <1>5, <1>6, <1>7, <1>8, <1>9, <1>10 DEF SessionTyped, PiTyped, ActTyped, CountTyped
  <2> QED
    BY <2>1, <2>2, <2>3, <2>4, <2>5 DEF SessionTyped
<1>12. LineInv'
  <2>1. /\ Tells(down', Of("work"))
        /\ Tells(down', Of("stop")) <=> Tells(down, Of("stop"))
        /\ Tells(down', Of("reject")) <=> Tells(down, Of("reject"))
        /\ Tells(down', Asking("work")) <=> Tells(down, Asking("work"))
        /\ Tells(down', Asking("stop")) <=> Tells(down, Asking("stop"))
        /\ Tells(down', Prompting)
        /\ Tells(down', ClearsBy("stop")) <=> Tells(down, ClearsBy("stop"))
        /\ Tells(down', ClearsBy("reject")) <=> Tells(down, ClearsBy("reject"))
        /\ Tells(down', AbortsBy("stop")) <=> Tells(down, AbortsBy("stop"))
        /\ Tells(down', AbortsBy("reject")) <=> Tells(down, AbortsBy("reject"))
        /\ Once(down, Of("work")) /\ ~(Tells(down, Of("work"))) => Once(down', Of("work"))
        /\ Once(down, Of("stop")) => Once(down', Of("stop"))
        /\ Once(down, Of("reject")) => Once(down', Of("reject"))
    BY <1>2, <1>3, <1>4, <1>5, <1>6, <1>7, <1>8, <1>9, <1>10 DEF Known, KnownOf, KnownFor, Gains, GainsTells,
       GainsOnce, Callers
  <2> QED
    BY <1>2, <1>3, <1>4, <1>5, <1>6, <1>7, <1>8, <1>9, <1>10, <2>1 DEF Sound, LineInv, OnWay, Alone, Callers,
       SessionTyped, PiTyped, Real, PipesTyped, RtTyped, Believed, ActTyped, WaitTyped, Waits, PcTyped,
       CountTyped
<1>13. CallersInv'
  BY <1>2, <1>3, <1>4, <1>5, <1>6, <1>7, <1>8, <1>9, <1>10 DEF Sound, CallersInv, Callers, SessionTyped,
     PiTyped, Real, PipesTyped, RtTyped, Believed, ActTyped, WaitTyped, Waits, PcTyped, CountTyped
<1>14. ToldInv'
  BY <1>2, <1>3, <1>4, <1>5, <1>6, <1>7, <1>8, <1>9, <1>10, StartedTells DEF Sound, ToldInv, LineInv,
     Unanswered, SessionTyped, PiTyped, Real, PipesTyped, RtTyped, Believed, ActTyped, WaitTyped, Waits,
     PcTyped, CountTyped, OnWay
<1>15. AskedInv'
  BY <1>2, <1>3, <1>4, <1>5, <1>6, <1>7, <1>8, <1>9, <1>10 DEF Sound, AskedInv, CallersInv, Reason, Callers,
     SessionTyped, PiTyped, Real, PipesTyped, RtTyped, Believed, ActTyped, WaitTyped, Waits, PcTyped, CountTyped
<1>16. StoppedInv'
  BY <1>2, <1>3, <1>4, <1>5, <1>6, <1>7, <1>8, <1>9, <1>10 DEF Sound, StoppedInv, CallersInv, Callers,
     SessionTyped, PiTyped, Real, PipesTyped, RtTyped, Believed, ActTyped, WaitTyped, Waits, PcTyped, CountTyped
<1>17. OwnInv'
  BY <1>2, <1>3, <1>4, <1>5, <1>6, <1>7, <1>8, <1>9, <1>10 DEF Sound, OwnInv, SessionTyped, PiTyped, Real,
     PipesTyped, RtTyped, Believed, ActTyped, WaitTyped, Waits, PcTyped, CountTyped
<1>18. RejectsInv'
  <2>1. /\ Tells(down', Of("work"))
        /\ Tells(down', Of("reject")) <=> Tells(down, Of("reject"))
        /\ Before(down, Of("reject"), Of("work")) => Before(down', Of("reject"), Of("work"))
    BY <1>2, <1>3, <1>4, <1>5, <1>6, <1>7, <1>8, <1>9, <1>10 DEF Known, KnownOf, Gains, GainsTells,
       GainsBefore, Callers
  <2> QED
    BY <1>2, <1>3, <1>4, <1>5, <1>6, <1>7, <1>8, <1>9, <1>10, <2>1 DEF Sound, RejectsInv, AheadOf, Callers,
       SessionTyped, PiTyped, Real, PipesTyped, RtTyped, Believed, ActTyped, WaitTyped, Waits, PcTyped,
       CountTyped
<1>19. ReapsInv'
  <2>1. /\ Tells(down', Of("work"))
        /\ Tells(down', Of("reap")) <=> Tells(down, Of("reap"))
        /\ Before(down, Of("reap"), Of("work")) => Before(down', Of("reap"), Of("work"))
    BY <1>2, <1>3, <1>4, <1>5, <1>6, <1>7, <1>8, <1>9, <1>10 DEF Known, KnownOf, Gains, GainsTells,
       GainsBefore, Callers
  <2> QED
    BY <1>2, <1>3, <1>4, <1>5, <1>6, <1>7, <1>8, <1>9, <1>10, <2>1 DEF Sound, ReapsInv, AheadOf, OnWay,
       Callers, SessionTyped, PiTyped, Real, PipesTyped, RtTyped, Believed, ActTyped, WaitTyped, Waits,
       PcTyped, CountTyped
<1> QED
  BY <1>11, <1>12, <1>13, <1>14, <1>15, <1>16, <1>17, <1>18, <1>19 DEF Sound

\* A revoked activation gives up.
LEMMA RevokedStep ==
  ASSUME SessionTyped, Sound, Revoked
  PROVE  SessionTyped' /\ Sound'
<1>1. /\ rt' = [rt EXCEPT !.bridge = FALSE, !.pending = FALSE]
      /\ pc' = [pc EXCEPT !.work = "off"]
      /\ wait' = [Woken(wait) EXCEPT !["work"] = NoWait]
      /\ times' = IF pc.work = "refused" THEN [times EXCEPT !["dropped"] = 1] ELSE times
  BY DEF Revoked
<1>2. /\ rt' \in Believed
      /\ rt'.streaming = rt.streaming /\ rt'.unsettled = rt.unsettled /\ rt'.comp = rt.comp
      /\ rt'.retrying = rt.retrying
      /\ rt'.maint = rt.maint /\ ~rt'.bridge /\ ~rt'.pending /\ rt'.rejecting = rt.rejecting
  BY <1>1 DEF SessionTyped, RtTyped, Believed
<1>3. /\ pc' \in [work : {"off", "wait", "probe", "prepared", "load", "state", "prompt", "started", "refused"},
                  stop : {"off", "grace", "clear", "clear+", "abort", "abort+", "idle"}]
      /\ pc'.work = "off" /\ pc'.stop = pc.stop
  BY <1>1 DEF SessionTyped, PcTyped, ActTyped
<1>4. /\ wait' \in [Callers -> Waits]
      /\ wait'["work"].at = "off" /\ ~wait'["work"].clean /\ wait'["work"].seen = {} /\ ~wait'["work"].woken
      /\ wait'["stop"].at = wait["stop"].at /\ wait'["stop"].clean = wait["stop"].clean
      /\ wait'["stop"].seen = wait["stop"].seen /\ wait'["stop"].woken
  BY <1>1 DEF SessionTyped, WaitTyped, Waits, Callers, NoWait, Woken
<1>5. /\ times' \in Counts
      /\ times'["early"] = times["early"] /\ times'["crowded"] = times["crowded"]
      /\ times'["dropped"] = (IF pc.work = "refused" THEN 1 ELSE times["dropped"])
  BY <1>1 DEF SessionTyped, CountTyped, Counts
<1>6. /\ ~ended /\ ~act.on
      /\ UNCHANGED <<up, pi, ended, hit, act, down>>
      /\ \/ pc.work \in {"wait", "probe", "load", "state"} /\ wait["work"].at \in {"look", "answered", "done"}
         \/ pc.work \in {"prepared", "refused"}
  BY DEF Revoked
<1>7. SessionTyped'
  <2>1. RtTyped'
    BY <1>2, <1>3, <1>4, <1>5, <1>6 DEF SessionTyped, RtTyped, Believed
  <2>2. WaitTyped'
    BY <1>2, <1>3, <1>4, <1>5, <1>6 DEF SessionTyped, WaitTyped, Waits
  <2>3. PcTyped'
    BY <1>2, <1>3, <1>4, <1>5, <1>6 DEF SessionTyped, PcTyped
  <2>4. CountTyped'
    BY <1>2, <1>3, <1>4, <1>5, <1>6 DEF SessionTyped, CountTyped
  <2>5. PiTyped' /\ PipesTyped' /\ ActTyped'
    BY <1>2, <1>3, <1>4, <1>5, <1>6 DEF SessionTyped, PiTyped, PipesTyped, ActTyped
  <2> QED
    BY <2>1, <2>2, <2>3, <2>4, <2>5 DEF SessionTyped
<1>8. LineInv'
  BY <1>2, <1>3, <1>4, <1>5, <1>6 DEF Sound, LineInv, CallersInv, OnWay, Alone, Callers, SessionTyped, PiTyped,
     Real, PipesTyped, RtTyped, Believed, ActTyped, WaitTyped, Waits, PcTyped, CountTyped
<1>9. CallersInv'
  BY <1>2, <1>3, <1>4, <1>5, <1>6 DEF Sound, CallersInv, Callers, SessionTyped, PiTyped, Real, PipesTyped,
     RtTyped, Believed, ActTyped, WaitTyped, Waits, PcTyped, CountTyped
<1>10. ToldInv'
  BY <1>2, <1>3, <1>4, <1>5, <1>6 DEF Sound, ToldInv, Unanswered, SessionTyped, PiTyped, Real, PipesTyped,
     RtTyped, Believed, ActTyped, WaitTyped, Waits, PcTyped, CountTyped
<1>11. AskedInv'
  BY <1>2, <1>3, <1>4, <1>5, <1>6 DEF Sound, AskedInv, Reason, Callers, SessionTyped, PiTyped, Real, PipesTyped,
     RtTyped, Believed, ActTyped, WaitTyped, Waits, PcTyped, CountTyped
<1>12. StoppedInv'
  BY <1>2, <1>3, <1>4, <1>5, <1>6 DEF Sound, StoppedInv, Callers, SessionTyped, PiTyped, Real, PipesTyped,
     RtTyped, Believed, ActTyped, WaitTyped, Waits, PcTyped, CountTyped
<1>13. OwnInv'
  BY <1>2, <1>3, <1>4, <1>5, <1>6 DEF Sound, OwnInv, SessionTyped, PiTyped, Real, PipesTyped, RtTyped, Believed,
     ActTyped, WaitTyped, Waits, PcTyped, CountTyped
<1>14. RejectsInv'
  BY <1>2, <1>3, <1>4, <1>5, <1>6 DEF Sound, RejectsInv, AheadOf, Callers, SessionTyped, PiTyped, Real,
     PipesTyped, RtTyped, Believed, ActTyped, WaitTyped, Waits, PcTyped, CountTyped
<1>15. ReapsInv'
  BY <1>2, <1>3, <1>4, <1>5, <1>6 DEF Sound, ReapsInv, AheadOf, OnWay, Callers, SessionTyped, PiTyped, Real,
     PipesTyped, RtTyped, Believed, ActTyped, WaitTyped, Waits, PcTyped, CountTyped
<1> QED
  BY <1>7, <1>8, <1>9, <1>10, <1>11, <1>12, <1>13, <1>14, <1>15 DEF Sound

\* The rejection's clearing of the queue was answered: it aborts.
LEMMA RejectAbortsStep ==
  ASSUME SessionTyped, Sound, RejectGoesOn, rt.rejecting = "clear+"
  PROVE  SessionTyped' /\ Sound'
<1>1. /\ rt' = [rt EXCEPT !.rejecting = "abort"]
      /\ down' = Append(down, Command("abort", "reject"))
  BY DEF RejectGoesOn
<1>2. /\ Command("abort", "reject") \in Commands /\ Command("abort", "reject").kind = "abort"
      /\ Command("abort", "reject").by = "reject"
  BY CommandFact
<1>3. Known(Command("abort", "reject"))
  BY <1>2, CommandKinds
<1>4. down' \in Seq(Commands) /\ Gains(down, down', Command("abort", "reject"))
  BY <1>1, <1>2, Appended DEF SessionTyped, PipesTyped
<1>5. /\ rt' \in Believed
      /\ rt'.streaming = rt.streaming /\ rt'.unsettled = rt.unsettled /\ rt'.comp = rt.comp
      /\ rt'.retrying = rt.retrying
      /\ rt'.maint = rt.maint /\ rt'.bridge = rt.bridge /\ rt'.pending = rt.pending /\ rt'.rejecting = "abort"
  BY <1>1 DEF SessionTyped, RtTyped, Believed
<1>6. /\ ~ended /\ rt.rejecting = "clear+"
      /\ UNCHANGED <<up, pi, ended, hit, wait, pc, act, times>>
  BY DEF RejectGoesOn
<1>7. ~OnWay(Of("reject"))
  BY <1>6, NobodyAsks DEF Sound, LineInv, CallersInv, SessionTyped, Callers
<1>8. SessionTyped'
  <2>1. PipesTyped'
    BY <1>2, <1>3, <1>4, <1>5, <1>6, <1>7 DEF SessionTyped, PipesTyped
  <2>2. RtTyped'
    BY <1>2, <1>3, <1>4, <1>5, <1>6, <1>7 DEF SessionTyped, RtTyped, Believed
  <2>3. PiTyped' /\ ActTyped' /\ WaitTyped' /\ PcTyped' /\ CountTyped'
    BY <1>2, <1>3, <1>4, <1>5, <1>6, <1>7 DEF SessionTyped, PiTyped, ActTyped, WaitTyped, PcTyped, CountTyped
  <2> QED
    BY <2>1, <2>2, <2>3 DEF SessionTyped
<1>9. LineInv'
  <2>1. /\ Tells(down', Of("work")) <=> Tells(down, Of("work"))
        /\ Tells(down', Of("stop")) <=> Tells(down, Of("stop"))
        /\ Tells(down', Of("reject"))
        /\ Tells(down', Asking("work")) <=> Tells(down, Asking("work"))
        /\ Tells(down', Asking("stop")) <=> Tells(down, Asking("stop"))
        /\ Tells(down', Prompting) <=> Tells(down, Prompting)
        /\ Tells(down', ClearsBy("stop")) <=> Tells(down, ClearsBy("stop"))
        /\ Tells(down', ClearsBy("reject")) <=> Tells(down, ClearsBy("reject"))
        /\ Tells(down', AbortsBy("stop")) <=> Tells(down, AbortsBy("stop"))
        /\ Tells(down', AbortsBy("reject"))
        /\ Once(down, Of("work")) => Once(down', Of("work"))
        /\ Once(down, Of("stop")) => Once(down', Of("stop"))
        /\ Once(down, Of("reject")) /\ ~(Tells(down, Of("reject"))) => Once(down', Of("reject"))
    BY <1>2, <1>3, <1>4, <1>5, <1>6, <1>7 DEF Known, KnownOf, KnownFor, Gains, GainsTells, GainsOnce, Callers
  <2> QED
    BY <1>2, <1>3, <1>4, <1>5, <1>6, <1>7, <2>1 DEF Sound, LineInv, OnWay, Alone, Callers, SessionTyped,
       PiTyped, Real, PipesTyped, RtTyped, Believed, ActTyped, WaitTyped, Waits, PcTyped, CountTyped
<1>10. CallersInv'
  BY <1>2, <1>3, <1>4, <1>5, <1>6, <1>7 DEF Sound, CallersInv, Callers, SessionTyped, PiTyped, Real, PipesTyped,
     RtTyped, Believed, ActTyped, WaitTyped, Waits, PcTyped, CountTyped
<1>11. ToldInv'
  BY <1>2, <1>3, <1>4, <1>5, <1>6, <1>7 DEF Sound, ToldInv, Unanswered, SessionTyped, PiTyped, Real, PipesTyped,
     RtTyped, Believed, ActTyped, WaitTyped, Waits, PcTyped, CountTyped
<1>12. AskedInv'
  BY <1>2, <1>3, <1>4, <1>5, <1>6, <1>7 DEF Sound, AskedInv, Reason, Callers, SessionTyped, PiTyped, Real,
     PipesTyped, RtTyped, Believed, ActTyped, WaitTyped, Waits, PcTyped, CountTyped
<1>13. StoppedInv'
  BY <1>2, <1>3, <1>4, <1>5, <1>6, <1>7 DEF Sound, StoppedInv, Callers, SessionTyped, PiTyped, Real, PipesTyped,
     RtTyped, Believed, ActTyped, WaitTyped, Waits, PcTyped, CountTyped
<1>14. OwnInv'
  BY <1>2, <1>3, <1>4, <1>5, <1>6, <1>7 DEF Sound, OwnInv, SessionTyped, PiTyped, Real, PipesTyped, RtTyped,
     Believed, ActTyped, WaitTyped, Waits, PcTyped, CountTyped
<1>15. RejectsInv'
  <2>1. /\ Tells(down', Of("work")) <=> Tells(down, Of("work"))
        /\ Tells(down', Of("reject"))
        /\ Before(down, Of("reject"), Of("work")) /\ ~(Tells(down, Of("work"))) =>
             Before(down', Of("reject"), Of("work"))
    BY <1>2, <1>3, <1>4, <1>5, <1>6, <1>7 DEF Known, KnownOf, Gains, GainsTells, GainsBefore, Callers
  <2> QED
    BY <1>2, <1>3, <1>4, <1>5, <1>6, <1>7, <2>1 DEF Sound, RejectsInv, AheadOf, Callers, SessionTyped,
       PiTyped, Real, PipesTyped, RtTyped, Believed, ActTyped, WaitTyped, Waits, PcTyped, CountTyped
<1>16. ReapsInv'
  <2>1. /\ Tells(down', Of("work")) <=> Tells(down, Of("work"))
        /\ Tells(down', Of("reap")) <=> Tells(down, Of("reap"))
        /\ Before(down, Of("reap"), Of("work")) => Before(down', Of("reap"), Of("work"))
    BY <1>2, <1>3, <1>4, <1>5, <1>6, <1>7 DEF Known, KnownOf, Gains, GainsTells, GainsBefore, Callers
  <2> QED
    BY <1>2, <1>3, <1>4, <1>5, <1>6, <1>7, <2>1 DEF Sound, ReapsInv, AheadOf, OnWay, Callers, SessionTyped,
       PiTyped, Real, PipesTyped, RtTyped, Believed, ActTyped, WaitTyped, Waits, PcTyped, CountTyped
<1> QED
  BY <1>8, <1>9, <1>10, <1>11, <1>12, <1>13, <1>14, <1>15, <1>16 DEF Sound

\* The rejection is over.
LEMMA RejectOverStep ==
  ASSUME SessionTyped, Sound, RejectGoesOn, rt.rejecting = "abort+"
  PROVE  SessionTyped' /\ Sound'
<1>1. /\ rt' = [rt EXCEPT !.rejecting = "no"]
      /\ wait' = Woken(wait)
  BY DEF RejectGoesOn
<1>2. /\ rt' \in Believed
      /\ rt'.streaming = rt.streaming /\ rt'.unsettled = rt.unsettled /\ rt'.comp = rt.comp
      /\ rt'.retrying = rt.retrying
      /\ rt'.maint = rt.maint /\ rt'.bridge = rt.bridge /\ rt'.pending = rt.pending /\ rt'.rejecting = "no"
  BY <1>1 DEF SessionTyped, RtTyped, Believed
<1>3. /\ wait' \in [Callers -> Waits]
      /\ wait'["stop"].at = wait["stop"].at /\ wait'["stop"].clean = wait["stop"].clean
      /\ wait'["stop"].seen = wait["stop"].seen /\ wait'["stop"].woken
      /\ wait'["work"].at = wait["work"].at /\ wait'["work"].clean = wait["work"].clean
      /\ wait'["work"].seen = wait["work"].seen /\ wait'["work"].woken
  BY <1>1 DEF SessionTyped, WaitTyped, Waits, Callers, Woken
<1>4. /\ ~ended /\ rt.rejecting = "abort+"
      /\ UNCHANGED <<up, pi, ended, hit, pc, act, down, times>>
  BY DEF RejectGoesOn
<1>5. SessionTyped'
  <2>1. RtTyped'
    BY <1>2, <1>3, <1>4 DEF SessionTyped, RtTyped, Believed
  <2>2. WaitTyped'
    BY <1>2, <1>3, <1>4 DEF SessionTyped, WaitTyped, Waits
  <2>3. PiTyped' /\ PipesTyped' /\ ActTyped' /\ PcTyped' /\ CountTyped'
    BY <1>2, <1>3, <1>4 DEF SessionTyped, PiTyped, PipesTyped, ActTyped, PcTyped, CountTyped
  <2> QED
    BY <2>1, <2>2, <2>3 DEF SessionTyped
<1>6. LineInv'
  BY <1>2, <1>3, <1>4 DEF Sound, LineInv, OnWay, Alone, Callers, SessionTyped, PiTyped, Real, PipesTyped,
     RtTyped, Believed, ActTyped, WaitTyped, Waits, PcTyped, CountTyped
<1>7. CallersInv'
  BY <1>2, <1>3, <1>4 DEF Sound, CallersInv, Callers, SessionTyped, PiTyped, Real, PipesTyped, RtTyped,
     Believed, ActTyped, WaitTyped, Waits, PcTyped, CountTyped
<1>8. ToldInv'
  BY <1>2, <1>3, <1>4 DEF Sound, ToldInv, Unanswered, SessionTyped, PiTyped, Real, PipesTyped, RtTyped,
     Believed, ActTyped, WaitTyped, Waits, PcTyped, CountTyped
<1>9. AskedInv'
  BY <1>2, <1>3, <1>4 DEF Sound, AskedInv, Reason, Callers, SessionTyped, PiTyped, Real, PipesTyped, RtTyped,
     Believed, ActTyped, WaitTyped, Waits, PcTyped, CountTyped
<1>10. StoppedInv'
  BY <1>2, <1>3, <1>4 DEF Sound, StoppedInv, Callers, SessionTyped, PiTyped, Real, PipesTyped, RtTyped,
     Believed, ActTyped, WaitTyped, Waits, PcTyped, CountTyped
<1>11. OwnInv'
  BY <1>2, <1>3, <1>4 DEF Sound, OwnInv, SessionTyped, PiTyped, Real, PipesTyped, RtTyped, Believed, ActTyped,
     WaitTyped, Waits, PcTyped, CountTyped
<1>12. RejectsInv'
  BY <1>2, <1>3, <1>4 DEF Sound, RejectsInv, AheadOf, Callers, SessionTyped, PiTyped, Real, PipesTyped, RtTyped,
     Believed, ActTyped, WaitTyped, Waits, PcTyped, CountTyped
<1>13. ReapsInv'
  BY <1>2, <1>3, <1>4 DEF Sound, ReapsInv, AheadOf, OnWay, Callers, SessionTyped, PiTyped, Real, PipesTyped,
     RtTyped, Believed, ActTyped, WaitTyped, Waits, PcTyped, CountTyped
<1> QED
  BY <1>5, <1>6, <1>7, <1>8, <1>9, <1>10, <1>11, <1>12, <1>13 DEF Sound

\* The compaction took too long.
LEMMA ReapAbortsStep ==
  ASSUME SessionTyped, Sound, CompactionLate, rt.maint /\ rt.comp
  PROVE  SessionTyped' /\ Sound'
<1>1. /\ rt' = [rt EXCEPT !.timer = FALSE, !.maint = FALSE, !.reap = "abort"]
      /\ down' = Append(down, Command("abort", "reap"))
  BY DEF CompactionLate
<1>2. /\ Command("abort", "reap") \in Commands /\ Command("abort", "reap").kind = "abort"
      /\ Command("abort", "reap").by = "reap"
  BY CommandFact
<1>3. Known(Command("abort", "reap"))
  BY <1>2, CommandKinds
<1>4. down' \in Seq(Commands) /\ Gains(down, down', Command("abort", "reap"))
  BY <1>1, <1>2, Appended DEF SessionTyped, PipesTyped
<1>5. /\ rt' \in Believed
      /\ rt'.streaming = rt.streaming /\ rt'.unsettled = rt.unsettled /\ rt'.comp = rt.comp
      /\ rt'.retrying = rt.retrying
      /\ ~rt'.maint /\ rt'.bridge = rt.bridge /\ rt'.pending = rt.pending /\ rt'.rejecting = rt.rejecting
  BY <1>1 DEF SessionTyped, RtTyped, Believed
<1>6. /\ ~ended /\ rt.maint /\ rt.comp
      /\ UNCHANGED <<up, pi, ended, hit, wait, pc, act, times>>
  BY DEF CompactionLate
<1>7. SessionTyped'
  <2>1. PipesTyped'
    BY <1>2, <1>3, <1>4, <1>5, <1>6 DEF SessionTyped, PipesTyped
  <2>2. RtTyped'
    BY <1>2, <1>3, <1>4, <1>5, <1>6 DEF SessionTyped, RtTyped, Believed
  <2>3. PiTyped' /\ ActTyped' /\ WaitTyped' /\ PcTyped' /\ CountTyped'
    BY <1>2, <1>3, <1>4, <1>5, <1>6 DEF SessionTyped, PiTyped, ActTyped, WaitTyped, PcTyped, CountTyped
  <2> QED
    BY <2>1, <2>2, <2>3 DEF SessionTyped
<1>8. LineInv'
  <2>1. /\ Tells(down', Of("work")) <=> Tells(down, Of("work"))
        /\ Tells(down', Of("stop")) <=> Tells(down, Of("stop"))
        /\ Tells(down', Of("reject")) <=> Tells(down, Of("reject"))
        /\ Tells(down', Asking("work")) <=> Tells(down, Asking("work"))
        /\ Tells(down', Asking("stop")) <=> Tells(down, Asking("stop"))
        /\ Tells(down', Prompting) <=> Tells(down, Prompting)
        /\ Tells(down', ClearsBy("stop")) <=> Tells(down, ClearsBy("stop"))
        /\ Tells(down', ClearsBy("reject")) <=> Tells(down, ClearsBy("reject"))
        /\ Tells(down', AbortsBy("stop")) <=> Tells(down, AbortsBy("stop"))
        /\ Tells(down', AbortsBy("reject")) <=> Tells(down, AbortsBy("reject"))
        /\ Once(down, Of("work")) => Once(down', Of("work"))
        /\ Once(down, Of("stop")) => Once(down', Of("stop"))
        /\ Once(down, Of("reject")) => Once(down', Of("reject"))
    BY <1>2, <1>3, <1>4, <1>5, <1>6 DEF Known, KnownOf, KnownFor, Gains, GainsTells, GainsOnce, Callers
  <2> QED
    BY <1>2, <1>3, <1>4, <1>5, <1>6, <2>1 DEF Sound, LineInv, OnWay, Alone, Callers, SessionTyped, PiTyped,
       Real, PipesTyped, RtTyped, Believed, ActTyped, WaitTyped, Waits, PcTyped, CountTyped
<1>9. CallersInv'
  BY <1>2, <1>3, <1>4, <1>5, <1>6 DEF Sound, CallersInv, Callers, SessionTyped, PiTyped, Real, PipesTyped,
     RtTyped, Believed, ActTyped, WaitTyped, Waits, PcTyped, CountTyped
<1>10. ToldInv'
  BY <1>2, <1>3, <1>4, <1>5, <1>6 DEF Sound, ToldInv, Unanswered, SessionTyped, PiTyped, Real, PipesTyped,
     RtTyped, Believed, ActTyped, WaitTyped, Waits, PcTyped, CountTyped
<1>11. AskedInv'
  BY <1>2, <1>3, <1>4, <1>5, <1>6 DEF Sound, AskedInv, Reason, Callers, SessionTyped, PiTyped, Real, PipesTyped,
     RtTyped, Believed, ActTyped, WaitTyped, Waits, PcTyped, CountTyped
<1>12. StoppedInv'
  BY <1>2, <1>3, <1>4, <1>5, <1>6 DEF Sound, StoppedInv, Callers, SessionTyped, PiTyped, Real, PipesTyped,
     RtTyped, Believed, ActTyped, WaitTyped, Waits, PcTyped, CountTyped
<1>13. OwnInv'
  BY <1>2, <1>3, <1>4, <1>5, <1>6 DEF Sound, OwnInv, SessionTyped, PiTyped, Real, PipesTyped, RtTyped, Believed,
     ActTyped, WaitTyped, Waits, PcTyped, CountTyped
<1>14. RejectsInv'
  <2>1. /\ Tells(down', Of("work")) <=> Tells(down, Of("work"))
        /\ Tells(down', Of("reject")) <=> Tells(down, Of("reject"))
        /\ Before(down, Of("reject"), Of("work")) => Before(down', Of("reject"), Of("work"))
    BY <1>2, <1>3, <1>4, <1>5, <1>6 DEF Known, KnownOf, Gains, GainsTells, GainsBefore, Callers
  <2> QED
    BY <1>2, <1>3, <1>4, <1>5, <1>6, <2>1 DEF Sound, RejectsInv, AheadOf, Callers, SessionTyped, PiTyped,
       Real, PipesTyped, RtTyped, Believed, ActTyped, WaitTyped, Waits, PcTyped, CountTyped
<1>15. ReapsInv'
  <2>1. /\ Tells(down', Of("work")) <=> Tells(down, Of("work"))
        /\ Tells(down', Of("reap"))
        /\ Before(down, Of("reap"), Of("work")) /\ ~(Tells(down, Of("work"))) =>
             Before(down', Of("reap"), Of("work"))
    BY <1>2, <1>3, <1>4, <1>5, <1>6 DEF Known, KnownOf, Gains, GainsTells, GainsBefore, Callers
  <2> QED
    BY <1>2, <1>3, <1>4, <1>5, <1>6, <2>1 DEF Sound, ReapsInv, AheadOf, OnWay, Callers, SessionTyped, PiTyped,
       Real, PipesTyped, RtTyped, Believed, ActTyped, WaitTyped, Waits, PcTyped, CountTyped
<1> QED
  BY <1>7, <1>8, <1>9, <1>10, <1>11, <1>12, <1>13, <1>14, <1>15 DEF Sound

\* There is no compaction to end.
LEMMA ReapLeftStep ==
  ASSUME SessionTyped, Sound, CompactionLate, ~(rt.maint /\ rt.comp)
  PROVE  SessionTyped' /\ Sound'
<1>1. /\ rt' = [rt EXCEPT !.timer = FALSE]
  BY DEF CompactionLate
<1>2. /\ rt' \in Believed
      /\ rt'.streaming = rt.streaming /\ rt'.unsettled = rt.unsettled /\ rt'.comp = rt.comp
      /\ rt'.retrying = rt.retrying
      /\ rt'.maint = rt.maint /\ rt'.bridge = rt.bridge /\ rt'.pending = rt.pending /\ rt'.rejecting = rt.rejecting
  BY <1>1 DEF SessionTyped, RtTyped, Believed
<1>3. /\ ~ended /\ ~(rt.maint /\ rt.comp)
      /\ UNCHANGED <<up, pi, ended, hit, wait, pc, act, down, times>>
  BY DEF CompactionLate
<1>4. SessionTyped'
  <2>1. RtTyped'
    BY <1>2, <1>3 DEF SessionTyped, RtTyped, Believed
  <2>2. PiTyped' /\ PipesTyped' /\ ActTyped' /\ WaitTyped' /\ PcTyped' /\ CountTyped'
    BY <1>2, <1>3 DEF SessionTyped, PiTyped, PipesTyped, ActTyped, WaitTyped, PcTyped, CountTyped
  <2> QED
    BY <2>1, <2>2 DEF SessionTyped
<1>5. LineInv'
  BY <1>2, <1>3 DEF Sound, LineInv, OnWay, Alone, Callers, SessionTyped, PiTyped, Real, PipesTyped, RtTyped,
     Believed, ActTyped, WaitTyped, Waits, PcTyped, CountTyped
<1>6. CallersInv'
  BY <1>2, <1>3 DEF Sound, CallersInv, Callers, SessionTyped, PiTyped, Real, PipesTyped, RtTyped, Believed,
     ActTyped, WaitTyped, Waits, PcTyped, CountTyped
<1>7. ToldInv'
  BY <1>2, <1>3 DEF Sound, ToldInv, Unanswered, SessionTyped, PiTyped, Real, PipesTyped, RtTyped, Believed,
     ActTyped, WaitTyped, Waits, PcTyped, CountTyped
<1>8. AskedInv'
  BY <1>2, <1>3 DEF Sound, AskedInv, Reason, Callers, SessionTyped, PiTyped, Real, PipesTyped, RtTyped,
     Believed, ActTyped, WaitTyped, Waits, PcTyped, CountTyped
<1>9. StoppedInv'
  BY <1>2, <1>3 DEF Sound, StoppedInv, Callers, SessionTyped, PiTyped, Real, PipesTyped, RtTyped, Believed,
     ActTyped, WaitTyped, Waits, PcTyped, CountTyped
<1>10. OwnInv'
  BY <1>2, <1>3 DEF Sound, OwnInv, SessionTyped, PiTyped, Real, PipesTyped, RtTyped, Believed, ActTyped,
     WaitTyped, Waits, PcTyped, CountTyped
<1>11. RejectsInv'
  BY <1>2, <1>3 DEF Sound, RejectsInv, AheadOf, Callers, SessionTyped, PiTyped, Real, PipesTyped, RtTyped,
     Believed, ActTyped, WaitTyped, Waits, PcTyped, CountTyped
<1>12. ReapsInv'
  BY <1>2, <1>3 DEF Sound, ReapsInv, AheadOf, OnWay, Callers, SessionTyped, PiTyped, Real, PipesTyped, RtTyped,
     Believed, ActTyped, WaitTyped, Waits, PcTyped, CountTyped
<1> QED
  BY <1>4, <1>5, <1>6, <1>7, <1>8, <1>9, <1>10, <1>11, <1>12 DEF Sound

\* The axes are quiet: the work reads the state.
LEMMA WorkAsksStep ==
  ASSUME SessionTyped, Sound, Look("work"), Quiet(rt)
  PROVE  SessionTyped' /\ Sound'
<1>1. /\ wait' = [wait EXCEPT !["work"].at = "asked", !["work"].clean = TRUE, !["work"].woken = FALSE]
      /\ down' = Append(down, Command("get_state", "work"))
  BY DEF Look, Pair
<1>2. /\ Command("get_state", "work") \in Commands /\ Command("get_state", "work").kind = "get_state"
      /\ Command("get_state", "work").by = "work"
  BY CommandFact DEF Callers
<1>3. Known(Command("get_state", "work"))
  BY <1>2, CommandKinds
<1>4. down' \in Seq(Commands) /\ Gains(down, down', Command("get_state", "work"))
  BY <1>1, <1>2, Appended DEF SessionTyped, PipesTyped
<1>5. /\ wait' \in [Callers -> Waits]
      /\ wait'["work"].at = "asked" /\ wait'["work"].clean /\ wait'["work"].seen = wait["work"].seen
      /\ ~wait'["work"].woken
      /\ wait'["stop"].at = wait["stop"].at /\ wait'["stop"].clean = wait["stop"].clean
      /\ wait'["stop"].seen = wait["stop"].seen /\ wait'["stop"].woken = wait["stop"].woken
  BY <1>1 DEF SessionTyped, WaitTyped, Waits, Callers
<1>6. /\ ~ended /\ wait["work"].at = "look" /\ Quiet(rt)
      /\ UNCHANGED <<up, pi, ended, hit, rt, pc, act, times>>
  BY DEF Look, Pair
<1>7. ~OnWay(Of("work"))
  BY <1>6, NobodyAsks DEF Sound, LineInv, CallersInv, SessionTyped, Callers
<1>8. /\ Before(down, Of("reject"), Of("work")) /\ Before(up, Of("reject"), Of("work"))
      /\ Before(down, Of("reap"), Of("work")) /\ Before(up, Of("reap"), Of("work"))
  BY <1>7, NothingBehind DEF OnWay
<1>9. SessionTyped'
  <2>1. PipesTyped'
    BY <1>2, <1>3, <1>4, <1>5, <1>6, <1>7, <1>8 DEF SessionTyped, PipesTyped
  <2>2. WaitTyped'
    BY <1>2, <1>3, <1>4, <1>5, <1>6, <1>7, <1>8 DEF SessionTyped, WaitTyped, Waits
  <2>3. PiTyped' /\ RtTyped' /\ ActTyped' /\ PcTyped' /\ CountTyped'
    BY <1>2, <1>3, <1>4, <1>5, <1>6, <1>7, <1>8 DEF SessionTyped, PiTyped, RtTyped, ActTyped, PcTyped,
       CountTyped
  <2> QED
    BY <2>1, <2>2, <2>3 DEF SessionTyped
<1>10. LineInv'
  <2>1. /\ Tells(down', Of("work"))
        /\ Tells(down', Of("stop")) <=> Tells(down, Of("stop"))
        /\ Tells(down', Of("reject")) <=> Tells(down, Of("reject"))
        /\ Tells(down', Asking("work"))
        /\ Tells(down', Asking("stop")) <=> Tells(down, Asking("stop"))
        /\ Tells(down', Prompting) <=> Tells(down, Prompting)
        /\ Tells(down', ClearsBy("stop")) <=> Tells(down, ClearsBy("stop"))
        /\ Tells(down', ClearsBy("reject")) <=> Tells(down, ClearsBy("reject"))
        /\ Tells(down', AbortsBy("stop")) <=> Tells(down, AbortsBy("stop"))
        /\ Tells(down', AbortsBy("reject")) <=> Tells(down, AbortsBy("reject"))
        /\ Once(down, Of("work")) /\ ~(Tells(down, Of("work"))) => Once(down', Of("work"))
        /\ Once(down, Of("stop")) => Once(down', Of("stop"))
        /\ Once(down, Of("reject")) => Once(down', Of("reject"))
    BY <1>2, <1>3, <1>4, <1>5, <1>6, <1>7, <1>8 DEF Known, KnownOf, KnownFor, Gains, GainsTells, GainsOnce,
       Callers
  <2> QED
    BY <1>2, <1>3, <1>4, <1>5, <1>6, <1>7, <1>8, <2>1 DEF Sound, LineInv, OnWay, Alone, Callers, CallersInv,
       SessionTyped, PiTyped, Real, PipesTyped, RtTyped, Believed, ActTyped, WaitTyped, Waits, PcTyped,
       CountTyped
<1>11. CallersInv'
  BY <1>2, <1>3, <1>4, <1>5, <1>6, <1>7, <1>8 DEF Sound, CallersInv, Callers, SessionTyped, PiTyped, Real,
     PipesTyped, RtTyped, Believed, ActTyped, WaitTyped, Waits, PcTyped, CountTyped
<1>12. ToldInv'
  BY <1>2, <1>3, <1>4, <1>5, <1>6, <1>7, <1>8 DEF Sound, ToldInv, Unanswered, SessionTyped, PiTyped, Real,
     PipesTyped, RtTyped, Believed, ActTyped, WaitTyped, Waits, PcTyped, CountTyped
<1>13. AskedInv'
  BY <1>2, <1>3, <1>4, <1>5, <1>6, <1>7, <1>8 DEF Sound, AskedInv, Reason, Callers, SessionTyped, PiTyped, Real,
     PipesTyped, RtTyped, Believed, ActTyped, WaitTyped, Waits, PcTyped, CountTyped
<1>14. StoppedInv'
  BY <1>2, <1>3, <1>4, <1>5, <1>6, <1>7, <1>8 DEF Sound, StoppedInv, Callers, SessionTyped, PiTyped, Real,
     PipesTyped, RtTyped, Believed, ActTyped, WaitTyped, Waits, PcTyped, CountTyped, Quiet, OnWay
<1>15. OwnInv'
  BY <1>2, <1>3, <1>4, <1>5, <1>6, <1>7, <1>8 DEF Sound, OwnInv, SessionTyped, PiTyped, Real, PipesTyped,
     RtTyped, Believed, ActTyped, WaitTyped, Waits, PcTyped, CountTyped
<1>16. RejectsInv'
  <2>1. /\ Tells(down', Of("work"))
        /\ Tells(down', Of("reject")) <=> Tells(down, Of("reject"))
        /\ Before(down, Of("reject"), Of("work")) => Before(down', Of("reject"), Of("work"))
    BY <1>2, <1>3, <1>4, <1>5, <1>6, <1>7, <1>8 DEF Known, KnownOf, Gains, GainsTells, GainsBefore, Callers
  <2> QED
    BY <1>2, <1>3, <1>4, <1>5, <1>6, <1>7, <1>8, <2>1 DEF Sound, RejectsInv, AheadOf, Callers, CallersInv,
       SessionTyped, PiTyped, Real, PipesTyped, RtTyped, Believed, ActTyped, WaitTyped, Waits, PcTyped,
       CountTyped
<1>17. ReapsInv'
  <2>1. /\ Tells(down', Of("work"))
        /\ Tells(down', Of("reap")) <=> Tells(down, Of("reap"))
        /\ Before(down, Of("reap"), Of("work")) => Before(down', Of("reap"), Of("work"))
    BY <1>2, <1>3, <1>4, <1>5, <1>6, <1>7, <1>8 DEF Known, KnownOf, Gains, GainsTells, GainsBefore, Callers
  <2> QED
    BY <1>2, <1>3, <1>4, <1>5, <1>6, <1>7, <1>8, <2>1 DEF Sound, ReapsInv, AheadOf, OnWay, Callers,
       CallersInv, SessionTyped, PiTyped, Real, PipesTyped, RtTyped, Believed, ActTyped, WaitTyped, Waits,
       PcTyped, CountTyped
<1> QED
  BY <1>9, <1>10, <1>11, <1>12, <1>13, <1>14, <1>15, <1>16, <1>17 DEF Sound

\* The axes are quiet: the stop reads the state.
LEMMA StopAsksStep ==
  ASSUME SessionTyped, Sound, Look("stop"), Quiet(rt)
  PROVE  SessionTyped' /\ Sound'
<1>1. /\ wait' = [wait EXCEPT !["stop"].at = "asked", !["stop"].clean = TRUE, !["stop"].woken = FALSE]
      /\ down' = Append(down, Command("get_state", "stop"))
  BY DEF Look, Pair
<1>2. /\ Command("get_state", "stop") \in Commands /\ Command("get_state", "stop").kind = "get_state"
      /\ Command("get_state", "stop").by = "stop"
  BY CommandFact DEF Callers
<1>3. Known(Command("get_state", "stop"))
  BY <1>2, CommandKinds
<1>4. down' \in Seq(Commands) /\ Gains(down, down', Command("get_state", "stop"))
  BY <1>1, <1>2, Appended DEF SessionTyped, PipesTyped
<1>5. /\ wait' \in [Callers -> Waits]
      /\ wait'["stop"].at = "asked" /\ wait'["stop"].clean /\ wait'["stop"].seen = wait["stop"].seen
      /\ ~wait'["stop"].woken
      /\ wait'["work"].at = wait["work"].at /\ wait'["work"].clean = wait["work"].clean
      /\ wait'["work"].seen = wait["work"].seen /\ wait'["work"].woken = wait["work"].woken
  BY <1>1 DEF SessionTyped, WaitTyped, Waits, Callers
<1>6. /\ ~ended /\ wait["stop"].at = "look" /\ Quiet(rt)
      /\ UNCHANGED <<up, pi, ended, hit, rt, pc, act, times>>
  BY DEF Look, Pair
<1>7. ~OnWay(Of("stop"))
  BY <1>6, NobodyAsks DEF Sound, LineInv, CallersInv, SessionTyped, Callers
<1>8. SessionTyped'
  <2>1. PipesTyped'
    BY <1>2, <1>3, <1>4, <1>5, <1>6, <1>7 DEF SessionTyped, PipesTyped
  <2>2. WaitTyped'
    BY <1>2, <1>3, <1>4, <1>5, <1>6, <1>7 DEF SessionTyped, WaitTyped, Waits
  <2>3. PiTyped' /\ RtTyped' /\ ActTyped' /\ PcTyped' /\ CountTyped'
    BY <1>2, <1>3, <1>4, <1>5, <1>6, <1>7 DEF SessionTyped, PiTyped, RtTyped, ActTyped, PcTyped, CountTyped
  <2> QED
    BY <2>1, <2>2, <2>3 DEF SessionTyped
<1>9. LineInv'
  <2>1. /\ Tells(down', Of("work")) <=> Tells(down, Of("work"))
        /\ Tells(down', Of("stop"))
        /\ Tells(down', Of("reject")) <=> Tells(down, Of("reject"))
        /\ Tells(down', Asking("work")) <=> Tells(down, Asking("work"))
        /\ Tells(down', Asking("stop"))
        /\ Tells(down', Prompting) <=> Tells(down, Prompting)
        /\ Tells(down', ClearsBy("stop")) <=> Tells(down, ClearsBy("stop"))
        /\ Tells(down', ClearsBy("reject")) <=> Tells(down, ClearsBy("reject"))
        /\ Tells(down', AbortsBy("stop")) <=> Tells(down, AbortsBy("stop"))
        /\ Tells(down', AbortsBy("reject")) <=> Tells(down, AbortsBy("reject"))
        /\ Once(down, Of("work")) => Once(down', Of("work"))
        /\ Once(down, Of("stop")) /\ ~(Tells(down, Of("stop"))) => Once(down', Of("stop"))
        /\ Once(down, Of("reject")) => Once(down', Of("reject"))
    BY <1>2, <1>3, <1>4, <1>5, <1>6, <1>7 DEF Known, KnownOf, KnownFor, Gains, GainsTells, GainsOnce, Callers
  <2> QED
    BY <1>2, <1>3, <1>4, <1>5, <1>6, <1>7, <2>1 DEF Sound, LineInv, OnWay, Alone, Callers, CallersInv,
       SessionTyped, PiTyped, Real, PipesTyped, RtTyped, Believed, ActTyped, WaitTyped, Waits, PcTyped,
       CountTyped
<1>10. CallersInv'
  BY <1>2, <1>3, <1>4, <1>5, <1>6, <1>7 DEF Sound, CallersInv, Callers, SessionTyped, PiTyped, Real, PipesTyped,
     RtTyped, Believed, ActTyped, WaitTyped, Waits, PcTyped, CountTyped
<1>11. ToldInv'
  BY <1>2, <1>3, <1>4, <1>5, <1>6, <1>7 DEF Sound, ToldInv, Unanswered, SessionTyped, PiTyped, Real, PipesTyped,
     RtTyped, Believed, ActTyped, WaitTyped, Waits, PcTyped, CountTyped
<1>12. AskedInv'
  BY <1>2, <1>3, <1>4, <1>5, <1>6, <1>7 DEF Sound, AskedInv, Reason, Callers, SessionTyped, PiTyped, Real,
     PipesTyped, RtTyped, Believed, ActTyped, WaitTyped, Waits, PcTyped, CountTyped
<1>13. StoppedInv'
  BY <1>2, <1>3, <1>4, <1>5, <1>6, <1>7 DEF Sound, StoppedInv, Callers, SessionTyped, PiTyped, Real, PipesTyped,
     RtTyped, Believed, ActTyped, WaitTyped, Waits, PcTyped, CountTyped, Quiet, OnWay
<1>14. OwnInv'
  BY <1>2, <1>3, <1>4, <1>5, <1>6, <1>7 DEF Sound, OwnInv, SessionTyped, PiTyped, Real, PipesTyped, RtTyped,
     Believed, ActTyped, WaitTyped, Waits, PcTyped, CountTyped
<1>15. RejectsInv'
  <2>1. /\ Tells(down', Of("work")) <=> Tells(down, Of("work"))
        /\ Tells(down', Of("reject")) <=> Tells(down, Of("reject"))
        /\ Before(down, Of("reject"), Of("work")) => Before(down', Of("reject"), Of("work"))
    BY <1>2, <1>3, <1>4, <1>5, <1>6, <1>7 DEF Known, KnownOf, Gains, GainsTells, GainsBefore, Callers
  <2> QED
    BY <1>2, <1>3, <1>4, <1>5, <1>6, <1>7, <2>1 DEF Sound, RejectsInv, AheadOf, Callers, CallersInv,
       SessionTyped, PiTyped, Real, PipesTyped, RtTyped, Believed, ActTyped, WaitTyped, Waits, PcTyped,
       CountTyped
<1>16. ReapsInv'
  <2>1. /\ Tells(down', Of("work")) <=> Tells(down, Of("work"))
        /\ Tells(down', Of("reap")) <=> Tells(down, Of("reap"))
        /\ Before(down, Of("reap"), Of("work")) => Before(down', Of("reap"), Of("work"))
    BY <1>2, <1>3, <1>4, <1>5, <1>6, <1>7 DEF Known, KnownOf, Gains, GainsTells, GainsBefore, Callers
  <2> QED
    BY <1>2, <1>3, <1>4, <1>5, <1>6, <1>7, <2>1 DEF Sound, ReapsInv, AheadOf, OnWay, Callers, CallersInv,
       SessionTyped, PiTyped, Real, PipesTyped, RtTyped, Believed, ActTyped, WaitTyped, Waits, PcTyped,
       CountTyped
<1> QED
  BY <1>8, <1>9, <1>10, <1>11, <1>12, <1>13, <1>14, <1>15, <1>16 DEF Sound

\* The axes are not quiet: the caller sleeps.
LEMMA LookSleepsStep ==
  ASSUME SessionTyped, Sound, NEW c \in Callers, Look(c), ~Quiet(rt)
  PROVE  SessionTyped' /\ Sound'
<1>1. /\ wait' = [wait EXCEPT ![c].at = "sleep", ![c].woken = FALSE]
  BY DEF Look, Pair
<1>2. /\ wait' \in [Callers -> Waits]
      /\ \A d \in Callers : d # c => wait'[d] = wait[d]
      /\ wait'[c].at = "sleep" /\ wait'[c].clean = wait[c].clean /\ wait'[c].seen = wait[c].seen /\ ~wait'[c].woken
  BY <1>1 DEF SessionTyped, WaitTyped, Waits, Callers
<1>3. /\ ~ended /\ wait[c].at = "look" /\ ~Quiet(rt)
      /\ UNCHANGED <<up, pi, ended, hit, rt, pc, act, down, times>>
  BY DEF Look, Pair
<1>4. SessionTyped'
  <2>1. WaitTyped'
    BY <1>2, <1>3 DEF SessionTyped, WaitTyped, Waits
  <2>2. PiTyped' /\ PipesTyped' /\ RtTyped' /\ ActTyped' /\ PcTyped' /\ CountTyped'
    BY <1>2, <1>3 DEF SessionTyped, PiTyped, PipesTyped, RtTyped, ActTyped, PcTyped, CountTyped
  <2> QED
    BY <2>1, <2>2 DEF SessionTyped
<1>5. LineInv'
  BY <1>2, <1>3 DEF Sound, LineInv, OnWay, Alone, Callers, SessionTyped, PiTyped, Real, PipesTyped, RtTyped,
     Believed, ActTyped, WaitTyped, Waits, PcTyped, CountTyped
<1>6. CallersInv'
  BY <1>2, <1>3 DEF Sound, CallersInv, Callers, SessionTyped, PiTyped, Real, PipesTyped, RtTyped, Believed,
     ActTyped, WaitTyped, Waits, PcTyped, CountTyped
<1>7. ToldInv'
  BY <1>2, <1>3 DEF Sound, ToldInv, Unanswered, SessionTyped, PiTyped, Real, PipesTyped, RtTyped, Believed,
     ActTyped, WaitTyped, Waits, PcTyped, CountTyped
<1>8. AskedInv'
  BY <1>2, <1>3, NewsTells DEF Sound, AskedInv, ToldInv, CallersInv, Reason, Callers, SessionTyped, PiTyped,
     Real, PipesTyped, RtTyped, Believed, ActTyped, WaitTyped, Waits, PcTyped, CountTyped, Unanswered, Quiet
<1>9. StoppedInv'
  BY <1>2, <1>3 DEF Sound, StoppedInv, Callers, SessionTyped, PiTyped, Real, PipesTyped, RtTyped, Believed,
     ActTyped, WaitTyped, Waits, PcTyped, CountTyped
<1>10. OwnInv'
  BY <1>2, <1>3 DEF Sound, OwnInv, SessionTyped, PiTyped, Real, PipesTyped, RtTyped, Believed, ActTyped,
     WaitTyped, Waits, PcTyped, CountTyped
<1>11. RejectsInv'
  BY <1>2, <1>3 DEF Sound, RejectsInv, AheadOf, Callers, SessionTyped, PiTyped, Real, PipesTyped, RtTyped,
     Believed, ActTyped, WaitTyped, Waits, PcTyped, CountTyped
<1>12. ReapsInv'
  BY <1>2, <1>3 DEF Sound, ReapsInv, AheadOf, OnWay, Callers, SessionTyped, PiTyped, Real, PipesTyped, RtTyped,
     Believed, ActTyped, WaitTyped, Waits, PcTyped, CountTyped
<1> QED
  BY <1>4, <1>5, <1>6, <1>7, <1>8, <1>9, <1>10, <1>11, <1>12 DEF Sound

\* The state a caller asked for is there.
LEMMA StateHeardStep ==
  ASSUME SessionTyped, Sound, Answered, StateHeard
  PROVE  SessionTyped' /\ Sound'
<1>1. /\ ~ended /\ ~Resuming /\ up[1] \in Messages /\ up[1].by # "pi" /\ up' \in Seq(Messages) /\ Loses(up, up')
      /\ UNCHANGED <<pi, down, act, ended, times, hit>>
  BY AnswerTaken DEF SessionTyped
<1>2. Known(up[1])
  BY <1>1, MessageKinds
<1>3. /\ wait["work"].at \notin {"answered", "done"} /\ wait["stop"].at \notin {"answered", "done"}
      /\ pc.work \notin {"started", "refused"} /\ pc.stop \notin {"clear+", "abort+"}
      /\ rt.rejecting \notin {"clear+", "abort+"}
  BY <1>1 DEF Resuming, Callers
<1>4. up[1].kind = "state" /\ up[1].by \in Callers /\ up[1].seen \in SUBSET {"run", "comp"} /\ UNCHANGED <<rt, pc>>
  BY <1>1, MessageKinds DEF StateHeard
<1>5. /\ wait' \in [Callers -> Waits]
      /\ \A d \in Callers : wait'[d].at = (IF d = up[1].by THEN "answered" ELSE wait[d].at)
      /\ \A d \in Callers : wait'[d].seen = (IF d = up[1].by THEN up[1].seen ELSE wait[d].seen)
      /\ \A d \in Callers : wait'[d].clean = wait[d].clean /\ wait'[d].woken = wait[d].woken
  BY <1>4 DEF StateHeard, SessionTyped, WaitTyped, Waits
<1>6. Tells(up, Asking(up[1].by))
  BY <1>1, <1>2, <1>4 DEF Loses, LosesTells, Known, KnownFor
<1>7. wait[up[1].by].at = "asked"
  BY <1>4, <1>6 DEF Sound, LineInv, OnWay
<1>8. KindsIn(down) /\ KindsIn(up')
  BY <1>1, KindsOf DEF SessionTyped, PipesTyped
<1>9. SessionTyped'
  <2>1. PipesTyped'
    BY <1>1, <1>2, <1>3, <1>4, <1>5, <1>6, <1>7, <1>8 DEF SessionTyped, PipesTyped
  <2>2. WaitTyped'
    BY <1>1, <1>2, <1>3, <1>4, <1>5, <1>6, <1>7, <1>8 DEF SessionTyped, WaitTyped, Waits
  <2>3. PiTyped' /\ RtTyped' /\ ActTyped' /\ PcTyped' /\ CountTyped'
    BY <1>1, <1>2, <1>3, <1>4, <1>5, <1>6, <1>7, <1>8 DEF SessionTyped, PiTyped, RtTyped, ActTyped, PcTyped,
       CountTyped
  <2> QED
    BY <2>1, <2>2, <2>3 DEF SessionTyped
<1>10. LineInv'
  <2>1. /\ Tells(up, Of("work")) <=> (up[1].by = "work" \/ Tells(up', Of("work")))
        /\ Tells(up, Of("stop")) <=> (up[1].by = "stop" \/ Tells(up', Of("stop")))
        /\ Tells(up, Of("reject")) <=> (up[1].by = "reject" \/ Tells(up', Of("reject")))
        /\ Tells(up, Asking("work")) <=> (up[1].by = "work" \/ Tells(up', Asking("work")))
        /\ Tells(up, Asking("stop")) <=> (up[1].by = "stop" \/ Tells(up', Asking("stop")))
        /\ Tells(up, Prompting) <=> Tells(up', Prompting)
        /\ Tells(up, ClearsBy("stop")) <=> Tells(up', ClearsBy("stop"))
        /\ Tells(up, ClearsBy("reject")) <=> Tells(up', ClearsBy("reject"))
        /\ Tells(up, AbortsBy("stop")) <=> Tells(up', AbortsBy("stop"))
        /\ Tells(up, AbortsBy("reject")) <=> Tells(up', AbortsBy("reject"))
        /\ Once(up, Of("work")) => (Once(up', Of("work")) /\ ~((up[1].by = "work" /\ Tells(up', Of("work")))))
        /\ Once(up, Of("stop")) => (Once(up', Of("stop")) /\ ~((up[1].by = "stop" /\ Tells(up', Of("stop")))))
        /\ Once(up, Of("reject")) =>
             (Once(up', Of("reject")) /\ ~((up[1].by = "reject" /\ Tells(up', Of("reject")))))
    BY <1>1, <1>2, <1>3, <1>4, <1>5, <1>6, <1>7, <1>8 DEF Known, KnownOf, KnownFor, Loses, LosesTells,
       LosesOnce, Callers
  <2> QED
    BY <1>1, <1>2, <1>3, <1>4, <1>5, <1>6, <1>7, <1>8, <2>1 DEF Sound, LineInv, OnWay, Alone, KindsIn,
       Callers, SessionTyped, PiTyped, Real, PipesTyped, RtTyped, Believed, ActTyped, WaitTyped, Waits,
       PcTyped, CountTyped
<1>11. CallersInv'
  BY <1>1, <1>2, <1>3, <1>4, <1>5, <1>6, <1>7, <1>8 DEF Sound, CallersInv, Callers, SessionTyped, PiTyped, Real,
     PipesTyped, RtTyped, Believed, ActTyped, WaitTyped, Waits, PcTyped, CountTyped
<1>12. ToldInv'
  BY <1>1, <1>2, <1>3, <1>4, <1>5, <1>6, <1>7, <1>8 DEF Sound, ToldInv, Unanswered, Known, Loses, KnownSay,
     LosesTells, LosesOpen, SessionTyped, PiTyped, Real, PipesTyped, RtTyped, Believed, ActTyped, WaitTyped,
     Waits, PcTyped, CountTyped
<1>13. AskedInv'
  BY <1>1, <1>2, <1>3, <1>4, <1>5, <1>6, <1>7, <1>8 DEF Sound, AskedInv, Reason, Callers, Known, Loses,
     KnownSay, KnownSeen, LosesTells, LosesOpen, SessionTyped, PiTyped, Real, PipesTyped, RtTyped, Believed,
     ActTyped, WaitTyped, Waits, PcTyped, CountTyped
<1>14. StoppedInv'
  <2>1. /\ Tells(up, Of("stop")) <=> (up[1].by = "stop" \/ Tells(up', Of("stop")))
        /\ Tells(up, Say({"started"})) <=> Tells(up', Say({"started"}))
        /\ First(up, Events, Of("stop")) <=> (First(up', Events, Of("stop")) /\ ~(up[1].by = "stop"))
        /\ Open(up, Say({"started"}), Of("stop")) <=> Open(up', Say({"started"}), Of("stop"))
    BY <1>1, <1>2, <1>3, <1>4, <1>5, <1>6, <1>7, <1>8 DEF Known, KnownOf, KnownSay, Loses, LosesTells,
       LosesOpen, LosesFirst, Callers
  <2> QED
    BY <1>1, <1>2, <1>3, <1>4, <1>5, <1>6, <1>7, <1>8, <2>1, OpenTells DEF Sound, StoppedInv, Callers,
       SessionTyped, PiTyped, Real, PipesTyped, RtTyped, Believed, ActTyped, WaitTyped, Waits, PcTyped,
       CountTyped
<1>15. OwnInv'
  BY <1>1, <1>2, <1>3, <1>4, <1>5, <1>6, <1>7, <1>8 DEF Sound, OwnInv, Known, Loses, KnownSay, LosesTells,
     LosesOpen, SessionTyped, PiTyped, Real, PipesTyped, RtTyped, Believed, ActTyped, WaitTyped, Waits, PcTyped,
     CountTyped
<1>16. RejectsInv'
  <2>1. /\ Tells(up, Of("work")) <=> (up[1].by = "work" \/ Tells(up', Of("work")))
        /\ Tells(up, Of("reject")) <=> (up[1].by = "reject" \/ Tells(up', Of("reject")))
        /\ Before(up, Of("reject"), Of("work")) =>
             (Before(up', Of("reject"), Of("work")) /\ ~((up[1].by = "work" /\ Tells(up', Of("reject")))))
    BY <1>1, <1>2, <1>3, <1>4, <1>5, <1>6, <1>7, <1>8 DEF Known, KnownOf, Loses, LosesTells, LosesBefore,
       Callers
  <2> QED
    BY <1>1, <1>2, <1>3, <1>4, <1>5, <1>6, <1>7, <1>8, <2>1 DEF Sound, RejectsInv, AheadOf, Callers, LineInv,
       OnWay, SessionTyped, PiTyped, Real, PipesTyped, RtTyped, Believed, ActTyped, WaitTyped, Waits, PcTyped,
       CountTyped
<1>17. ReapsInv'
  BY <1>1, <1>2, <1>3, <1>4, <1>5, <1>6, <1>7, <1>8 DEF Sound, ReapsInv, AheadOf, OnWay, Callers, Known, Loses,
     KnownOf, LosesTells, LosesBefore, SessionTyped, PiTyped, Real, PipesTyped, RtTyped, Believed, ActTyped,
     WaitTyped, Waits, PcTyped, CountTyped
<1> QED
  BY <1>9, <1>10, <1>11, <1>12, <1>13, <1>14, <1>15, <1>16, <1>17 DEF Sound

\* The prompt's answer is there.
LEMMA WorkAnsweredStep ==
  ASSUME SessionTyped, Sound, Answered, WorkAnswered
  PROVE  SessionTyped' /\ Sound'
<1>1. /\ ~ended /\ ~Resuming /\ up[1] \in Messages /\ up[1].by # "pi" /\ up' \in Seq(Messages) /\ Loses(up, up')
      /\ UNCHANGED <<pi, down, act, ended, times, hit>>
  BY AnswerTaken DEF SessionTyped
<1>2. Known(up[1])
  BY <1>1, MessageKinds
<1>3. /\ wait["work"].at \notin {"answered", "done"} /\ wait["stop"].at \notin {"answered", "done"}
      /\ pc.work \notin {"started", "refused"} /\ pc.stop \notin {"clear+", "abort+"}
      /\ rt.rejecting \notin {"clear+", "abort+"}
  BY <1>1 DEF Resuming, Callers
<1>4. up[1].kind \in {"started", "refused"} /\ up[1].by = "work" /\ UNCHANGED <<rt, wait>>
  BY DEF WorkAnswered
<1>5. pc' \in [work : {"off", "wait", "probe", "prepared", "load", "state", "prompt", "started", "refused"},
               stop : {"off", "grace", "clear", "clear+", "abort", "abort+", "idle"}]
      /\ pc'.work = up[1].kind /\ pc'.stop = pc.stop
  BY <1>4 DEF WorkAnswered, SessionTyped, PcTyped
<1>6. pc.work = "prompt" /\ ~OnWay(Of("work"))'
  BY <1>1, <1>2, <1>4 DEF Sound, LineInv, OnWay, Alone, Loses, LosesTells, LosesOnce, Known, KnownOf, KnownFor
<1>7. ~Tells(up', Say({"started"}))
  BY <1>1, <1>6, StartedTells DEF OnWay
<1>8. KindsIn(down) /\ KindsIn(up')
  BY <1>1, KindsOf DEF SessionTyped, PipesTyped
<1>9. SessionTyped'
  <2>1. PipesTyped'
    BY <1>1, <1>2, <1>3, <1>4, <1>5, <1>6, <1>7, <1>8 DEF SessionTyped, PipesTyped
  <2>2. PcTyped'
    BY <1>1, <1>2, <1>3, <1>4, <1>5, <1>6, <1>7, <1>8 DEF SessionTyped, PcTyped
  <2>3. PiTyped' /\ RtTyped' /\ ActTyped' /\ WaitTyped' /\ CountTyped'
    BY <1>1, <1>2, <1>3, <1>4, <1>5, <1>6, <1>7, <1>8 DEF SessionTyped, PiTyped, RtTyped, ActTyped, WaitTyped,
       CountTyped
  <2> QED
    BY <2>1, <2>2, <2>3 DEF SessionTyped
<1>10. LineInv'
  <2>1. /\ Tells(up, Of("work"))
        /\ Tells(up, Of("stop")) <=> Tells(up', Of("stop"))
        /\ Tells(up, Of("reject")) <=> Tells(up', Of("reject"))
        /\ Tells(up, Asking("work")) <=>
             ((up[1].kind = "get_state" \/ up[1].kind = "state") \/ Tells(up', Asking("work")))
        /\ Tells(up, Asking("stop")) <=> Tells(up', Asking("stop"))
        /\ Tells(up, Prompting) <=>
             ((up[1].kind = "prompt" \/ up[1].kind = "started" \/ up[1].kind = "refused") \/ Tells(up', Prompting))
        /\ Tells(up, ClearsBy("stop")) <=> Tells(up', ClearsBy("stop"))
        /\ Tells(up, ClearsBy("reject")) <=> Tells(up', ClearsBy("reject"))
        /\ Tells(up, AbortsBy("stop")) <=> Tells(up', AbortsBy("stop"))
        /\ Tells(up, AbortsBy("reject")) <=> Tells(up', AbortsBy("reject"))
        /\ Once(up, Of("work")) => (Once(up', Of("work")) /\ ~(Tells(up', Of("work"))))
        /\ Once(up, Of("stop")) => Once(up', Of("stop"))
        /\ Once(up, Of("reject")) => Once(up', Of("reject"))
    BY <1>1, <1>2, <1>3, <1>4, <1>5, <1>6, <1>7, <1>8 DEF Known, KnownOf, KnownFor, Loses, LosesTells,
       LosesOnce, Callers
  <2> QED
    BY <1>1, <1>2, <1>3, <1>4, <1>5, <1>6, <1>7, <1>8, <2>1 DEF Sound, LineInv, OnWay, Alone, KindsIn,
       Callers, SessionTyped, PiTyped, Real, PipesTyped, RtTyped, Believed, ActTyped, WaitTyped, Waits,
       PcTyped, CountTyped
<1>11. CallersInv'
  BY <1>1, <1>2, <1>3, <1>4, <1>5, <1>6, <1>7, <1>8 DEF Sound, CallersInv, Callers, SessionTyped, PiTyped, Real,
     PipesTyped, RtTyped, Believed, ActTyped, WaitTyped, Waits, PcTyped, CountTyped
<1>12. ToldInv'
  BY <1>1, <1>2, <1>3, <1>4, <1>5, <1>6, <1>7, <1>8 DEF Sound, ToldInv, Unanswered, Known, Loses, KnownSay,
     LosesTells, LosesOpen, SessionTyped, PiTyped, Real, PipesTyped, RtTyped, Believed, ActTyped, WaitTyped,
     Waits, PcTyped, CountTyped
<1>13. AskedInv'
  BY <1>1, <1>2, <1>3, <1>4, <1>5, <1>6, <1>7, <1>8 DEF Sound, AskedInv, Reason, Callers, Known, Loses,
     KnownSay, KnownSeen, LosesTells, LosesOpen, SessionTyped, PiTyped, Real, PipesTyped, RtTyped, Believed,
     ActTyped, WaitTyped, Waits, PcTyped, CountTyped
<1>14. StoppedInv'
  BY <1>1, <1>2, <1>3, <1>4, <1>5, <1>6, <1>7, <1>8 DEF Sound, StoppedInv, Callers, Known, Loses, KnownOf,
     KnownSay, LosesTells, LosesOpen, LosesFirst, SessionTyped, PiTyped, Real, PipesTyped, RtTyped, Believed,
     ActTyped, WaitTyped, Waits, PcTyped, CountTyped
<1>15. OwnInv'
  <2>1. /\ Tells(up, Say({"settled"})) <=> ((up[1].kind = "settled") \/ Tells(up', Say({"settled"})))
        /\ Open(up, Say({"started"}), Say({"settled"})) <=>
             (Open(up', Say({"started"}), Say({"settled"})) \/ ((up[1].kind = "started") /\ ~Tells(up', Say({"settled"}))))
    BY <1>1, <1>2, <1>3, <1>4, <1>5, <1>6, <1>7, <1>8 DEF Known, KnownSay, Loses, LosesTells, LosesOpen, Callers
  <2> QED
    BY <1>1, <1>2, <1>3, <1>4, <1>5, <1>6, <1>7, <1>8, <2>1, OpenTells DEF Sound, OwnInv, SessionTyped,
       PiTyped, Real, PipesTyped, RtTyped, Believed, ActTyped, WaitTyped, Waits, PcTyped, CountTyped
<1>16. RejectsInv'
  BY <1>1, <1>2, <1>3, <1>4, <1>5, <1>6, <1>7, <1>8 DEF Sound, RejectsInv, AheadOf, Callers, Known, Loses,
     KnownOf, LosesTells, LosesBefore, SessionTyped, PiTyped, Real, PipesTyped, RtTyped, Believed, ActTyped,
     WaitTyped, Waits, PcTyped, CountTyped
<1>17. ReapsInv'
  BY <1>1, <1>2, <1>3, <1>4, <1>5, <1>6, <1>7, <1>8 DEF Sound, ReapsInv, AheadOf, OnWay, Callers, Known, Loses,
     KnownOf, LosesTells, LosesBefore, SessionTyped, PiTyped, Real, PipesTyped, RtTyped, Believed, ActTyped,
     WaitTyped, Waits, PcTyped, CountTyped
<1> QED
  BY <1>9, <1>10, <1>11, <1>12, <1>13, <1>14, <1>15, <1>16, <1>17 DEF Sound

\* The stop's command was answered.
LEMMA StopAnsweredStep ==
  ASSUME SessionTyped, Sound, Answered, StopAnswered
  PROVE  SessionTyped' /\ Sound'
<1>1. /\ ~ended /\ ~Resuming /\ up[1] \in Messages /\ up[1].by # "pi" /\ up' \in Seq(Messages) /\ Loses(up, up')
      /\ UNCHANGED <<pi, down, act, ended, times, hit>>
  BY AnswerTaken DEF SessionTyped
<1>2. Known(up[1])
  BY <1>1, MessageKinds
<1>3. /\ wait["work"].at \notin {"answered", "done"} /\ wait["stop"].at \notin {"answered", "done"}
      /\ pc.work \notin {"started", "refused"} /\ pc.stop \notin {"clear+", "abort+"}
      /\ rt.rejecting \notin {"clear+", "abort+"}
  BY <1>1 DEF Resuming, Callers
<1>4. up[1].kind \in {"cleared", "aborted"} /\ up[1].by = "stop" /\ UNCHANGED <<rt, wait>>
  BY DEF StopAnswered
<1>5. pc' \in [work : {"off", "wait", "probe", "prepared", "load", "state", "prompt", "started", "refused"},
               stop : {"off", "grace", "clear", "clear+", "abort", "abort+", "idle"}]
      /\ pc'.work = pc.work /\ pc'.stop = (IF pc.stop = "clear" THEN "clear+" ELSE "abort+")
  BY <1>4 DEF StopAnswered, GoesOnTo, SessionTyped, PcTyped
<1>6. pc.stop \in {"clear", "abort"} /\ ~OnWay(Of("stop"))'
  BY <1>1, <1>2, <1>4 DEF Sound, LineInv, OnWay, Alone, Loses, LosesTells, LosesOnce, Known, KnownOf, KnownFor
<1>7. KindsIn(down) /\ KindsIn(up')
  BY <1>1, KindsOf DEF SessionTyped, PipesTyped
<1>8. SessionTyped'
  <2>1. PipesTyped'
    BY <1>1, <1>2, <1>3, <1>4, <1>5, <1>6, <1>7 DEF SessionTyped, PipesTyped
  <2>2. PcTyped'
    BY <1>1, <1>2, <1>3, <1>4, <1>5, <1>6, <1>7 DEF SessionTyped, PcTyped
  <2>3. PiTyped' /\ RtTyped' /\ ActTyped' /\ WaitTyped' /\ CountTyped'
    BY <1>1, <1>2, <1>3, <1>4, <1>5, <1>6, <1>7 DEF SessionTyped, PiTyped, RtTyped, ActTyped, WaitTyped,
       CountTyped
  <2> QED
    BY <2>1, <2>2, <2>3 DEF SessionTyped
<1>9. LineInv'
  <2>1. /\ Tells(up, Of("work")) <=> Tells(up', Of("work"))
        /\ Tells(up, Of("stop"))
        /\ Tells(up, Of("reject")) <=> Tells(up', Of("reject"))
        /\ Tells(up, Asking("work")) <=> Tells(up', Asking("work"))
        /\ Tells(up, Asking("stop")) <=>
             ((up[1].kind = "get_state" \/ up[1].kind = "state") \/ Tells(up', Asking("stop")))
        /\ Tells(up, Prompting) <=>
             ((up[1].kind = "prompt" \/ up[1].kind = "started" \/ up[1].kind = "refused") \/ Tells(up', Prompting))
        /\ Tells(up, ClearsBy("stop")) <=>
             ((up[1].kind = "clear_queue" \/ up[1].kind = "cleared") \/ Tells(up', ClearsBy("stop")))
        /\ Tells(up, ClearsBy("reject")) <=> Tells(up', ClearsBy("reject"))
        /\ Tells(up, AbortsBy("stop")) <=>
             ((up[1].kind = "abort" \/ up[1].kind = "aborted") \/ Tells(up', AbortsBy("stop")))
        /\ Tells(up, AbortsBy("reject")) <=> Tells(up', AbortsBy("reject"))
        /\ Once(up, Of("work")) => Once(up', Of("work"))
        /\ Once(up, Of("stop")) => (Once(up', Of("stop")) /\ ~(Tells(up', Of("stop"))))
        /\ Once(up, Of("reject")) => Once(up', Of("reject"))
    BY <1>1, <1>2, <1>3, <1>4, <1>5, <1>6, <1>7 DEF Known, KnownOf, KnownFor, Loses, LosesTells, LosesOnce,
       Callers
  <2> QED
    BY <1>1, <1>2, <1>3, <1>4, <1>5, <1>6, <1>7, <2>1 DEF Sound, LineInv, OnWay, Alone, KindsIn, Callers,
       SessionTyped, PiTyped, Real, PipesTyped, RtTyped, Believed, ActTyped, WaitTyped, Waits, PcTyped,
       CountTyped
<1>10. CallersInv'
  BY <1>1, <1>2, <1>3, <1>4, <1>5, <1>6, <1>7 DEF Sound, CallersInv, Callers, SessionTyped, PiTyped, Real,
     PipesTyped, RtTyped, Believed, ActTyped, WaitTyped, Waits, PcTyped, CountTyped
<1>11. ToldInv'
  BY <1>1, <1>2, <1>3, <1>4, <1>5, <1>6, <1>7 DEF Sound, ToldInv, Unanswered, Known, Loses, KnownSay,
     LosesTells, LosesOpen, SessionTyped, PiTyped, Real, PipesTyped, RtTyped, Believed, ActTyped, WaitTyped,
     Waits, PcTyped, CountTyped
<1>12. AskedInv'
  BY <1>1, <1>2, <1>3, <1>4, <1>5, <1>6, <1>7 DEF Sound, AskedInv, Reason, Callers, Known, Loses, KnownSay,
     KnownSeen, LosesTells, LosesOpen, SessionTyped, PiTyped, Real, PipesTyped, RtTyped, Believed, ActTyped,
     WaitTyped, Waits, PcTyped, CountTyped
<1>13. StoppedInv'
  BY <1>1, <1>2, <1>3, <1>4, <1>5, <1>6, <1>7 DEF Sound, StoppedInv, Callers, Known, Loses, KnownOf, KnownSay,
     LosesTells, LosesOpen, LosesFirst, SessionTyped, PiTyped, Real, PipesTyped, RtTyped, Believed, ActTyped,
     WaitTyped, Waits, PcTyped, CountTyped
<1>14. OwnInv'
  BY <1>1, <1>2, <1>3, <1>4, <1>5, <1>6, <1>7 DEF Sound, OwnInv, Known, Loses, KnownSay, LosesTells, LosesOpen,
     SessionTyped, PiTyped, Real, PipesTyped, RtTyped, Believed, ActTyped, WaitTyped, Waits, PcTyped, CountTyped
<1>15. RejectsInv'
  BY <1>1, <1>2, <1>3, <1>4, <1>5, <1>6, <1>7 DEF Sound, RejectsInv, AheadOf, Callers, Known, Loses, KnownOf,
     LosesTells, LosesBefore, SessionTyped, PiTyped, Real, PipesTyped, RtTyped, Believed, ActTyped, WaitTyped,
     Waits, PcTyped, CountTyped
<1>16. ReapsInv'
  BY <1>1, <1>2, <1>3, <1>4, <1>5, <1>6, <1>7 DEF Sound, ReapsInv, AheadOf, OnWay, Callers, Known, Loses,
     KnownOf, LosesTells, LosesBefore, SessionTyped, PiTyped, Real, PipesTyped, RtTyped, Believed, ActTyped,
     WaitTyped, Waits, PcTyped, CountTyped
<1> QED
  BY <1>8, <1>9, <1>10, <1>11, <1>12, <1>13, <1>14, <1>15, <1>16 DEF Sound

\* A command of the rejection was answered.
LEMMA RejectAnsweredStep ==
  ASSUME SessionTyped, Sound, Answered, RejectAnswered
  PROVE  SessionTyped' /\ Sound'
<1>1. /\ ~ended /\ ~Resuming /\ up[1] \in Messages /\ up[1].by # "pi" /\ up' \in Seq(Messages) /\ Loses(up, up')
      /\ UNCHANGED <<pi, down, act, ended, times, hit>>
  BY AnswerTaken DEF SessionTyped
<1>2. Known(up[1])
  BY <1>1, MessageKinds
<1>3. /\ wait["work"].at \notin {"answered", "done"} /\ wait["stop"].at \notin {"answered", "done"}
      /\ pc.work \notin {"started", "refused"} /\ pc.stop \notin {"clear+", "abort+"}
      /\ rt.rejecting \notin {"clear+", "abort+"}
  BY <1>1 DEF Resuming, Callers
<1>4. up[1].kind \in {"cleared", "aborted"} /\ up[1].by = "reject" /\ UNCHANGED <<pc, wait>>
  BY DEF RejectAnswered
<1>5. /\ rt' \in Believed /\ rt'.rejecting = (IF rt.rejecting = "clear" THEN "clear+" ELSE "abort+")
      /\ rt'.streaming = rt.streaming /\ rt'.unsettled = rt.unsettled /\ rt'.comp = rt.comp
      /\ rt'.retrying = rt.retrying
      /\ rt'.maint = rt.maint /\ rt'.bridge = rt.bridge /\ rt'.pending = rt.pending
  BY <1>4 DEF RejectAnswered, GoesOnTo, SessionTyped, RtTyped, Believed
<1>6. rt.rejecting \in {"clear", "abort"} /\ ~OnWay(Of("reject"))'
  BY <1>1, <1>2, <1>4 DEF Sound, LineInv, OnWay, Alone, Loses, LosesTells, LosesOnce, Known, KnownOf, KnownFor
<1>7. KindsIn(down) /\ KindsIn(up')
  BY <1>1, KindsOf DEF SessionTyped, PipesTyped
<1>8. SessionTyped'
  <2>1. PipesTyped'
    BY <1>1, <1>2, <1>3, <1>4, <1>5, <1>6, <1>7 DEF SessionTyped, PipesTyped
  <2>2. RtTyped'
    BY <1>1, <1>2, <1>3, <1>4, <1>5, <1>6, <1>7 DEF SessionTyped, RtTyped, Believed
  <2>3. PiTyped' /\ ActTyped' /\ WaitTyped' /\ PcTyped' /\ CountTyped'
    BY <1>1, <1>2, <1>3, <1>4, <1>5, <1>6, <1>7 DEF SessionTyped, PiTyped, ActTyped, WaitTyped, PcTyped,
       CountTyped
  <2> QED
    BY <2>1, <2>2, <2>3 DEF SessionTyped
<1>9. LineInv'
  <2>1. /\ Tells(up, Of("work")) <=> Tells(up', Of("work"))
        /\ Tells(up, Of("stop")) <=> Tells(up', Of("stop"))
        /\ Tells(up, Of("reject"))
        /\ Tells(up, Asking("work")) <=> Tells(up', Asking("work"))
        /\ Tells(up, Asking("stop")) <=> Tells(up', Asking("stop"))
        /\ Tells(up, Prompting) <=>
             ((up[1].kind = "prompt" \/ up[1].kind = "started" \/ up[1].kind = "refused") \/ Tells(up', Prompting))
        /\ Tells(up, ClearsBy("stop")) <=> Tells(up', ClearsBy("stop"))
        /\ Tells(up, ClearsBy("reject")) <=>
             ((up[1].kind = "clear_queue" \/ up[1].kind = "cleared") \/ Tells(up', ClearsBy("reject")))
        /\ Tells(up, AbortsBy("stop")) <=> Tells(up', AbortsBy("stop"))
        /\ Tells(up, AbortsBy("reject")) <=>
             ((up[1].kind = "abort" \/ up[1].kind = "aborted") \/ Tells(up', AbortsBy("reject")))
        /\ Once(up, Of("work")) => Once(up', Of("work"))
        /\ Once(up, Of("stop")) => Once(up', Of("stop"))
        /\ Once(up, Of("reject")) => (Once(up', Of("reject")) /\ ~(Tells(up', Of("reject"))))
    BY <1>1, <1>2, <1>3, <1>4, <1>5, <1>6, <1>7 DEF Known, KnownOf, KnownFor, Loses, LosesTells, LosesOnce,
       Callers
  <2> QED
    BY <1>1, <1>2, <1>3, <1>4, <1>5, <1>6, <1>7, <2>1 DEF Sound, LineInv, OnWay, Alone, KindsIn, Callers,
       SessionTyped, PiTyped, Real, PipesTyped, RtTyped, Believed, ActTyped, WaitTyped, Waits, PcTyped,
       CountTyped
<1>10. CallersInv'
  BY <1>1, <1>2, <1>3, <1>4, <1>5, <1>6, <1>7 DEF Sound, CallersInv, Callers, SessionTyped, PiTyped, Real,
     PipesTyped, RtTyped, Believed, ActTyped, WaitTyped, Waits, PcTyped, CountTyped
<1>11. ToldInv'
  BY <1>1, <1>2, <1>3, <1>4, <1>5, <1>6, <1>7 DEF Sound, ToldInv, Unanswered, Known, Loses, KnownSay,
     LosesTells, LosesOpen, SessionTyped, PiTyped, Real, PipesTyped, RtTyped, Believed, ActTyped, WaitTyped,
     Waits, PcTyped, CountTyped
<1>12. AskedInv'
  BY <1>1, <1>2, <1>3, <1>4, <1>5, <1>6, <1>7 DEF Sound, AskedInv, Reason, Callers, Known, Loses, KnownSay,
     KnownSeen, LosesTells, LosesOpen, SessionTyped, PiTyped, Real, PipesTyped, RtTyped, Believed, ActTyped,
     WaitTyped, Waits, PcTyped, CountTyped
<1>13. StoppedInv'
  BY <1>1, <1>2, <1>3, <1>4, <1>5, <1>6, <1>7 DEF Sound, StoppedInv, Callers, Known, Loses, KnownOf, KnownSay,
     LosesTells, LosesOpen, LosesFirst, SessionTyped, PiTyped, Real, PipesTyped, RtTyped, Believed, ActTyped,
     WaitTyped, Waits, PcTyped, CountTyped
<1>14. OwnInv'
  BY <1>1, <1>2, <1>3, <1>4, <1>5, <1>6, <1>7 DEF Sound, OwnInv, Known, Loses, KnownSay, LosesTells, LosesOpen,
     SessionTyped, PiTyped, Real, PipesTyped, RtTyped, Believed, ActTyped, WaitTyped, Waits, PcTyped, CountTyped
<1>15. RejectsInv'
  BY <1>1, <1>2, <1>3, <1>4, <1>5, <1>6, <1>7 DEF Sound, RejectsInv, AheadOf, Callers, Known, Loses, KnownOf,
     LosesTells, LosesBefore, SessionTyped, PiTyped, Real, PipesTyped, RtTyped, Believed, ActTyped, WaitTyped,
     Waits, PcTyped, CountTyped
<1>16. ReapsInv'
  BY <1>1, <1>2, <1>3, <1>4, <1>5, <1>6, <1>7 DEF Sound, ReapsInv, AheadOf, OnWay, Callers, Known, Loses,
     KnownOf, LosesTells, LosesBefore, SessionTyped, PiTyped, Real, PipesTyped, RtTyped, Believed, ActTyped,
     WaitTyped, Waits, PcTyped, CountTyped
<1> QED
  BY <1>8, <1>9, <1>10, <1>11, <1>12, <1>13, <1>14, <1>15, <1>16 DEF Sound

\* The abort of the compaction was answered.
LEMMA ReapAnsweredStep ==
  ASSUME SessionTyped, Sound, Answered, ReapAnswered
  PROVE  SessionTyped' /\ Sound'
<1>1. /\ ~ended /\ ~Resuming /\ up[1] \in Messages /\ up[1].by # "pi" /\ up' \in Seq(Messages) /\ Loses(up, up')
      /\ UNCHANGED <<pi, down, act, ended, times, hit>>
  BY AnswerTaken DEF SessionTyped
<1>2. Known(up[1])
  BY <1>1, MessageKinds
<1>3. /\ wait["work"].at \notin {"answered", "done"} /\ wait["stop"].at \notin {"answered", "done"}
      /\ pc.work \notin {"started", "refused"} /\ pc.stop \notin {"clear+", "abort+"}
      /\ rt.rejecting \notin {"clear+", "abort+"}
  BY <1>1 DEF Resuming, Callers
<1>4. up[1].kind = "aborted" /\ up[1].by = "reap" /\ UNCHANGED pc
  BY DEF ReapAnswered
<1>5. /\ rt' \in Believed
      /\ rt'.streaming = rt.streaming /\ rt'.unsettled = rt.unsettled /\ rt'.comp = rt.comp
      /\ rt'.retrying = rt.retrying
      /\ rt'.maint = rt.maint /\ rt'.bridge = rt.bridge /\ rt'.pending = rt.pending /\ rt'.rejecting = rt.rejecting
  BY <1>4 DEF ReapAnswered, SessionTyped, RtTyped, Believed
<1>6. /\ wait' \in [Callers -> Waits]
      /\ \A d \in Callers : wait'[d].at = wait[d].at /\ wait'[d].clean = wait[d].clean /\ wait'[d].seen = wait[d].seen /\ wait'[d].woken
  BY DEF ReapAnswered, Woken, SessionTyped, WaitTyped, Waits
<1>7. KindsIn(down) /\ KindsIn(up')
  BY <1>1, KindsOf DEF SessionTyped, PipesTyped
<1>8. SessionTyped'
  <2>1. PipesTyped'
    BY <1>1, <1>2, <1>3, <1>4, <1>5, <1>6, <1>7 DEF SessionTyped, PipesTyped
  <2>2. RtTyped'
    BY <1>1, <1>2, <1>3, <1>4, <1>5, <1>6, <1>7 DEF SessionTyped, RtTyped, Believed
  <2>3. WaitTyped'
    BY <1>1, <1>2, <1>3, <1>4, <1>5, <1>6, <1>7 DEF SessionTyped, WaitTyped, Waits
  <2>4. PiTyped' /\ ActTyped' /\ PcTyped' /\ CountTyped'
    BY <1>1, <1>2, <1>3, <1>4, <1>5, <1>6, <1>7 DEF SessionTyped, PiTyped, ActTyped, PcTyped, CountTyped
  <2> QED
    BY <2>1, <2>2, <2>3, <2>4 DEF SessionTyped
<1>9. LineInv'
  BY <1>1, <1>2, <1>3, <1>4, <1>5, <1>6, <1>7 DEF Sound, LineInv, OnWay, Alone, Callers, Known, Loses, KnownOf,
     KnownFor, LosesTells, LosesOnce, SessionTyped, PiTyped, Real, PipesTyped, RtTyped, Believed, ActTyped,
     WaitTyped, Waits, PcTyped, CountTyped
<1>10. CallersInv'
  BY <1>1, <1>2, <1>3, <1>4, <1>5, <1>6, <1>7 DEF Sound, CallersInv, Callers, SessionTyped, PiTyped, Real,
     PipesTyped, RtTyped, Believed, ActTyped, WaitTyped, Waits, PcTyped, CountTyped
<1>11. ToldInv'
  BY <1>1, <1>2, <1>3, <1>4, <1>5, <1>6, <1>7 DEF Sound, ToldInv, Unanswered, Known, Loses, KnownSay,
     LosesTells, LosesOpen, SessionTyped, PiTyped, Real, PipesTyped, RtTyped, Believed, ActTyped, WaitTyped,
     Waits, PcTyped, CountTyped
<1>12. AskedInv'
  BY <1>1, <1>2, <1>3, <1>4, <1>5, <1>6, <1>7 DEF Sound, AskedInv, Reason, Callers, Known, Loses, KnownSay,
     KnownSeen, LosesTells, LosesOpen, SessionTyped, PiTyped, Real, PipesTyped, RtTyped, Believed, ActTyped,
     WaitTyped, Waits, PcTyped, CountTyped
<1>13. StoppedInv'
  BY <1>1, <1>2, <1>3, <1>4, <1>5, <1>6, <1>7 DEF Sound, StoppedInv, Callers, Known, Loses, KnownOf, KnownSay,
     LosesTells, LosesOpen, LosesFirst, SessionTyped, PiTyped, Real, PipesTyped, RtTyped, Believed, ActTyped,
     WaitTyped, Waits, PcTyped, CountTyped
<1>14. OwnInv'
  BY <1>1, <1>2, <1>3, <1>4, <1>5, <1>6, <1>7 DEF Sound, OwnInv, Known, Loses, KnownSay, LosesTells, LosesOpen,
     SessionTyped, PiTyped, Real, PipesTyped, RtTyped, Believed, ActTyped, WaitTyped, Waits, PcTyped, CountTyped
<1>15. RejectsInv'
  BY <1>1, <1>2, <1>3, <1>4, <1>5, <1>6, <1>7 DEF Sound, RejectsInv, AheadOf, Callers, Known, Loses, KnownOf,
     LosesTells, LosesBefore, SessionTyped, PiTyped, Real, PipesTyped, RtTyped, Believed, ActTyped, WaitTyped,
     Waits, PcTyped, CountTyped
<1>16. ReapsInv'
  BY <1>1, <1>2, <1>3, <1>4, <1>5, <1>6, <1>7 DEF Sound, ReapsInv, AheadOf, OnWay, Callers, Known, Loses,
     KnownOf, LosesTells, LosesBefore, SessionTyped, PiTyped, Real, PipesTyped, RtTyped, Believed, ActTyped,
     WaitTyped, Waits, PcTyped, CountTyped
<1> QED
  BY <1>8, <1>9, <1>10, <1>11, <1>12, <1>13, <1>14, <1>15, <1>16 DEF Sound

\* An event reaches Pair.
LEMMA ObserveStep ==
  ASSUME SessionTyped, Sound, Observe, ~ended'
  PROVE  SessionTyped' /\ Sound'
<1>1. rt' = Heeded(up[1].kind) /\ wait' = Touched
  BY Observed DEF SessionTyped
<1>2. /\ up # << >> /\ up[1] \in Messages /\ up[1].by = "pi" /\ up' \in Seq(Messages) /\ Loses(up, up')
      /\ up[1].kind \in {"start", "turn", "end", "retry", "retried", "settled", "cstart", "cend"}
      /\ ~rt.bridge /\ ~(up[1].kind = "settled" /\ (rt.comp \/ rt.retrying))
      /\ UNCHANGED <<pi, pc, ended, hit>> /\ ~ended
  BY Observed DEF SessionTyped
<1>3. Known(up[1])
  BY <1>2, MessageKinds
<1>4. /\ rt' \in Believed
      /\ rt'.streaming = (IF up[1].kind = "start" THEN TRUE ELSE IF up[1].kind \in {"end", "settled"} THEN FALSE ELSE rt.streaming)
      /\ rt'.unsettled = (IF up[1].kind \in {"start", "retry"} THEN TRUE ELSE IF up[1].kind = "settled" THEN FALSE ELSE rt.unsettled)
      /\ rt'.comp = (IF up[1].kind = "cstart" THEN TRUE ELSE IF up[1].kind = "cend" THEN FALSE ELSE rt.comp)
      /\ rt'.retrying = (IF up[1].kind = "retry" THEN TRUE ELSE IF up[1].kind = "retried" THEN FALSE ELSE rt.retrying)
      /\ rt'.maint = (IF up[1].kind = "cstart" THEN rt.maint \/ Maintenance(up[1].kind) ELSE IF up[1].kind = "cend" THEN FALSE ELSE rt.maint)
      /\ rt'.bridge = rt.bridge /\ rt'.pending = rt.pending
      /\ rt'.rejecting = (IF Rejects(up[1].kind) THEN "clear" ELSE rt.rejecting)
  BY <1>1, <1>2, NotedFacts DEF SessionTyped
<1>5. /\ wait' \in [Callers -> Waits]
      /\ \A c \in Callers : wait'[c].at = wait[c].at /\ wait'[c].seen = wait[c].seen /\ ~wait'[c].clean /\ wait'[c].woken
  BY <1>1 DEF Touched, SessionTyped, WaitTyped, Waits
<1>6. /\ act' \in [on : BOOLEAN, attempted : BOOLEAN, accepted : BOOLEAN, settled : BOOLEAN]
      /\ act'.on = act.on /\ act'.attempted = act.attempted /\ act'.accepted = act.accepted
      /\ act'.settled = (act.settled \/ (up[1].kind = "settled" /\ act.on))
  BY Observed DEF SessionTyped, ActTyped
<1>7. /\ times' \in Counts
      /\ times'["dropped"] = times["dropped"] /\ times'["crowded"] = times["crowded"]
      /\ times'["early"] = (IF up[1].kind = "settled" /\ act.on /\ pc.work \notin {"off", "started"} THEN 1 ELSE times["early"])
  BY Observed DEF SessionTyped, CountTyped, Counts
<1>8. \/ Rejects(up[1].kind) /\ down' \in Seq(Commands) /\ Gains(down, down', Command("clear_queue", "reject"))
      \/ ~Rejects(up[1].kind) /\ down' = down
  BY Observed DEF SessionTyped
<1>9. /\ Command("clear_queue", "reject") \in Commands
      /\ Command("clear_queue", "reject").kind = "clear_queue"
      /\ Command("clear_queue", "reject").by = "reject"
  BY CommandFact
<1>10. Known(Command("clear_queue", "reject"))
  BY <1>9, CommandKinds
<1>11. Rejects(up[1].kind) => rt.rejecting = "no" /\ ~Live
  BY DEF Rejects, Unauthorized, OutsideLease
<1>12. Maintenance(up[1].kind) => ~Live
  BY DEF Maintenance, OutsideLease
<1>13. Maintenance(up[1].kind) \in BOOLEAN /\ Rejects(up[1].kind) \in BOOLEAN
  BY SessionAssumption DEF Maintenance, Rejects, Unauthorized
<1>14. Live <=> act.on /\ act.attempted /\ ~act.settled
  BY DEF Live
<1>15. rt.rejecting = "no" => ~OnWay(Of("reject"))
  BY NobodyAsks DEF Sound, LineInv, SessionTyped
<1>16. SessionTyped'
  <2>1. PipesTyped'
    BY <1>2, <1>3, <1>4, <1>5, <1>6, <1>7, <1>8, <1>9, <1>10, <1>11, <1>12, <1>13, <1>14, <1>15 DEF
       SessionTyped, PipesTyped
  <2>2. RtTyped'
    BY <1>2, <1>3, <1>4, <1>5, <1>6, <1>7, <1>8, <1>9, <1>10, <1>11, <1>12, <1>13, <1>14, <1>15 DEF
       SessionTyped, RtTyped, Believed
  <2>3. ActTyped'
    BY <1>2, <1>3, <1>4, <1>5, <1>6, <1>7, <1>8, <1>9, <1>10, <1>11, <1>12, <1>13, <1>14, <1>15 DEF
       SessionTyped, ActTyped
  <2>4. WaitTyped'
    BY <1>2, <1>3, <1>4, <1>5, <1>6, <1>7, <1>8, <1>9, <1>10, <1>11, <1>12, <1>13, <1>14, <1>15 DEF
       SessionTyped, WaitTyped, Waits
  <2>5. CountTyped'
    BY <1>2, <1>3, <1>4, <1>5, <1>6, <1>7, <1>8, <1>9, <1>10, <1>11, <1>12, <1>13, <1>14, <1>15 DEF
       SessionTyped, CountTyped
  <2>6. PiTyped' /\ PcTyped'
    BY <1>2, <1>3, <1>4, <1>5, <1>6, <1>7, <1>8, <1>9, <1>10, <1>11, <1>12, <1>13, <1>14, <1>15 DEF
       SessionTyped, PiTyped, PcTyped
  <2> QED
    BY <2>1, <2>2, <2>3, <2>4, <2>5, <2>6 DEF SessionTyped
<1>17. LineInv'
  <2>1. /\ Tells(up, Of("work")) <=> Tells(up', Of("work"))
        /\ Tells(up, Of("stop")) <=> Tells(up', Of("stop"))
        /\ Tells(up, Of("reject")) <=> Tells(up', Of("reject"))
        /\ Tells(up, Asking("work")) <=> Tells(up', Asking("work"))
        /\ Tells(up, Asking("stop")) <=> Tells(up', Asking("stop"))
        /\ Tells(up, Prompting) <=>
             ((up[1].kind = "prompt" \/ up[1].kind = "started" \/ up[1].kind = "refused") \/ Tells(up', Prompting))
        /\ Tells(up, ClearsBy("stop")) <=> Tells(up', ClearsBy("stop"))
        /\ Tells(up, ClearsBy("reject")) <=> Tells(up', ClearsBy("reject"))
        /\ Tells(up, AbortsBy("stop")) <=> Tells(up', AbortsBy("stop"))
        /\ Tells(up, AbortsBy("reject")) <=> Tells(up', AbortsBy("reject"))
        /\ Once(up, Of("work")) => Once(up', Of("work"))
        /\ Once(up, Of("stop")) => Once(up', Of("stop"))
        /\ Once(up, Of("reject")) => Once(up', Of("reject"))
    BY <1>2, <1>3, <1>4, <1>5, <1>6, <1>7, <1>8, <1>9, <1>10, <1>11, <1>12, <1>13, <1>14, <1>15 DEF Known,
       KnownOf, KnownFor, Loses, LosesTells, LosesOnce, Callers
  <2>2. CASE Rejects(up[1].kind)
    <3>1. /\ Tells(down', Of("work")) <=> Tells(down, Of("work"))
          /\ Tells(down', Of("stop")) <=> Tells(down, Of("stop"))
          /\ Tells(down', Of("reject"))
          /\ Tells(down', Asking("work")) <=> Tells(down, Asking("work"))
          /\ Tells(down', Asking("stop")) <=> Tells(down, Asking("stop"))
          /\ Tells(down', Prompting) <=> Tells(down, Prompting)
          /\ Tells(down', ClearsBy("stop")) <=> Tells(down, ClearsBy("stop"))
          /\ Tells(down', ClearsBy("reject"))
          /\ Tells(down', AbortsBy("stop")) <=> Tells(down, AbortsBy("stop"))
          /\ Tells(down', AbortsBy("reject")) <=> Tells(down, AbortsBy("reject"))
          /\ Once(down, Of("work")) => Once(down', Of("work"))
          /\ Once(down, Of("stop")) => Once(down', Of("stop"))
          /\ Once(down, Of("reject")) /\ ~(Tells(down, Of("reject"))) => Once(down', Of("reject"))
      BY <1>2, <1>3, <1>4, <1>5, <1>6, <1>7, <1>8, <1>9, <1>10, <1>11, <1>12, <1>13, <1>14, <1>15, <2>2 DEF
         Known, KnownOf, KnownFor, Gains, GainsTells, GainsOnce, Callers
    <3> QED
      BY <1>2, <1>3, <1>4, <1>5, <1>6, <1>7, <1>8, <1>9, <1>10, <1>11, <1>12, <1>13, <1>14, <1>15, <2>1, <2>2,
         <3>1 DEF Sound, LineInv, OnWay, Alone, Callers, SessionTyped, PiTyped, Real, PipesTyped, RtTyped,
         Believed, ActTyped, WaitTyped, Waits, PcTyped, CountTyped
  <2>3. CASE ~Rejects(up[1].kind)
    BY <1>2, <1>3, <1>4, <1>5, <1>6, <1>7, <1>8, <1>9, <1>10, <1>11, <1>12, <1>13, <1>14, <1>15, <2>1, <2>3
       DEF Sound, LineInv, OnWay, Alone, Callers, SessionTyped, PiTyped, Real, PipesTyped, RtTyped, Believed,
       ActTyped, WaitTyped, Waits, PcTyped, CountTyped
  <2> QED
    BY <2>2, <2>3
<1>18. CallersInv'
  BY <1>2, <1>3, <1>4, <1>5, <1>6, <1>7, <1>8, <1>9, <1>10, <1>11, <1>12, <1>13, <1>14, <1>15 DEF Sound,
     CallersInv, Callers, SessionTyped, PiTyped, Real, PipesTyped, RtTyped, Believed, ActTyped, WaitTyped,
     Waits, PcTyped, CountTyped
<1>19. ToldInv'
  <2>1. /\ Tells(up, Say({"settled"})) <=> ((up[1].kind = "settled") \/ Tells(up', Say({"settled"})))
        /\ Tells(up, Say({"cend"})) <=> ((up[1].kind = "cend") \/ Tells(up', Say({"cend"})))
        /\ Tells(up, Say({"started"})) <=> ((up[1].kind = "started") \/ Tells(up', Say({"started"})))
        /\ Open(up, Say({"start"}), Say({"settled"})) <=>
             (Open(up', Say({"start"}), Say({"settled"})) \/ ((up[1].kind = "start") /\ ~Tells(up', Say({"settled"}))))
        /\ Open(up, Say({"start", "retry"}), Say({"settled"})) <=>
             (Open(up', Say({"start", "retry"}), Say({"settled"})) \/ ((up[1].kind = "start" \/ up[1].kind = "retry") /\ ~Tells(up', Say({"settled"}))))
        /\ Open(up, Say({"cstart"}), Say({"cend"})) <=>
             (Open(up', Say({"cstart"}), Say({"cend"})) \/ ((up[1].kind = "cstart") /\ ~Tells(up', Say({"cend"}))))
    BY <1>2, <1>3, <1>4, <1>5, <1>6, <1>7, <1>8, <1>9, <1>10, <1>11, <1>12, <1>13, <1>14, <1>15 DEF Known,
       KnownSay, Loses, LosesTells, LosesOpen, Callers
  <2> QED
    BY <1>2, <1>3, <1>4, <1>5, <1>6, <1>7, <1>8, <1>9, <1>10, <1>11, <1>12, <1>13, <1>14, <1>15, <2>1 DEF
       Sound, ToldInv, Unanswered, SessionTyped, PiTyped, Real, PipesTyped, RtTyped, Believed, ActTyped,
       WaitTyped, Waits, PcTyped, CountTyped
<1>20. AskedInv'
  <2>1. /\ Tells(up, Say({"settled"})) <=> ((up[1].kind = "settled") \/ Tells(up', Say({"settled"})))
        /\ Tells(up, Say({"cend"})) <=> ((up[1].kind = "cend") \/ Tells(up', Say({"cend"})))
        /\ Tells(up, Say({"settled", "cend"})) <=>
             ((up[1].kind = "settled" \/ up[1].kind = "cend") \/ Tells(up', Say({"settled", "cend"})))
        /\ Open(up, Seeing("run"), Say({"settled"})) <=>
             (Open(up', Seeing("run"), Say({"settled"})) \/ (((up[1].kind = "state") /\ "run" \in up[1].seen) /\ ~Tells(up', Say({"settled"}))))
        /\ Open(up, Seeing("comp"), Say({"cend"})) <=>
             (Open(up', Seeing("comp"), Say({"cend"})) \/ (((up[1].kind = "state") /\ "comp" \in up[1].seen) /\ ~Tells(up', Say({"cend"}))))
    BY <1>2, <1>3, <1>4, <1>5, <1>6, <1>7, <1>8, <1>9, <1>10, <1>11, <1>12, <1>13, <1>14, <1>15 DEF Known,
       KnownSay, KnownSeen, Loses, LosesTells, LosesOpen, Callers
  <2> QED
    BY <1>2, <1>3, <1>4, <1>5, <1>6, <1>7, <1>8, <1>9, <1>10, <1>11, <1>12, <1>13, <1>14, <1>15, <2>1 DEF
       Sound, AskedInv, Reason, Callers, SessionTyped, PiTyped, Real, PipesTyped, RtTyped, Believed, ActTyped,
       WaitTyped, Waits, PcTyped, CountTyped
<1>21. StoppedInv'
  <2>1. /\ Tells(up, Of("stop")) <=> Tells(up', Of("stop"))
        /\ Tells(up, Say({"started"})) <=> ((up[1].kind = "started") \/ Tells(up', Say({"started"})))
        /\ First(up, Events, Of("stop"))
        /\ Open(up, Say({"started"}), Of("stop")) <=>
             (Open(up', Say({"started"}), Of("stop")) \/ ((up[1].kind = "started") /\ ~Tells(up', Of("stop"))))
    BY <1>2, <1>3, <1>4, <1>5, <1>6, <1>7, <1>8, <1>9, <1>10, <1>11, <1>12, <1>13, <1>14, <1>15 DEF Known,
       KnownOf, KnownSay, Loses, LosesTells, LosesOpen, LosesFirst, Callers
  <2> QED
    BY <1>2, <1>3, <1>4, <1>5, <1>6, <1>7, <1>8, <1>9, <1>10, <1>11, <1>12, <1>13, <1>14, <1>15, <2>1 DEF
       Sound, StoppedInv, Callers, SessionTyped, PiTyped, Real, PipesTyped, RtTyped, Believed, ActTyped,
       WaitTyped, Waits, PcTyped, CountTyped
<1>22. OwnInv'
  <2>1. /\ Tells(up, Say({"settled"})) <=> ((up[1].kind = "settled") \/ Tells(up', Say({"settled"})))
        /\ Open(up, Say({"started"}), Say({"settled"})) <=>
             (Open(up', Say({"started"}), Say({"settled"})) \/ ((up[1].kind = "started") /\ ~Tells(up', Say({"settled"}))))
    BY <1>2, <1>3, <1>4, <1>5, <1>6, <1>7, <1>8, <1>9, <1>10, <1>11, <1>12, <1>13, <1>14, <1>15 DEF Known,
       KnownSay, Loses, LosesTells, LosesOpen, Callers
  <2> QED
    BY <1>2, <1>3, <1>4, <1>5, <1>6, <1>7, <1>8, <1>9, <1>10, <1>11, <1>12, <1>13, <1>14, <1>15, <2>1 DEF
       Sound, OwnInv, SessionTyped, PiTyped, Real, PipesTyped, RtTyped, Believed, ActTyped, WaitTyped, Waits,
       PcTyped, CountTyped
<1>23. RejectsInv'
  <2>1. /\ Tells(up, Of("work")) <=> Tells(up', Of("work"))
        /\ Tells(up, Of("reject")) <=> Tells(up', Of("reject"))
        /\ Before(up, Of("reject"), Of("work")) => Before(up', Of("reject"), Of("work"))
    BY <1>2, <1>3, <1>4, <1>5, <1>6, <1>7, <1>8, <1>9, <1>10, <1>11, <1>12, <1>13, <1>14, <1>15 DEF Known,
       KnownOf, Loses, LosesTells, LosesBefore, Callers
  <2>2. times'["early"] = 0 /\ act'.on /\ act'.attempted /\ ~act'.settled =>
          /\ times["early"] = 0 /\ act.on /\ act.attempted /\ ~act.settled /\ down' = down
          /\ rt'.rejecting = rt.rejecting
    BY <1>2, <1>3, <1>4, <1>5, <1>6, <1>7, <1>8, <1>9, <1>10, <1>11, <1>12, <1>13, <1>14, <1>15
  <2> QED
    BY <1>2, <1>5, <2>1, <2>2 DEF Sound, RejectsInv, AheadOf, Callers
<1>24. ReapsInv'
  <2>1. /\ Tells(up, Of("work")) <=> Tells(up', Of("work"))
        /\ Tells(up, Of("reap")) <=> Tells(up', Of("reap"))
        /\ Before(up, Of("reap"), Of("work")) => Before(up', Of("reap"), Of("work"))
    BY <1>2, <1>3, <1>4, <1>5, <1>6, <1>7, <1>8, <1>9, <1>10, <1>11, <1>12, <1>13, <1>14, <1>15 DEF Known,
       KnownOf, Loses, LosesTells, LosesBefore, Callers
  <2>2. times'["early"] = 0 /\ act'.on /\ act'.attempted /\ ~act'.settled =>
          times["early"] = 0 /\ Live /\ act.on /\ act.attempted /\ ~act.settled
    BY <1>2, <1>3, <1>4, <1>5, <1>6, <1>7, <1>8, <1>9, <1>10, <1>11, <1>12, <1>13, <1>14, <1>15
  <2>3. Tells(down', Of("reap")) <=> Tells(down, Of("reap"))
    BY <1>2, <1>3, <1>4, <1>5, <1>6, <1>7, <1>8, <1>9, <1>10, <1>11, <1>12, <1>13, <1>14, <1>15 DEF Known,
       KnownOf, Gains, GainsTells
  <2>4. times'["early"] = 0 => times["early"] = 0
    BY <1>2, <1>3, <1>4, <1>5, <1>6, <1>7, <1>8, <1>9, <1>10, <1>11, <1>12, <1>13, <1>14, <1>15
  <2>5. (times'["early"] = 0 /\ times'["crowded"] = 0 => (rt'.maint => rt'.comp))
    BY <1>2, <1>4, <1>7, <1>13, <2>4 DEF Sound, ReapsInv, SessionTyped, RtTyped, Believed
  <2> QED
    BY <1>2, <1>4, <1>5, <1>7, <1>12, <1>13, <2>1, <2>2, <2>3, <2>5 DEF Sound, ReapsInv, CallersInv, AheadOf,
       OnWay, Callers, SessionTyped, RtTyped, Believed
<1> QED
  BY <1>16, <1>17, <1>18, <1>19, <1>20, <1>21, <1>22, <1>23, <1>24 DEF Sound


\* The process is killed: only the pipe from it may have lost its first message.
LEMMA DiesStep ==
  ASSUME SessionTyped, SessionNext, ended'
  PROVE  SessionTyped' /\ UNCHANGED <<pi, down, rt, act, wait, pc, times, hit>>
<1>1. UNCHANGED <<pi, down, rt, act, wait, pc, times, hit>> /\ (up' = up \/ (up # << >> /\ up' = Tail(up)))
  <2>1. CASE Observe
    BY <2>1 DEF Observe, Dies
  <2>2. CASE Answered
    BY <2>2 DEF Answered
  <2>3. CASE \E c \in Callers : Look(c) \/ Heard(c) \/ Wake(c)
    BY <2>3 DEF Look, Heard, Wake, Pair
  <2>4. CASE Probe \/ Prepared \/ StateLoaded \/ Prompt \/ Accept \/ Revoked
    BY <2>4 DEF Probe, Prepared, StateLoaded, Prompt, Accept, Revoked, Proven, Ask
  <2>5. CASE NotProven \/ Late
    BY <2>5 DEF NotProven, Late, Dies
  <2>6. CASE Cleared \/ Aborted \/ Stopped \/ RejectGoesOn \/ GraceOver \/ CompactionLate
    BY <2>6 DEF Cleared, Aborted, Stopped, RejectGoesOn, GraceOver, CompactionLate
  <2>7. CASE PiActs
    BY <2>7 DEF PiActs, StrayRun, Turn, AgentEnd, RetryStart, RetryEnd, Settle, CompactionStart, CompactionEnd,
       HeldStarts, Receive
  <2>8. CASE Asked
    BY <2>8 DEF Asked, Reserve, PrepareContext, Activate, SettleOrAbort, AbortCurrent, Ask
  <2> QED
    BY <2>1, <2>2, <2>3, <2>4, <2>5, <2>6, <2>7, <2>8 DEF SessionNext, Arrives, GoesOn, Clock
<1>2. up' \in Seq(Messages)
  <2>1. CASE up' = up
    BY <2>1 DEF SessionTyped, PipesTyped
  <2>2. CASE up # << >> /\ up' = Tail(up)
    BY <2>2, Popped DEF SessionTyped, PipesTyped
  <2> QED
    BY <1>1, <2>1, <2>2
<1>3. CountTyped'
  BY <1>1 DEF SessionTyped, CountTyped
<1>4. PiTyped' /\ PipesTyped' /\ RtTyped' /\ ActTyped' /\ WaitTyped' /\ PcTyped'
  BY <1>1, <1>2 DEF SessionTyped, PiTyped, PipesTyped, RtTyped, ActTyped, WaitTyped, PcTyped
<1> QED
  BY <1>1, <1>3, <1>4 DEF SessionTyped

\* A step that is no fault keeps the session in order.
LEMMA SoundStep ==
  ASSUME SessionTyped, Sound, SessionNext, ~ended'
  PROVE  SessionTyped' /\ Sound'
<1>1. CASE Observe
  BY <1>1, ObserveStep
<1>2. CASE Answered
  BY <1>2, AnswerTaken, StateHeardStep, WorkAnsweredStep, StopAnsweredStep, RejectAnsweredStep,
     ReapAnsweredStep DEF SessionTyped
<1>3. ASSUME NEW c \in Callers, Look(c) PROVE SessionTyped' /\ Sound'
  BY <1>3, WorkAsksStep, StopAsksStep, LookSleepsStep DEF Callers
<1>4. ASSUME NEW c \in Callers, Heard(c) \/ Wake(c) PROVE SessionTyped' /\ Sound'
  BY <1>4, HeardStep, WakeStep
<1>5. CASE Probe \/ Prepared \/ StateLoaded \/ Prompt \/ Accept \/ Revoked
  BY <1>5, ProbeStep, PreparedStep, StateLoadedStep, PromptStep, AcceptStep, RevokedStep
<1>6. CASE NotProven \/ Late
  BY <1>6 DEF NotProven, Late, Dies
<1>7. CASE Cleared \/ Aborted \/ Stopped \/ GraceOver
  BY <1>7, ClearedStep, AbortedStep, StoppedStep, GraceOverStep
<1>8. CASE RejectGoesOn
  <2>1. rt.rejecting = "clear+" \/ rt.rejecting = "abort+"
    BY <1>8 DEF RejectGoesOn
  <2> QED
    BY <1>8, <2>1, RejectAbortsStep, RejectOverStep
<1>9. CASE CompactionLate
  BY <1>9, ReapAbortsStep, ReapLeftStep
<1>10. CASE Receive
  BY <1>10, Received, ReadAnsweredStep, ClearAnsweredStep, AbortAnsweredStep, PromptStartsStep, PromptHeldStep,
     PromptRefusedStep DEF SessionTyped
<1>11. CASE PiActs /\ ~Receive
  BY <1>11, StrayRunStep, TurnStep, AgentEndStep, RetryStartStep, RetryEndStep, SettleStep, CompactionStartStep,
     CompactionEndStep, HeldStartsStep DEF PiActs
<1>12. CASE Asked
  BY <1>12, ReserveStep, PrepareContextStep, ActivateStep, SettleOrAbortStep, AbortCurrentStep DEF Asked
<1> QED
  BY <1>1, <1>2, <1>3, <1>4, <1>5, <1>6, <1>7, <1>8, <1>9, <1>10, <1>11, <1>12 DEF SessionNext, Arrives,
     GoesOn, Clock

\* What happened stays counted; and only an abort that Pi carries out is noted in the history.
LEMMA HistoryStep ==
  ASSUME SessionTyped, SessionNext
  PROVE  /\ times["early"] > 0 => times'["early"] > 0
         /\ times["crowded"] > 0 => times'["crowded"] > 0
         /\ hit' = hit \/ (Receive /\ AbortAnswered /\ UNCHANGED times)
<1> USE DEF SessionTyped
<1>1. CASE Observe
  BY <1>1 DEF Observe, Dies, CountTyped, Counts
<1>2. CASE Answered
  BY <1>2 DEF Answered
<1>3. CASE \E c \in Callers : Look(c) \/ Heard(c) \/ Wake(c)
  BY <1>3 DEF Look, Heard, Wake, Pair
<1>4. CASE Probe \/ Prepared \/ StateLoaded \/ Prompt \/ Accept
  BY <1>4 DEF Probe, Prepared, StateLoaded, Prompt, Accept
<1>5. CASE Revoked
  BY <1>5 DEF Revoked, CountTyped, Counts
<1>6. CASE NotProven \/ Late
  BY <1>6 DEF NotProven, Late, Dies
<1>7. CASE Cleared \/ Aborted \/ Stopped \/ RejectGoesOn \/ GraceOver \/ CompactionLate
  BY <1>7 DEF Cleared, Aborted, Stopped, RejectGoesOn, GraceOver, CompactionLate
<1>8. CASE Receive
  BY <1>8, Received DEF ReadAnswered, ClearAnswered, PromptStarts, PromptHeld, PromptRefused
<1>9. CASE StrayRun \/ Turn \/ RetryStart \/ CompactionStart
  BY <1>9, CountFacts DEF StrayRun, Turn, RetryStart, CompactionStart, Emit
<1>10. CASE AgentEnd \/ RetryEnd \/ Settle \/ CompactionEnd \/ HeldStarts
  BY <1>10 DEF AgentEnd, RetryEnd, Settle, CompactionEnd, HeldStarts, Emit
<1>11. CASE Reserve \/ SettleOrAbort \/ AbortCurrent
  BY <1>11, CountFacts DEF Reserve, SettleOrAbort, AbortCurrent
<1>12. CASE PrepareContext
  BY <1>12, CountFacts DEF PrepareContext
<1>13. CASE Activate
  BY <1>13 DEF Activate
<1> QED
  BY <1>1, <1>2, <1>3, <1>4, <1>5, <1>6, <1>7, <1>8, <1>9, <1>10, <1>11, <1>12, <1>13 DEF SessionNext,
     Arrives, GoesOn, Clock, PiActs, Asked

\* Pair's own aborts find no run of a live activation, but for the two cases that are known.
LEMMA AbortMisses ==
  ASSUME SessionTyped, Sound, OwnRunKept, Receive, AbortAnswered
  PROVE  hit' = hit \/ times["early"] > 0 \/ (hit' = "reap" /\ times["crowded"] > 0)
<1> SUFFICES ASSUME hit' # hit, times["early"] = 0
             PROVE  hit' = "reap" /\ times["crowded"] > 0
  BY DEF SessionTyped, CountTyped, Counts
<1>1. pi.run = "own" /\ act.on /\ down[1].by # "stop" /\ hit' = down[1].by /\ down[1].kind = "abort"
  BY DEF AbortAnswered
<1>2. down[1] \in Commands /\ Loses(down, down')
  BY Received DEF SessionTyped
<1>3. Known(down[1]) /\ down[1].by \in {"reject", "reap"}
  BY <1>1, <1>2, CommandKinds
<1>4. OnWay(Of(down[1].by))
  BY <1>2, <1>3 DEF OnWay, Loses, LosesTells, Known, KnownOf
<1>5. ~act.settled /\ pc.work \in {"prompt", "started", "off"} /\ act.attempted
  BY <1>1 DEF Sound, OwnInv, CallersInv
<1>6. rt.rejecting = "no"
  BY <1>1, <1>5 DEF Sound, RejectsInv
<1>7. ~OnWay(Of("reject"))
  BY <1>6, NobodyAsks DEF Sound, LineInv, SessionTyped
<1>8. ~(times["crowded"] = 0)
  BY <1>1, <1>3, <1>4, <1>5, <1>7 DEF Sound, ReapsInv
<1>9. times["crowded"] > 0
  BY <1>8 DEF SessionTyped, CountTyped, Counts
<1> QED
  BY <1>1, <1>3, <1>4, <1>7, <1>9

LEMMA SessionInitially ==
  ASSUME SessionInit
  PROVE  SessionInv
<1>1. pi = Idle /\ down = << >> /\ up = << >> /\ act = NoAct /\ ended = FALSE /\ hit = "no"
  BY DEF SessionInit
<1>2. /\ ~rt.streaming /\ ~rt.unsettled /\ ~rt.comp /\ ~rt.retrying /\ ~rt.maint /\ ~rt.bridge /\ ~rt.pending
      /\ rt.rejecting = "no" /\ rt \in Believed
  BY DEF SessionInit, Believed
<1>3. pi \in Real /\ pi.run = "none" /\ pi.at = "idle" /\ ~pi.comp /\ ~pi.held
  BY <1>1 DEF Idle, Real
<1>4. /\ act \in [on : BOOLEAN, attempted : BOOLEAN, accepted : BOOLEAN, settled : BOOLEAN]
      /\ ~act.on /\ ~act.attempted /\ ~act.accepted /\ ~act.settled
  BY <1>1 DEF NoAct
<1>5. wait \in [Callers -> Waits] /\ wait["work"].at = "off" /\ wait["stop"].at = "off"
  BY DEF SessionInit, Waits, Callers, NoWait
<1>6. PcTyped /\ pc.work = "off" /\ pc.stop = "off"
  BY DEF SessionInit, PcTyped
<1>7. CountTyped
  <2>1. times \in Counts
    BY DEF SessionInit, Counts
  <2> QED
    BY <1>1, <2>1 DEF CountTyped
<1>8. down \in Seq(Commands) /\ up \in Seq(Messages)
  BY <1>1
<1>9. \A A : ~Tells(up, A) /\ ~Tells(down, A)
  BY <1>1 DEF Tells
<1>10. \A A : Once(up, A) /\ Once(down, A) /\ \A Z : ~Open(up, A, Z)
  BY <1>8, <1>9, NothingTold
<1>11. SessionTyped
  BY <1>2, <1>3, <1>4, <1>5, <1>6, <1>7, <1>8 DEF SessionTyped, PiTyped, PipesTyped, RtTyped, ActTyped,
     WaitTyped
<1>12. LineInv /\ CallersInv
  BY <1>2, <1>3, <1>4, <1>5, <1>6, <1>9, <1>10 DEF LineInv, CallersInv, OnWay, Alone
<1>13. ToldInv
  BY <1>2, <1>3, <1>9, <1>10 DEF ToldInv
<1>14. AskedInv
  BY <1>3, <1>5, <1>9, <1>10 DEF AskedInv, Callers
<1>15. StoppedInv /\ OwnInv /\ RejectsInv /\ ReapsInv
  BY <1>2, <1>3, <1>4, <1>5, <1>6 DEF StoppedInv, OwnInv, RejectsInv, ReapsInv
<1> QED
  BY <1>1, <1>4, <1>11, <1>12, <1>13, <1>14, <1>15 DEF SessionInv, Sound, OwnRunKept, SettledIsOver

LEMMA SessionGoesOn ==
  ASSUME SessionNext
  PROVE  ~ended
BY DEF SessionNext, Arrives, GoesOn, Clock, PiActs, Asked, Observe, Answered, Look, Heard, Wake, Pair, Probe,
   Prepared, StateLoaded, Prompt, Accept, NotProven, Revoked, Proven, Cleared, Aborted, Stopped, RejectGoesOn,
   GraceOver, Late, CompactionLate, StrayRun, Turn, AgentEnd, RetryStart, RetryEnd, Settle, CompactionStart,
   CompactionEnd, HeldStarts, Receive, Reserve, PrepareContext, Activate, SettleOrAbort, AbortCurrent

LEMMA SessionStep ==
  ASSUME SessionInv, [SessionNext]_sessionVars
  PROVE  SessionInv'
<1>1. CASE SessionNext
  <2>1. SessionTyped /\ Sound /\ OwnRunKept /\ SettledIsOver
    BY <1>1, SessionGoesOn DEF SessionInv
  <2>2. OwnRunKept'
    <3>1. hit' = hit \/ times["early"] > 0 \/ (hit' = "reap" /\ times["crowded"] > 0)
      BY <1>1, <2>1, HistoryStep, AbortMisses
    <3> QED
      BY <1>1, <2>1, <3>1, HistoryStep DEF OwnRunKept
  <2>3. CASE ended'
    BY <1>1, <2>1, <2>2, <2>3, DiesStep DEF SessionInv, SettledIsOver
  <2>4. CASE ~ended'
    <3>1. SessionTyped' /\ Sound'
      BY <1>1, <2>1, <2>4, SoundStep
    <3>2. SettledIsOver'
      BY <3>1 DEF Sound, OwnInv, SettledIsOver
    <3> QED
      BY <2>2, <3>1, <3>2 DEF SessionInv
  <2> QED
    BY <2>3, <2>4
<1>2. CASE UNCHANGED sessionVars
  <2>1. UNCHANGED <<pi, down, up, rt, act, wait, pc, ended, times, hit>>
    BY <1>2 DEF sessionVars
  <2>2. SessionTyped' /\ OwnRunKept' /\ SettledIsOver'
    BY <2>1 DEF SessionInv, SessionTyped, PiTyped, PipesTyped, RtTyped, ActTyped, WaitTyped, PcTyped,
       CountTyped, OwnRunKept, SettledIsOver
  <2>3. CASE ended
    BY <2>1, <2>2, <2>3 DEF SessionInv
  <2>4. CASE Sound
    <3>1. LineInv' /\ CallersInv'
      BY <2>1, <2>4 DEF Sound, LineInv, CallersInv, OnWay, Alone
    <3>2. ToldInv' /\ AskedInv'
      BY <2>1, <2>4 DEF Sound, ToldInv, AskedInv, Unanswered, Reason
    <3>3. StoppedInv' /\ OwnInv'
      BY <2>1, <2>4 DEF Sound, StoppedInv, OwnInv
    <3>4. RejectsInv' /\ ReapsInv'
      BY <2>1, <2>4 DEF Sound, RejectsInv, ReapsInv, AheadOf, OnWay
    <3> QED
      BY <2>2, <3>1, <3>2, <3>3, <3>4 DEF SessionInv, Sound
  <2> QED
    BY <2>3, <2>4 DEF SessionInv
<1> QED
  BY <1>1, <1>2

\* The session in order, whatever Pi, other extensions and the two callers do, in every order that messages may arrive.
THEOREM SessionInvariant == SessionSpec => []SessionInv
<1>1. SessionInit => SessionInv
  BY SessionInitially
<1>2. SessionInv /\ [SessionNext]_sessionVars => SessionInv'
  BY SessionStep
<1> QED
  BY <1>1, <1>2, PTL DEF SessionSpec

\* Pair's own aborts never end the run of a live activation, but for the two cases the property names
\* (#rejectActivity, reapMaintenance).
THEOREM SessionKeepsOwnRun == SessionSpec => []OwnRunKept
<1>1. SessionInv => OwnRunKept
  BY DEF SessionInv
<1> QED
  BY <1>1, SessionInvariant, PTL

\* What Pair takes for idle is idle, and nobody sleeps on an idle session (lifecycleIdle, waitIdle).
THEOREM SessionIdleIsKnown == SessionSpec => []IdleIsKnown
<1>1. ASSUME SessionInv PROVE IdleIsKnown
  <2>1. act.on /\ act.settled /\ times["early"] = 0 => pi.run # "own"
    BY <1>1 DEF SessionInv, SettledIsOver
  <2>2. ASSUME Still
        PROVE  /\ SnapshotIdle => pi.run = "none" /\ ~pi.comp
               /\ \A c \in Callers : wait[c].at = "sleep" /\ ~wait[c].woken /\ pi.run = "none" /\ ~pi.comp
                                       => rt.pending \/ rt.bridge \/ times["dropped"] > 0
    <3>1. up = << >> /\ Sound
      BY <1>1, <2>2 DEF Still, SessionInv
    <3>2. \A A : ~Tells(up, A) /\ \A Z : ~Open(up, A, Z)
      BY <3>1 DEF Tells, Open
    <3>3. SnapshotIdle => ~rt.unsettled /\ ~rt.comp
      BY DEF SnapshotIdle, FoundIdle, LifecycleIdle, Quiet
    <3>4. (pi.run # "none" => rt.unsettled) /\ (pi.comp => rt.comp)
      BY <3>1, <3>2 DEF Sound, ToldInv
    <3>5. \A c \in Callers : wait[c].at = "sleep" /\ ~wait[c].woken => Reason
      BY <3>1 DEF Sound, AskedInv
    <3>6. ~Tells(up, Say({"settled", "cend"}))
      BY <3>2
    <3>7. \A c \in Callers : wait[c].at = "sleep" /\ ~wait[c].woken /\ pi.run = "none" /\ ~pi.comp
                               => rt.pending \/ rt.bridge \/ times["dropped"] > 0
      BY <3>5, <3>6 DEF Reason
    <3> QED
      BY <3>3, <3>4, <3>7
  <2> QED
    BY <2>1, <2>2 DEF IdleIsKnown, IdleIsReal, SleepersHaveReason
<1> QED
  BY <1>1, SessionInvariant, PTL

\* A stop that reports the worker contained leaves no run of the revoked activation (settleOrAbort, abortCurrent).
THEOREM SessionStops == SessionSpec => StopMeansStopped
<1>1. ASSUME SessionInv, SessionNext, pc.stop # "off", pc'.stop = "off" PROVE pi.run # "own"
  <2>1. SessionTyped /\ Sound
    BY <1>1, SessionGoesOn DEF SessionInv
  <2>2. pc \in [work : {"off", "wait", "probe", "prepared", "load", "state", "prompt", "started", "refused"},
                stop : {"off", "grace", "clear", "clear+", "abort", "abort+", "idle"}]
    BY <2>1 DEF SessionTyped, PcTyped
  <2>3. CASE Stopped
    BY <2>1, <2>3 DEF Stopped, Sound, StoppedInv
  <2>4. CASE Observe \/ NotProven \/ Late
    BY <1>1, <2>4 DEF Observe, NotProven, Late, Dies
  <2>5. CASE Answered
    <3>1. StateHeard \/ WorkAnswered \/ StopAnswered \/ RejectAnswered \/ ReapAnswered
      BY <2>1, <2>5, AnswerTaken DEF SessionTyped
    <3> QED
      BY <1>1, <2>2, <3>1 DEF StateHeard, WorkAnswered, StopAnswered, RejectAnswered, ReapAnswered, GoesOnTo
  <2>6. CASE \E c \in Callers : Look(c) \/ Heard(c) \/ Wake(c)
    BY <1>1, <2>6 DEF Look, Heard, Wake
  <2>7. CASE Probe \/ Prepared \/ StateLoaded \/ Prompt \/ Accept \/ Revoked \/ Activate \/ Reserve
    BY <1>1, <2>2, <2>7 DEF Probe, Prepared, StateLoaded, Prompt, Accept, Revoked, Activate, Reserve, Ask
  <2>8. CASE Cleared \/ Aborted \/ GraceOver \/ SettleOrAbort \/ AbortCurrent
    BY <1>1, <2>2, <2>8 DEF Cleared, Aborted, GraceOver, SettleOrAbort, AbortCurrent, ToStop
  <2>9. CASE RejectGoesOn \/ CompactionLate \/ PrepareContext
    BY <1>1, <2>9 DEF RejectGoesOn, CompactionLate, PrepareContext
  <2>10. CASE Receive
    BY <1>1, <2>10 DEF Receive
  <2>11. CASE PiActs /\ ~Receive
    BY <1>1, <2>11 DEF PiActs, StrayRun, Turn, AgentEnd, RetryStart, RetryEnd, Settle, CompactionStart,
       CompactionEnd, HeldStarts, Emit
  <2> QED
    BY <1>1, <2>3, <2>4, <2>5, <2>6, <2>7, <2>8, <2>9, <2>10, <2>11 DEF SessionNext, Arrives, GoesOn, Clock,
       Asked
<1>2. SessionInv /\ [SessionNext]_sessionVars => (pc.stop # "off" /\ pc'.stop = "off" => pi.run # "own")
  <2>1. CASE UNCHANGED sessionVars
    BY <2>1 DEF sessionVars
  <2> QED
    BY <1>1, <2>1
<1>3. SessionInv /\ [SessionNext]_sessionVars => [pc.stop # "off" /\ pc'.stop = "off" => pi.run # "own"]_sessionVars
  BY <1>2
<1> QED
  BY <1>3, SessionInvariant, PTL DEF SessionSpec, StopMeansStopped
=============================================================================
