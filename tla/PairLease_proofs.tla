--------------------------- MODULE PairLease_proofs ---------------------------
(***************************************************************************)
(* Proofs about PairLease for every value of its constants.                *)
(***************************************************************************)
EXTENDS PairLease, FiniteSetTheorems, TLAPS

\* Every variable of the pair keeps its type.
THEOREM TypeCorrect == Spec => []TypeOK
<1>1. Init => TypeOK
  <2> DEFINE Flags == settled \in BOOLEAN /\ aborting \in BOOLEAN /\ refused \in BOOLEAN
  <2>1. Init => Flags
    BY DEF Init
  <2> QED
  BY <2>1 DEF Init, TypeOK, Free, NoActivation, NoFreeze, NoDecision, Statuses, Failed,
         Waiting, Work, Control, Request
<1>2. TypeOK /\ [Next]_vars => TypeOK'
  <2> SUFFICES ASSUME TypeOK, [Next]_vars PROVE TypeOK'
    OBVIOUS
  <2> DEFINE Flags == settled \in BOOLEAN /\ aborting \in BOOLEAN
  <2> USE LeaseAssumption DEF TypeOK, Statuses, Failed, Waiting, Free, NoActivation,
       NoFreeze, NoDecision, Work, Control, Request, Publish, Revoke, Keep,
       taskVars, workerVars, runtimeVars, procVars
  <2>1. CASE Dispatch
    BY <2>1 DEF Dispatch, Acquire, DispatchUndone, NewLease, Archived
  <2>2. CASE HumanResume
    <3>1. refused' \in BOOLEAN
      BY <2>2, Zenon DEF HumanResume, Resume, RestoreWaiting, RestoreHeld, Acquire,
         DispatchUndone, NewLease
    <3> QED
      BY <2>2, <3>1 DEF HumanResume, Resume, RestoreWaiting, RestoreHeld, Acquire,
         DispatchUndone, NewLease
  <2>3. CASE Launch
    <3>1. CASE LaunchEnd
      <4>1. settled' = FALSE /\ aborting' = FALSE
        BY <3>1, Zenon DEF LaunchEnd
      <4>2. Flags'
        BY <4>1, Zenon
      <4> QED
        BY <4>2, <3>1 DEF LaunchEnd, NewLease, Archived
    <3>2. CASE LaunchRevoked
      BY <3>2 DEF LaunchRevoked
    <3> QED
      BY <2>3, <3>1, <3>2 DEF Launch
  <2>4. CASE Runtime
    <3>1. CASE RuntimeReady
      BY <3>1 DEF RuntimeReady
    <3>2. CASE RuntimeFault
      <4>1. Flags'
        BY <3>2 DEF RuntimeFault
      <4> QED
        BY <4>1, <3>2 DEF RuntimeFault
    <3>3. CASE ProcessExit
      <4>1. Flags'
        BY <3>3 DEF ProcessExit
      <4> QED
        BY <4>1, <3>3 DEF ProcessExit
    <3>4. CASE AbortDone
      <4>1. Flags'
        BY <3>4 DEF AbortDone
      <4> QED
        BY <4>1, <3>4 DEF AbortDone
    <3> QED
      BY <2>4, <3>1, <3>2, <3>3, <3>4 DEF Runtime
  <2>5. CASE Process
    <3>1. CASE ReportBegin
      BY <3>1 DEF ReportBegin
    <3>2. CASE ReportPublish
      BY <3>2 DEF ReportPublish
    <3>3. CASE WorkerSettle
      BY <3>3 DEF WorkerSettle
    <3> QED
      BY <2>5, <3>1, <3>2, <3>3 DEF Process
  <2>6. CASE Scan
    <3>1. CASE ScanFault
      BY <3>1 DEF ScanFault, Interrupt, AddControl, Contained, MayRecover
    <3>2. CASE ScanAccept
      BY <3>2 DEF ScanAccept
    <3>3. CASE ScanSettleAbort
      BY <3>3 DEF ScanSettleAbort, AddControl, Contained
    <3>4. CASE ScanSettleTimeout
      BY <3>4 DEF ScanSettleTimeout, Interrupt, AddControl, Contained, MayRecover
    <3>5. CASE ScanNoReport
      BY <3>5 DEF ScanNoReport, Interrupt, AddControl, Contained, MayRecover
    <3>6. CASE ScanLimit
      BY <3>6 DEF ScanLimit, AddControl, Contained
    <3>7. CASE FreezeStart
      BY <3>7 DEF FreezeStart
    <3> QED
      BY <2>6, <3>1, <3>2, <3>3, <3>4, <3>5, <3>6, <3>7 DEF Scan
  <2>7. CASE Freeze
    <3>1. CASE \E kind \in ReportKinds : FreezeCommit(kind)
      BY <3>1 DEF FreezeCommit, FreezeProven
    <3>2. CASE FreezeRepair
      BY <3>2 DEF FreezeRepair, FreezeProven, NewLease, Archived
    <3>3. CASE FreezeFail
      BY <3>3 DEF FreezeFail, EndFreeze, AddControl, Contained
    <3> QED
      BY <2>7, <3>1, <3>2, <3>3 DEF Freeze
  <2>8. CASE Recover
    <3>1. CASE RecoverGuard
      BY <3>1 DEF RecoverGuard
    <3>2. CASE RecoverStop
      BY <3>2 DEF RecoverStop
    <3>3. CASE RecoverResume
      <4>1. refused' \in BOOLEAN
        BY <3>3, Zenon DEF RecoverResume, Resume, RestoreWaiting, RestoreHeld, Acquire,
           DispatchUndone, NewLease
      <4> QED
        BY <4>1, <3>3 DEF RecoverResume, Resume, RestoreWaiting, RestoreHeld, Acquire,
           DispatchUndone, NewLease
    <3>4. CASE RecoverRefused
      BY <3>4 DEF RecoverRefused
    <3> QED
      BY <2>8, <3>1, <3>2, <3>3, <3>4 DEF Recover
  <2>9. CASE Decide
    <3>1. CASE \E action \in {"approve", "continue", "cancel"} : DecideCall(action)
      BY <3>1 DEF DecideCall
    <3>2. CASE DecideFinished
      BY <3>2 DEF DecideFinished
    <3>3. CASE DecideContinue
      BY <3>3 DEF DecideContinue, Acquire, DispatchUndone, NewLease, Archived
    <3>4. CASE DecideCancel
      BY <3>4 DEF DecideCancel, Cancelling, AddControl, Contained
    <3>5. CASE DecideRefused
      BY <3>5 DEF DecideRefused
    <3> QED
      BY <2>9, <3>1, <3>2, <3>3, <3>4, <3>5 DEF Decide
  <2>10. ASSUME NEW w \in works, WorkStep(w) PROVE TypeOK'
    <3>1. CASE WorkStarted(w)
      BY <3>1, <2>10 DEF WorkStarted, Advance
    <3>2. CASE WorkPrepared(w)
      BY <3>2, <2>10 DEF WorkPrepared, Advance
    <3>3. CASE WorkGrant(w)
      <4>1. Flags'
        BY <3>3, <2>10 DEF WorkGrant, Advance
      <4> QED
        BY <4>1, <3>3, <2>10 DEF WorkGrant, Advance
    <3>4. CASE WorkOverLimit(w)
      BY <3>4, <2>10 DEF WorkOverLimit
    <3>5. CASE WorkAuthorize(w)
      BY <3>5, <2>10 DEF WorkAuthorize, Advance
    <3>6. CASE WorkGranted(w)
      BY <3>6, <2>10 DEF WorkGranted, Advance
    <3>7. CASE WorkUngranted(w)
      BY <3>7, <2>10 DEF WorkUngranted, Advance
    <3>8. CASE WorkAttempt(w)
      BY <3>8, <2>10 DEF WorkAttempt, Advance
    <3>9. CASE WorkPrompt(w)
      BY <3>9, <2>10 DEF WorkPrompt, SendPrompt, Advance
    <3>10. CASE WorkAck(w)
      BY <3>10, <2>10 DEF WorkAck
    <3>11. CASE WorkFails(w)
      BY <3>11, <2>10 DEF WorkFails, Fail, Interrupt, AddControl, Contained
    <3> QED
      BY <2>10, <3>1, <3>2, <3>3, <3>4, <3>5, <3>6, <3>7, <3>8, <3>9, <3>10, <3>11 DEF
         WorkStep
  <2>11. ASSUME NEW q \in requests, RequestStep(q) PROVE TypeOK'
    <3>1. CASE CallDropped(q)
      BY <3>1, <2>11 DEF CallDropped, Take
    <3>2. CASE PauseTxn(q)
      BY <3>2, <2>11 DEF PauseTxn, Take, AddControl, Contained
    <3>3. CASE CancelTxn(q)
      BY <3>3, <2>11 DEF CancelTxn, Take, Cancelling, AddControl, Contained
    <3>4. CASE StopTxn(q)
      BY <3>4, <2>11 DEF StopTxn, Take, AddControl, Contained
    <3> QED
      BY <2>11, <3>1, <3>2, <3>3, <3>4 DEF RequestStep
  <2>12. ASSUME NEW c \in contains, ContainStep(c) PROVE TypeOK'
    <3>1. CASE ContainBegin(c)
      <4>1. Flags'
        BY <3>1, <2>12 DEF ContainBegin
      <4> QED
        BY <4>1, <3>1, <2>12 DEF ContainBegin
    <3>2. CASE ContainEnd(c)
      BY <3>2, <2>12 DEF ContainEnd, Decrement
    <3> QED
      BY <2>12, <3>1, <3>2 DEF ContainStep
  <2>13. ASSUME NEW op \in {"pause", "cancel", "stop"}, Call(op) PROVE TypeOK'
    BY <2>13 DEF Call
  <2>14. CASE UNCHANGED vars
    BY <2>14 DEF vars
  <2> HIDE DEF TypeOK
  <2> QED
    BY <2>1, <2>2, <2>3, <2>4, <2>5, <2>6, <2>7, <2>8, <2>9, <2>10, <2>11, <2>12, <2>13,
       <2>14 DEF Next
<1> QED
  BY <1>1, <1>2, PTL DEF Spec

-----------------------------------------------------------------------------
(* The containments that pendingControls owes to the runtime. *)

Owed == {c \in contains : c.gen = gen}

\* An element added to a finite set raises its size by at most one.
LEMMA OneMore ==
  ASSUME NEW S, NEW x, IsFiniteSet(S)
  PROVE  /\ IsFiniteSet(S \cup {x})
         /\ Cardinality(S \cup {x}) \in Nat /\ Cardinality(S) \in Nat
         /\ Cardinality(S \cup {x}) <= Cardinality(S) + 1
<1>1. IsFiniteSet(S \cup {x}) /\ Cardinality(S \cup {x}) =
            IF x \in S THEN Cardinality(S) ELSE Cardinality(S) + 1
  BY FS_AddElement
<1> QED
  BY <1>1, FS_CardinalityType

\* A member taken out of a finite set lowers its size by one.
LEMMA OneLess ==
  ASSUME NEW S, NEW x \in S, IsFiniteSet(S)
  PROVE  /\ IsFiniteSet(S \ {x}) /\ Cardinality(S \ {x}) = Cardinality(S) - 1
         /\ Cardinality(S \ {x}) \in Nat /\ Cardinality(S) \in Nat
  BY FS_RemoveElement, FS_CardinalityType

\* One element in place of another does not make a finite set larger.
LEMMA OneSwapped ==
  ASSUME NEW S, NEW x \in S, NEW y, IsFiniteSet(S)
  PROVE  /\ IsFiniteSet((S \ {x}) \cup {y})
         /\ Cardinality((S \ {x}) \cup {y}) \in Nat /\ Cardinality(S) \in Nat
         /\ Cardinality((S \ {x}) \cup {y}) <= Cardinality(S)
<1> DEFINE T == S \ {x}
<1>1. IsFiniteSet(T) /\ Cardinality(T) = Cardinality(S) - 1 /\ Cardinality(S) \in Nat
  BY OneLess
<1>2. IsFiniteSet(T \cup {y}) /\ Cardinality(T \cup {y}) \in Nat
        /\ Cardinality(T \cup {y}) <= Cardinality(T) + 1
  <2> HIDE DEF T
  <2> QED
    BY <1>1, OneMore
<1> QED
  BY <1>1, <1>2

\* When nothing is owed, no containment of this runtime is open.
LEMMA NothingOwed ==
  ASSUME TypeOK, InvCounted, rt # "none"
  PROVE  controls >= 0 /\ (controls = 0 => \A c \in contains : c.gen # gen)
<1>1. IsFiniteSet(Owed)
  BY FS_Subset DEF InvCounted, Owed
<1>2. Cardinality(Owed) \in Nat /\ (Cardinality(Owed) = 0 <=> Owed = {})
  BY <1>1, FS_CardinalityType, FS_EmptySet
<1> QED
  BY <1>2 DEF InvCounted, TypeOK, Owed

\* A control reserved and its job keep the count.
LEMMA AddCounted ==
  ASSUME TypeOK, InvCounted, NEW op, NEW by, NEW i, AddControl(op, by, i),
         gen' = gen, rt' = "none" <=> rt = "none"
  PROVE  InvCounted'
<1> DEFINE new == Contained(op, by, i)
<1>1. CASE rt = "none"
  BY <1>1 DEF AddControl, Contained, InvCounted
<1>2. CASE rt # "none"
  <2>1. contains' = contains \cup {new} /\ controls' = controls + 1
    BY <1>2 DEF AddControl, Contained
  <2>2. IsFiniteSet(contains \cup {new})
    BY OneMore DEF InvCounted
  <2>3. \A c \in contains' : c.gen <= gen'
    BY <2>1 DEF InvCounted, TypeOK, Contained
  <2>4. Owed' = Owed \cup {new}
    BY <2>1 DEF Owed, Contained
  <2>5. IsFiniteSet(Owed)
    BY FS_Subset DEF InvCounted, Owed
  <2>6. Cardinality(Owed') \in Nat /\ Cardinality(Owed) \in Nat
          /\ Cardinality(Owed') <= Cardinality(Owed) + 1
    BY <2>4, <2>5, OneMore
  <2>7. controls >= Cardinality(Owed) /\ controls \in Int
    BY <1>2 DEF InvCounted, TypeOK, Owed
  <2>8. controls' >= Cardinality(Owed')
    BY <2>1, <2>6, <2>7
  <2> QED
    BY <2>1, <2>2, <2>3, <2>8 DEF InvCounted, Owed
<1> QED
  BY <1>1, <1>2

\* A job that moves on is not counted twice.
LEMMA BeginCounted ==
  ASSUME TypeOK, InvCounted, NEW c \in contains, ContainBegin(c)
  PROVE  InvCounted'
<1> DEFINE next == [c EXCEPT !.pc = "wait"]
<1>1. contains' = (contains \ {c}) \cup {next} /\ UNCHANGED <<controls, gen>>
         /\ (rt' # "none" => rt # "none")
  BY DEF ContainBegin, workerVars
<1>2. next.gen = c.gen /\ c.gen \in Nat
  BY DEF TypeOK, Control
<1>3. IsFiniteSet((contains \ {c}) \cup {next}) /\ \A d \in contains' : d.gen <= gen'
  <2>1. IsFiniteSet((contains \ {c}) \cup {next})
    BY OneSwapped DEF InvCounted
  <2>2. \A d \in contains' : d.gen <= gen'
    BY <1>1, <1>2 DEF InvCounted
  <2> QED
    BY <2>1, <2>2
<1>4. IsFiniteSet(Owed)
  BY FS_Subset DEF InvCounted, Owed
<1>5. Cardinality(Owed') \in Nat /\ Cardinality(Owed) \in Nat
        /\ Cardinality(Owed') <= Cardinality(Owed)
  <2>1. CASE c.gen = gen
    <3>1. Owed' = (Owed \ {c}) \cup {next} /\ c \in Owed
      BY <1>1, <1>2, <2>1 DEF Owed
    <3> QED
      BY <3>1, <1>4, OneSwapped
  <2>2. CASE c.gen # gen
    <3>1. Owed' = Owed
      BY <1>1, <1>2, <2>2 DEF Owed
    <3> QED
      BY <3>1, <1>4, FS_CardinalityType
  <2> QED
    BY <2>1, <2>2
<1>6. rt' # "none" => controls' >= Cardinality(Owed')
  BY <1>1, <1>5 DEF InvCounted, TypeOK, Owed
<1> QED
  BY <1>1, <1>3, <1>6 DEF InvCounted, Owed

\* The decrement at the end of a containment is that of its own reservation.
LEMMA EndCounted ==
  ASSUME TypeOK, InvCounted, NEW c \in contains, ContainEnd(c)
  PROVE  InvCounted'
<1>1. contains' = contains \ {c} /\ gen' = gen /\ (rt' # "none" => rt # "none")
        /\ controls' = IF c.gen = gen THEN controls - 1 ELSE controls
  BY DEF ContainEnd, Decrement
<1>2. IsFiniteSet(contains') /\ \A d \in contains' : d.gen <= gen'
  BY <1>1, FS_RemoveElement DEF InvCounted, TypeOK
<1>3. IsFiniteSet(Owed)
  BY FS_Subset DEF InvCounted, Owed
<1>4. rt' # "none" => controls' >= Cardinality(Owed')
  <2>1. CASE c.gen = gen
    <3>1. Owed' = Owed \ {c} /\ c \in Owed
      BY <1>1, <2>1 DEF Owed
    <3>2. Cardinality(Owed') = Cardinality(Owed) - 1 /\ Cardinality(Owed) \in Nat
      BY <3>1, <1>3, OneLess
    <3>3. rt # "none" => controls >= Cardinality(Owed) /\ controls \in Int
      BY DEF InvCounted, TypeOK, Owed
    <3> QED
      BY <1>1, <2>1, <3>2, <3>3
  <2>2. CASE c.gen # gen
    <3>1. Owed' = Owed
      BY <1>1, <2>2 DEF Owed
    <3> QED
      BY <1>1, <2>2, <3>1 DEF InvCounted, Owed
  <2> QED
    BY <2>1, <2>2
<1> QED
  BY <1>1, <1>2, <1>4 DEF InvCounted, Owed

-----------------------------------------------------------------------------
(* The workspace is quiet whenever Main has a report before it. *)

\* The pair starts with nothing granted, contained or running.
LEMMA LeaseInvInit == Init => LeaseInv
  BY FS_EmptySet DEF Init, LeaseInv, InvWork, InvRun, InvLaunch, InvReport, InvCounted,
     InvFree,
     InvContained, InvHeld, InvPrevious, InvQuiet, HeldReportIsLatest, Waiting, Free

\* A runtime that is kept, and one that is still to be launched, owe what they did.
LEMMA AcquireCounted ==
  ASSUME TypeOK, LeaseInv, NEW op, NEW by, Acquire(op, by)
  PROVE  InvCounted'
<1> USE DEF Acquire, DispatchUndone, TypeOK, Control, LeaseInv, InvCounted, taskVars, runtimeVars
<1>1. CASE Reusable /\ UNCHANGED gen
  <2>1. UNCHANGED <<contains, gen, controls, rt>>
    BY <1>1
  <2> QED
    BY <2>1
<1>2. CASE rt = "none" /\ gen' = gen + 1
  <2>1. UNCHANGED <<contains, rt>>
    BY <1>2
  <2> QED
    BY <1>2, <2>1
<1> QED
  BY <1>1, <1>2

\* A fresh runtime owes nothing.
LEMMA LaunchCounted ==
  ASSUME TypeOK, LeaseInv, LaunchEnd
  PROVE  InvCounted'
<1>1. \A c \in contains : c.gen < gen
  BY DEF LaunchEnd, LeaseInv, InvLaunch
<1>2. contains' = contains /\ gen' = gen /\ controls' = 0
  BY DEF LaunchEnd
<1>3. {c \in contains' : c.gen = gen'} = {}
  BY <1>1, <1>2 DEF TypeOK, Control
<1>4. 0 >= Cardinality({c \in contains' : c.gen = gen'})
  BY <1>3, FS_EmptySet
<1> QED
  BY <1>2, <1>4 DEF LeaseInv, InvCounted

\* The runtime a new lease is granted on is quiet: after a task that is over, after
\* a pause or an interruption, and while Main looks at a report.
LEMMA AcquireLeaseInv ==
  ASSUME TypeOK, LeaseInv, Idle, NEW by,
         NEW op \in {"dispatch", "resume", "continue"}, Acquire(op, by),
         op = "dispatch" => ~Active,
         op = "resume" => phase \in {"paused", "interrupted"} /\ previous \notin Waiting,
         op = "continue" => phase \in Waiting
  PROVE  LeaseInv'
<1>0. rt # "none" => controls >= 0 /\ (controls = 0 => \A c \in contains : c.gen # gen)
  BY NothingOwed DEF LeaseInv
<1>1. InvCounted'
  BY AcquireCounted
<1> USE DEF LeaseInv, InvWork, InvRun, InvLaunch, InvReport, InvFree, InvContained,
     InvHeld, InvPrevious, InvQuiet, HeldReportIsLatest, Waiting, Failed, Free, NoActivation,
     Active, TypeOK, Work, Publish, taskVars, workerVars, runtimeVars, procVars
<1>2. CASE Reusable /\ UNCHANGED gen /\ NewLease(op, by)
  <2>1. UNCHANGED <<gen, intent, contains, run, draft, worker, serial, rt, controls>>
          /\ phase' = "activating" /\ lease' = lease + 1 /\ aborting' = aborting
    BY <1>2 DEF Acquire, DispatchUndone, NewLease, Archived
  <2>2. run = 0
    BY <1>2 DEF Reusable
  <2>3. InvWork'
    BY <1>2, <2>1 DEF NewLease, Archived
  <2>4. previous' \notin Waiting
    BY <1>2 DEF NewLease, Archived
  <2>5. InvRun' /\ InvLaunch' /\ InvQuiet'
    BY <2>1, <2>2 DEF Idle
  <2>6. InvFree' /\ InvContained' /\ InvHeld' /\ InvPrevious' /\ HeldReportIsLatest'
    BY <1>0, <1>2, <2>1, <2>2, <2>4 DEF Reusable
  <2>7. InvReport'
    <3>1. report' \in {0, report}
      BY <1>2 DEF NewLease, Archived
    <3> QED
      BY <2>1, <3>1 DEF InvReport
  <2> QED
    BY <1>1, <2>3, <2>5, <2>6, <2>7
<1>3. CASE rt = "none" /\ gen' = gen + 1 /\ worker' = "starting"
             /\ serial' = [op |-> op, intent |-> intent, by |-> by]
             /\ UNCHANGED <<taskVars, works, runtimeVars>>
  BY <1>1, <1>3 DEF Acquire, InvCounted, Control
<1>4. CASE Reusable /\ UNCHANGED gen /\ DispatchUndone
  <2>1. UNCHANGED <<taskVars, works, contains, gen, worker, serial, rt, controls, aborting,
                    run, draft>>
    BY <1>4 DEF Acquire, DispatchUndone, Reusable
  <2> QED
    BY <1>1, <2>1 DEF InvCounted
<1>5. CASE rt = "none" /\ gen' = gen + 1 /\ UNCHANGED <<worker, serial>>
             /\ UNCHANGED <<taskVars, works, runtimeVars>>
  BY <1>1, <1>5 DEF Acquire, InvCounted, Control, Idle
<1> QED
  BY <1>2, <1>3, <1>4, <1>5 DEF Acquire

\* A report restored by resume() is the one that was held.
LEMMA RestoreLeaseInv ==
  ASSUME TypeOK, LeaseInv, Idle, phase \in {"paused", "interrupted"}, RestoreWaiting
  PROVE  LeaseInv'
<1> USE DEF LeaseInv, InvWork, InvRun, InvLaunch, InvReport, InvFree, InvContained,
     InvHeld, InvPrevious, InvQuiet, HeldReportIsLatest, Waiting, Failed, Free, NoActivation,
     Active, TypeOK, Work, Publish, taskVars, workerVars, runtimeVars, procVars
<1>1. UNCHANGED <<gen, contains, controls, rt>>
  BY DEF RestoreWaiting, RestoreHeld
<1>2. InvCounted'
  BY <1>1 DEF InvCounted
<1>3. /\ phase' = previous /\ previous' = "none" /\ previous \in Waiting
      /\ UNCHANGED <<lease, pending, report, gen, serial, works, contains, run, draft,
                     rt, controls, aborting>>
  BY DEF RestoreWaiting, RestoreHeld
<1>4. worker' # "stopped" \/ worker = "stopped"
  BY DEF RestoreWaiting, RestoreHeld, Keep
<1>5. InvWork' /\ InvRun' /\ InvLaunch'
  BY <1>3, <1>4 DEF Idle
<1>6. InvFree' /\ InvContained' /\ InvHeld' /\ InvPrevious' /\ InvQuiet'
        /\ HeldReportIsLatest'
  BY <1>3
<1>7. InvReport'
  BY <1>3
<1> QED
  BY <1>2, <1>5, <1>6, <1>7

\* resume() keeps the invariant whichever of its two ways it takes.
LEMMA ResumeLeaseInv ==
  ASSUME TypeOK, LeaseInv, NEW by, Resume(by)
  PROVE  LeaseInv'
<1>1. CASE RestoreWaiting
  BY <1>1, RestoreLeaseInv DEF Resume
<1>2. CASE ~(report # 0 /\ pending = 0 /\ previous \in Waiting) /\ Acquire("resume", by)
  <2>1. previous \notin Waiting
    BY <1>2 DEF Resume, LeaseInv, InvWork, HeldReportIsLatest, TypeOK
  <2> QED
    BY <1>2, <2>1, AcquireLeaseInv DEF Resume
<1> QED
  BY <1>1, <1>2 DEF Resume

\* Every action of controller, runtime and process keeps the invariant.
LEMMA LeaseInvStep == TypeOK /\ LeaseInv /\ [Next]_vars => LeaseInv'
<1> SUFFICES ASSUME TypeOK, LeaseInv, [Next]_vars PROVE LeaseInv'
  OBVIOUS
<1>0. rt # "none" => controls >= 0 /\ (controls = 0 => \A c \in contains : c.gen # gen)
  BY NothingOwed DEF LeaseInv
<1> USE DEF LeaseInv, InvWork, InvRun, InvLaunch, InvReport, InvFree, InvContained, InvHeld,
   InvPrevious, InvQuiet, HeldReportIsLatest, Waiting, Failed, Free, NoActivation, NoFreeze,
   NoDecision, Publish, Revoke, Keep, Active, Idle, TypeOK, Statuses, Work, Control, Request,
   taskVars, workerVars, runtimeVars, procVars

<1>1. CASE Dispatch
  BY <1>1, AcquireLeaseInv DEF Dispatch
<1>2. CASE HumanResume
  BY <1>2, ResumeLeaseInv DEF HumanResume
<1>3. CASE Launch
  <2>1. CASE LaunchEnd
    <3>1. InvCounted'
      BY <2>1, LaunchCounted
    <3> QED
      BY <2>1, <3>1, <1>0 DEF LaunchEnd, NewLease, Archived
  <2>2. CASE LaunchRevoked
    <3>1. InvCounted'
      BY <2>2 DEF LaunchRevoked, InvCounted
    <3> QED
      BY <2>2, <3>1, <1>0 DEF LaunchRevoked
  <2> QED
    BY <1>3, <2>1, <2>2 DEF Launch
<1>4. CASE Runtime
  <2>1. CASE RuntimeReady
    <3>1. InvCounted'
      BY <2>1 DEF RuntimeReady, InvCounted
    <3> QED
      BY <2>1, <3>1, <1>0 DEF RuntimeReady
  <2>2. CASE RuntimeFault
    <3>1. InvCounted'
      BY <2>2 DEF RuntimeFault, InvCounted
    <3> QED
      BY <2>2, <3>1, <1>0 DEF RuntimeFault
  <2>3. CASE ProcessExit
    <3>1. InvCounted'
      BY <2>3 DEF ProcessExit, InvCounted
    <3> QED
      BY <2>3, <3>1, <1>0 DEF ProcessExit
  <2>4. CASE AbortDone
    <3>1. InvCounted'
      BY <2>4 DEF AbortDone, InvCounted
    <3> QED
      BY <2>4, <3>1, <1>0 DEF AbortDone
  <2> QED
    BY <1>4, <2>1, <2>2, <2>3, <2>4 DEF Runtime
<1>5. CASE Process
  <2>1. CASE ReportBegin
    <3>1. InvCounted'
      BY <2>1 DEF ReportBegin, InvCounted
    <3> QED
      BY <2>1, <3>1, <1>0 DEF ReportBegin
  <2>2. CASE ReportPublish
    <3>1. InvCounted'
      BY <2>2 DEF ReportPublish, InvCounted
    <3> QED
      BY <2>2, <3>1, <1>0 DEF ReportPublish
  <2>3. CASE WorkerSettle
    <3>1. InvCounted'
      BY <2>3 DEF WorkerSettle, InvCounted
    <3> QED
      BY <2>3, <3>1, <1>0 DEF WorkerSettle
  <2> QED
    BY <1>5, <2>1, <2>2, <2>3 DEF Process
<1>6. CASE Scan
  <2>1. CASE ScanFault
    <3>1. InvCounted'
      BY <2>1, AddCounted DEF ScanFault, Interrupt, ScanReady, InvCounted
    <3> QED
      BY <2>1, <3>1, <1>0 DEF ScanFault, Interrupt, ScanReady, AddControl, Contained
  <2>2. CASE ScanAccept
    <3>1. InvCounted'
      BY <2>2 DEF ScanAccept, ScanReady, InvCounted
    <3> QED
      BY <2>2, <3>1, <1>0 DEF ScanAccept, ScanReady
  <2>3. CASE ScanSettleAbort
    <3>1. InvCounted'
      BY <2>3, AddCounted DEF ScanSettleAbort, Unsettled, ScanReady, ReportCurrent,
         InvCounted
    <3> QED
      BY <2>3, <3>1, <1>0 DEF ScanSettleAbort, Unsettled, ScanReady, ReportCurrent,
         AddControl, Contained
  <2>4. CASE ScanSettleTimeout
    <3>1. InvCounted'
      BY <2>4, AddCounted DEF ScanSettleTimeout, Interrupt, Unsettled, ScanReady,
         ReportCurrent, InvCounted
    <3> QED
      BY <2>4, <3>1, <1>0 DEF ScanSettleTimeout, Interrupt, Unsettled, ScanReady,
         ReportCurrent, AddControl, Contained
  <2>5. CASE ScanNoReport
    <3>1. InvCounted'
      BY <2>5, AddCounted DEF ScanNoReport, Interrupt, ScanReady, ReportCurrent, InvCounted
    <3> QED
      BY <2>5, <3>1, <1>0 DEF ScanNoReport, Interrupt, ScanReady, ReportCurrent, AddControl, Contained
  <2>6. CASE ScanLimit
    <3>1. InvCounted'
      BY <2>6, AddCounted DEF ScanLimit, ScanReady, ReportCurrent, InvCounted
    <3> QED
      BY <2>6, <3>1, <1>0 DEF ScanLimit, ScanReady, ReportCurrent, AddControl, Contained
  <2>7. CASE FreezeStart
    <3>1. InvCounted'
      BY <2>7 DEF FreezeStart, InvCounted
    <3> QED
      BY <2>7, <3>1, <1>0 DEF FreezeStart
  <2> QED
    BY <1>6, <2>1, <2>2, <2>3, <2>4, <2>5, <2>6, <2>7 DEF Scan
<1>7. CASE Freeze
  <2>1. CASE \E kind \in ReportKinds : FreezeCommit(kind)
    <3>1. InvCounted'
      BY <2>1 DEF FreezeCommit, FreezeProven, FreezeCurrent, ReportCurrent, InvCounted
    <3> QED
      BY <2>1, <3>1, <1>0, LeaseAssumption DEF FreezeCommit, FreezeProven, FreezeCurrent,
         ReportCurrent
  <2>2. CASE FreezeRepair
    <3>1. InvCounted'
      BY <2>2 DEF FreezeRepair, FreezeProven, FreezeCurrent, ReportCurrent, Reusable,
         NewLease, Archived, InvCounted
    <3> QED
      BY <2>2, <3>1, <1>0 DEF FreezeRepair, FreezeProven, FreezeCurrent, ReportCurrent,
         Reusable, NewLease, Archived
  <2>3. CASE FreezeFail
    <3>1. InvCounted'
      <4>1. CASE FreezeCurrent
        BY <2>3, <4>1, AddCounted DEF FreezeFail, EndFreeze
      <4>2. CASE ~FreezeCurrent
        BY <2>3, <4>2 DEF FreezeFail, EndFreeze, InvCounted
      <4> QED
        BY <4>1, <4>2
    <3> QED
      BY <2>3, <3>1, <1>0 DEF FreezeFail, EndFreeze, FreezeCurrent, AddControl, Contained
  <2> QED
    BY <1>7, <2>1, <2>2, <2>3 DEF Freeze
<1>8. CASE Recover
  <2>1. CASE RecoverGuard
    <3>1. InvCounted'
      BY <2>1 DEF RecoverGuard, InvCounted
    <3> QED
      BY <2>1, <3>1, <1>0 DEF RecoverGuard
  <2>2. CASE RecoverStop
    <3>1. InvCounted'
      BY <2>2 DEF RecoverStop, InvCounted
    <3> QED
      BY <2>2, <3>1, <1>0 DEF RecoverStop
  <2>3. CASE RecoverResume
    BY <2>3, ResumeLeaseInv DEF RecoverResume
  <2>4. CASE RecoverRefused
    <3>1. InvCounted'
      BY <2>4 DEF RecoverRefused, InvCounted
    <3> QED
      BY <2>4, <3>1, <1>0 DEF RecoverRefused
  <2> QED
    BY <1>8, <2>1, <2>2, <2>3, <2>4 DEF Recover
<1>9. CASE Decide
  <2>1. CASE \E action \in {"approve", "continue", "cancel"} : DecideCall(action)
    <3>1. InvCounted'
      BY <2>1 DEF DecideCall, InvCounted
    <3> QED
      BY <2>1, <3>1, <1>0 DEF DecideCall
  <2>2. CASE DecideFinished
    <3>1. InvCounted'
      BY <2>2 DEF DecideFinished, DecisionCurrent, InvCounted
    <3> QED
      BY <2>2, <3>1, <1>0 DEF DecideFinished, DecisionCurrent
  <2>3. CASE DecideContinue
    BY <2>3, AcquireLeaseInv DEF DecideContinue, DecisionCurrent
  <2>4. CASE DecideCancel
    <3>1. InvCounted'
      BY <2>4, AddCounted DEF DecideCancel, DecisionCurrent, Cancelling, InvCounted
    <3> QED
      BY <2>4, <3>1, <1>0 DEF DecideCancel, DecisionCurrent, Cancelling, AddControl, Contained
  <2>5. CASE DecideRefused
    <3>1. InvCounted'
      BY <2>5 DEF DecideRefused, InvCounted
    <3> QED
      BY <2>5, <3>1, <1>0 DEF DecideRefused
  <2> QED
    BY <1>9, <2>1, <2>2, <2>3, <2>4, <2>5 DEF Decide
<1>10. ASSUME NEW w \in works, WorkStep(w) PROVE LeaseInv'
  <2>1. CASE WorkStarted(w)
    <3>1. InvCounted'
      BY <2>1, <1>10 DEF WorkStarted, Advance, RequireWork, WorkCurrent, LaunchCurrent,
         InvCounted
    <3> QED
      BY <2>1, <3>1, <1>0, <1>10 DEF WorkStarted, Advance, RequireWork, WorkCurrent,
         LaunchCurrent
  <2>2. CASE WorkPrepared(w)
    <3>1. InvCounted'
      BY <2>2, <1>10 DEF WorkPrepared, Advance, RequireWork, WorkCurrent, LaunchCurrent,
         InvCounted
    <3> QED
      BY <2>2, <3>1, <1>0, <1>10 DEF WorkPrepared, Advance, RequireWork, WorkCurrent,
         LaunchCurrent
  <2>3. CASE WorkGrant(w)
    <3>1. InvCounted'
      BY <2>3, <1>10 DEF WorkGrant, Advance, RequireWork, WorkCurrent, LaunchCurrent,
         InvCounted
    <3> QED
      BY <2>3, <3>1, <1>0, <1>10 DEF WorkGrant, Advance, RequireWork, WorkCurrent,
         LaunchCurrent
  <2>4. CASE WorkOverLimit(w)
    <3>1. InvCounted'
      BY <2>4, <1>10 DEF WorkOverLimit, RequireWork, WorkCurrent, LaunchCurrent, InvCounted
    <3> QED
      BY <2>4, <3>1, <1>0, <1>10 DEF WorkOverLimit, RequireWork, WorkCurrent, LaunchCurrent
  <2>5. CASE WorkAuthorize(w)
    <3>1. InvCounted'
      BY <2>5, <1>10 DEF WorkAuthorize, Advance, RequireWork, WorkCurrent, LaunchCurrent,
         InvCounted
    <3> QED
      BY <2>5, <3>1, <1>0, <1>10 DEF WorkAuthorize, Advance, RequireWork, WorkCurrent,
         LaunchCurrent
  <2>6. CASE WorkGranted(w)
    <3>1. InvCounted'
      BY <2>6, <1>10 DEF WorkGranted, Advance, RequireWork, WorkCurrent, LaunchCurrent,
         InvCounted
    <3> QED
      BY <2>6, <3>1, <1>0, <1>10 DEF WorkGranted, Advance, RequireWork, WorkCurrent,
         LaunchCurrent
  <2>7. CASE WorkUngranted(w)
    <3>1. InvCounted'
      BY <2>7, <1>10 DEF WorkUngranted, Advance, InvCounted
    <3> QED
      BY <2>7, <3>1, <1>0, <1>10 DEF WorkUngranted, Advance
  <2>8. CASE WorkAttempt(w)
    <3>1. InvCounted'
      BY <2>8, <1>10 DEF WorkAttempt, Advance, RequireWork, WorkCurrent, LaunchCurrent,
         InvCounted
    <3> QED
      BY <2>8, <3>1, <1>0, <1>10 DEF WorkAttempt, Advance, RequireWork, WorkCurrent,
         LaunchCurrent
  <2>9. CASE WorkPrompt(w)
    <3>1. InvCounted'
      BY <2>9, <1>10 DEF WorkPrompt, SendPrompt, Advance, RequireWork, WorkCurrent,
         LaunchCurrent, InvCounted
    <3> QED
      BY <2>9, <3>1, <1>0, <1>10 DEF WorkPrompt, SendPrompt, Advance, RequireWork,
         WorkCurrent, LaunchCurrent
  <2>10. CASE WorkAck(w)
    <3>1. InvCounted'
      BY <2>10, <1>10 DEF WorkAck, InvCounted
    <3> QED
      BY <2>10, <3>1, <1>0, <1>10 DEF WorkAck
  <2>11. CASE WorkFails(w)
    <3>1. InvCounted'
      <4>1. CASE WorkCurrent(w)
        BY <2>11, <4>1, AddCounted, <1>10 DEF WorkFails, Fail, Interrupt
      <4>2. CASE ~WorkCurrent(w)
        BY <2>11, <4>2 DEF WorkFails, Fail, InvCounted
      <4> QED
        BY <4>1, <4>2
    <3> QED
      BY <2>11, <3>1, <1>0, <1>10 DEF WorkFails, Fail, Interrupt, WorkCurrent,
         LaunchCurrent, AddControl, Contained
  <2> QED
    BY <1>10, <2>1, <2>2, <2>3, <2>4, <2>5, <2>6, <2>7, <2>8, <2>9, <2>10, <2>11 DEF
       WorkStep
<1>11. ASSUME NEW q \in requests, RequestStep(q) PROVE LeaseInv'
  <2>1. CASE CallDropped(q)
    <3>1. InvCounted'
      BY <2>1, <1>11 DEF CallDropped, Take, InvCounted
    <3> QED
      BY <2>1, <3>1, <1>0, <1>11 DEF CallDropped, Take
  <2>2. CASE PauseTxn(q)
    <3>1. InvCounted'
      BY <2>2, AddCounted, <1>11 DEF PauseTxn, Take, InvCounted
    <3> QED
      BY <2>2, <3>1, <1>0, <1>11 DEF PauseTxn, Take, AddControl, Contained
  <2>3. CASE CancelTxn(q)
    <3>1. InvCounted'
      BY <2>3, AddCounted, <1>11 DEF CancelTxn, Take, Cancelling, InvCounted
    <3> QED
      BY <2>3, <3>1, <1>0, <1>11 DEF CancelTxn, Take, Cancelling, AddControl, Contained
  <2>4. CASE StopTxn(q)
    <3>1. InvCounted'
      BY <2>4, AddCounted, <1>11 DEF StopTxn, Take, InvCounted
    <3> QED
      BY <2>4, <3>1, <1>0, <1>11 DEF StopTxn, Take, AddControl, Contained
  <2> QED
    BY <1>11, <2>1, <2>2, <2>3, <2>4 DEF RequestStep
<1>12. ASSUME NEW c \in contains, ContainStep(c) PROVE LeaseInv'
  <2>1. CASE ContainBegin(c)
    <3>1. InvCounted'
      BY <2>1, BeginCounted, <1>12
    <3> QED
      BY <2>1, <3>1, <1>0, <1>12 DEF ContainBegin
  <2>2. CASE ContainEnd(c)
    <3>1. InvCounted'
      BY <2>2, EndCounted, <1>12
    <3> QED
      BY <2>2, <3>1, <1>0, <1>12 DEF ContainEnd, Returned, Decrement, ControlCurrent,
         Unproven
  <2> QED
    BY <1>12, <2>1, <2>2 DEF ContainStep
<1>13. ASSUME NEW op \in {"pause", "cancel", "stop"}, Call(op) PROVE LeaseInv'
  <2>1. InvCounted'
    BY <1>13 DEF Call, InvCounted
  <2> QED
    BY <1>13, <2>1, <1>0 DEF Call
<1>14. CASE UNCHANGED vars
  <2>1. InvCounted'
    BY <1>14 DEF vars, InvCounted
  <2> QED
    BY <1>14, <2>1, <1>0 DEF vars
<1> HIDE DEF LeaseInv
<1> QED
  BY <1>1, <1>2, <1>3, <1>4, <1>5, <1>6, <1>7, <1>8, <1>9, <1>10, <1>11, <1>12, <1>13,
     <1>14 DEF Next

\* The inductive invariant, and with it the two properties it was found for.
THEOREM LeaseInvariant == Spec => []LeaseInv
<1>1. TypeOK /\ LeaseInv /\ [Next]_vars => LeaseInv'
  BY LeaseInvStep
<1> QED
  BY TypeCorrect, LeaseInvInit, <1>1, PTL DEF Spec

\* While Main has a report to look at, and whenever a lease is about to be granted,
\* the worker process is not working on anything.
THEOREM QuietWorkspaceHolds == Spec => []QuietWorkspace
<1>1. LeaseInv => QuietWorkspace
  BY DEF LeaseInv, InvQuiet, InvRun, QuietWorkspace
<1> QED
  BY <1>1, LeaseInvariant, PTL

\* What a resume restores is the report of the last lease, never a decided one.
THEOREM HeldReportHolds == Spec => []HeldReportIsLatest
<1>1. LeaseInv => HeldReportIsLatest
  BY DEF LeaseInv
<1> QED
  BY <1>1, LeaseInvariant, PTL

-----------------------------------------------------------------------------
(* Leases and authority have holders. *)

\* Before the first dispatch nobody holds anything.
LEMMA HeldInvInit == Init => HeldInv
  BY DEF Init, HeldInv, InvAuthority, InvOwned, InvGens, InvReserved, InvPrompting, Free,
     NoActivation

\* What leaves the lease, its jobs and the runtime alone leaves their holders alone.
LEMMA HeldKept ==
  ASSUME HeldInv,
         UNCHANGED <<phase, lease, refused, gen, intent, serial, works, contains, requests,
                     rt, act, actIntent, aborting, authority>>
  PROVE  HeldInv'
  BY DEF HeldInv, InvAuthority, InvOwned, WorkCurrent, LaunchCurrent, InvGens, InvReserved,
     Dropping, InvPrompting, Prompting

\* The runtime that reserveStart may reuse never refuses the new activation.
LEMMA ReuseReserves ==
  ASSUME TypeOK, LeaseInv, HeldInv, Reusable, phase \notin {"activating", "running"},
         phase = "awaiting_settle" => ~aborting
  PROVE  ReserveOK
<1>1. \A c \in contains : c.gen # gen
  BY NothingOwed DEF Reusable, LeaseInv
<1>2. ~Prompting
  BY <1>1 DEF Reusable, HeldInv, InvPrompting
<1>3. act = NoActivation \/ act.stage = "settled"
  BY <1>1 DEF Reusable, HeldInv, InvReserved, Dropping
<1> QED
  BY <1>2, <1>3 DEF ReserveOK

\* A new lease has its job from the start.
LEMMA NewLeaseHeld ==
  ASSUME TypeOK, HeldInv, ReserveOK, NEW op, NEW by, NewLease(op, by),
         phase \notin {"activating", "running"}, gen # 0, rt' # "none", serial' = Free,
         UNCHANGED <<gen, intent, authority>>
  PROVE  HeldInv'
<1> DEFINE new == [lease |-> lease + 1, intent |-> intent, gen |-> gen, by |-> by,
                   pc |-> "start"]
<1>1. phase' = "activating" /\ lease' = lease + 1 /\ works' \in {works, works \cup {new}}
        /\ (~refused' => works' = works \cup {new})
  BY DEF NewLease
<1>2. InvAuthority'
  BY <1>1 DEF HeldInv, InvAuthority
<1>3. InvOwned'
  <2>1. ~refused' => /\ new \in works' /\ new.lease = lease' /\ new.gen = gen'
                     /\ new.intent = intent'
    BY <1>1
  <2> QED
    BY <1>1, <2>1 DEF InvOwned, WorkCurrent, LaunchCurrent
<1>4. InvGens'
  BY <1>1 DEF HeldInv, InvGens, TypeOK, Free
<1>5. InvReserved'
  BY <1>1 DEF InvReserved
<1>6. InvPrompting'
  BY <1>1 DEF ReserveOK, Prompting, InvPrompting
<1> QED
  BY <1>2, <1>3, <1>4, <1>5, <1>6 DEF HeldInv

\* reserveStart inside a transaction grants the lease or begins a launch.
LEMMA AcquireHeld ==
  ASSUME TypeOK, LeaseInv, HeldInv, Idle, NEW op, NEW by, Acquire(op, by),
         phase \notin {"activating", "running", "awaiting_settle"}
  PROVE  HeldInv'
<1>1. CASE Reusable /\ UNCHANGED gen /\ NewLease(op, by)
  <2>1. UNCHANGED <<gen, intent, authority, rt, serial>>
    BY <1>1 DEF Acquire, DispatchUndone, Reusable, procVars
  <2>2. ReserveOK
    BY <1>1, ReuseReserves
  <2>3. rt' # "none" /\ serial' = Free
    BY <1>1, <2>1 DEF Reusable, Idle
  <2> QED
    BY <1>1, <2>1, <2>2, <2>3, NewLeaseHeld DEF HeldInv, InvGens, Reusable
<1>2. CASE rt = "none" /\ gen' = gen + 1 /\ (Publish("paused") \/ Publish("stopped"))
             /\ UNCHANGED <<taskVars, works, runtimeVars>>
  <2> USE DEF taskVars, runtimeVars
  <2>1. InvAuthority'
    BY <1>2 DEF InvAuthority, Publish
  <2>2. InvOwned'
    BY <1>2 DEF InvOwned
  <2>3. InvGens'
    BY <1>2 DEF HeldInv, InvGens, TypeOK, Work
  <2>4. InvReserved' /\ InvPrompting'
    BY <1>2 DEF HeldInv, InvReserved, InvPrompting
  <2> QED
    BY <2>1, <2>2, <2>3, <2>4 DEF HeldInv
<1>3. CASE Reusable /\ UNCHANGED gen /\ DispatchUndone
  <2>1. UNCHANGED <<phase, lease, refused, gen, intent, serial, works, contains, requests,
                    rt, actIntent, aborting, authority>>
           /\ act' \in {act, NoActivation}
    BY <1>3 DEF Acquire, DispatchUndone, Reusable, taskVars
  <2>2. InvAuthority' /\ InvGens' /\ InvPrompting'
    BY <2>1 DEF HeldInv, InvAuthority, InvGens, InvPrompting, Prompting
  <2>3. InvOwned'
    BY <2>1 DEF InvOwned
  <2>4. InvReserved'
    BY <2>1 DEF HeldInv, InvReserved, Dropping
  <2> QED
    BY <2>2, <2>3, <2>4 DEF HeldInv
<1> QED
  BY <1>1, <1>2, <1>3 DEF Acquire

\* resume() restores a report, which holds no lease, or grants one.
LEMMA ResumeHeld ==
  ASSUME TypeOK, LeaseInv, HeldInv, NEW by, Resume(by)
  PROVE  HeldInv'
<1>1. CASE RestoreWaiting
  <2> USE DEF RestoreWaiting, RestoreHeld, Resume, runtimeVars
  <2>1. InvAuthority'
    BY <1>1 DEF InvAuthority, Publish
  <2>2. InvOwned'
    BY <1>1 DEF InvOwned, Waiting
  <2>3. InvGens'
    BY <1>1 DEF HeldInv, InvGens
  <2>4. InvReserved'
    BY <1>1 DEF HeldInv, InvReserved, Dropping
  <2>5. InvPrompting'
    BY <1>1 DEF HeldInv, InvPrompting, Prompting
  <2> QED
    BY <2>1, <2>2, <2>3, <2>4, <2>5 DEF HeldInv
<1>2. CASE Acquire("resume", by)
  BY <1>2, AcquireHeld DEF Resume
<1> QED
  BY <1>1, <1>2 DEF Resume

\* A job that moves on keeps its lease.
LEMMA OwnerAdvances ==
  ASSUME TypeOK, HeldInv, NEW w \in works, NEW pc, Advance(w, pc),
         UNCHANGED <<phase, lease, refused, gen, intent, rt, actIntent, requests>>
  PROVE  InvOwned'
<1> DEFINE Moved(v) == IF v = w THEN [w EXCEPT !.pc = pc] ELSE v
<1>1. \A v \in works : /\ Moved(v) \in works' /\ Moved(v).gen = v.gen
                         /\ Moved(v).intent = v.intent /\ Moved(v).lease = v.lease
  BY DEF Advance, TypeOK, Work
<1>2. ASSUME NEW v \in works, WorkCurrent(v)
      PROVE  \E u \in works' : /\ rt' # "none" /\ u.gen = gen' /\ u.intent = intent'
                              /\ u.lease = lease' /\ phase' \in {"activating", "running"}
  <2> HIDE DEF Moved
  <2> QED
    BY <1>1, <1>2 DEF WorkCurrent, LaunchCurrent
<1> QED
  BY <1>2 DEF HeldInv, InvOwned, WorkCurrent, LaunchCurrent

\* A control reserved keeps the prompts and activations it will drop covered.
LEMMA ControlHeld ==
  ASSUME TypeOK, HeldInv, NEW op, NEW by, NEW i, AddControl(op, by, i),
         gen' = gen, rt' = "none" <=> rt = "none",
         rt # "none" \/ act' \in {act, NoActivation}
  PROVE  InvReserved' /\ InvPrompting'
<1> DEFINE new == Contained(op, by, i)
<1>1. rt # "none" => Dropping'
  <2>1. rt # "none" => new \in contains' /\ new.gen = gen' /\ new.pc = "begin"
    BY DEF AddControl, Contained
  <2> QED
    BY <2>1 DEF Dropping
<1>2. InvReserved'
  BY <1>1 DEF HeldInv, InvReserved
<1>3. InvPrompting'
  BY <1>1 DEF HeldInv, InvPrompting, Dropping
<1> QED
  BY <1>2, <1>3

\* Every action of controller, runtime and process leaves leases and authority with
\* a holder.
LEMMA HeldInvStep == TypeOK /\ LeaseInv /\ HeldInv /\ [Next]_vars => HeldInv'
<1> SUFFICES ASSUME TypeOK, LeaseInv, HeldInv, [Next]_vars PROVE HeldInv'
  OBVIOUS
<1>0. rt # "none" => controls >= 0 /\ (controls = 0 => \A c \in contains : c.gen # gen)
  BY NothingOwed DEF LeaseInv
<1> USE DEF LeaseInv, InvWork, InvLaunch, InvFree, InvContained, TypeOK, Work, Control,
     Request, Free, NoActivation, taskVars, workerVars, runtimeVars, procVars
<1>1. CASE Dispatch
  BY <1>1, AcquireHeld DEF Dispatch, Active
<1>2. CASE HumanResume
  BY <1>2, ResumeHeld DEF HumanResume
<1>3. CASE Launch
  <2>1. CASE LaunchEnd
    <3>1. ReserveOK
      BY <2>1 DEF LaunchEnd, ReserveOK, Prompting, HeldInv, InvGens, InvReserved
    <3>2. phase \notin {"activating", "running"}
      BY <2>1 DEF LaunchEnd, Active, Waiting
    <3> QED
      BY <2>1, <3>1, <3>2, NewLeaseHeld DEF LaunchEnd, HeldInv, InvGens
  <2>2. CASE LaunchRevoked
    <3>1. InvAuthority'
      BY <2>2 DEF LaunchRevoked, Publish, HeldInv, InvAuthority
    <3>2. InvOwned'
      BY <2>2 DEF LaunchRevoked, Publish, HeldInv, InvOwned, WorkCurrent, LaunchCurrent
    <3>3. InvGens'
      BY <2>2 DEF LaunchRevoked, Publish, HeldInv, InvGens
    <3>4. InvReserved'
      BY <2>2 DEF LaunchRevoked, Publish, HeldInv, InvReserved, Dropping
    <3>5. InvPrompting'
      BY <2>2 DEF LaunchRevoked, Publish, HeldInv, InvPrompting, Prompting
    <3> QED
      BY <3>1, <3>2, <3>3, <3>4, <3>5 DEF HeldInv
  <2> QED
    BY <1>3, <2>1, <2>2 DEF Launch
<1>4. CASE Runtime
  <2>1. CASE RuntimeReady
    <3>1. InvAuthority'
      BY <2>1 DEF RuntimeReady, HeldInv, InvAuthority
    <3>2. InvOwned'
      BY <2>1 DEF RuntimeReady, HeldInv, InvOwned, WorkCurrent, LaunchCurrent
    <3>3. InvGens'
      BY <2>1 DEF RuntimeReady, HeldInv, InvGens
    <3>4. InvReserved'
      BY <2>1 DEF RuntimeReady, HeldInv, InvReserved, Dropping
    <3>5. InvPrompting'
      BY <2>1 DEF RuntimeReady, HeldInv, InvPrompting, Prompting
    <3> QED
      BY <3>1, <3>2, <3>3, <3>4, <3>5 DEF HeldInv
  <2>2. CASE RuntimeFault
    <3>1. InvAuthority'
      BY <2>2 DEF RuntimeFault, HeldInv, InvAuthority
    <3>2. InvOwned'
      BY <2>2 DEF RuntimeFault, HeldInv, InvOwned, WorkCurrent, LaunchCurrent
    <3>3. InvGens'
      BY <2>2 DEF RuntimeFault, HeldInv, InvGens
    <3>4. InvReserved'
      BY <2>2 DEF RuntimeFault, HeldInv, InvReserved, Dropping
    <3>5. InvPrompting'
      BY <2>2 DEF RuntimeFault, HeldInv, InvPrompting, Prompting
    <3> QED
      BY <3>1, <3>2, <3>3, <3>4, <3>5 DEF HeldInv
  <2>3. CASE ProcessExit
    <3>1. InvAuthority'
      BY <2>3 DEF ProcessExit, HeldInv, InvAuthority
    <3>2. InvOwned'
      BY <2>3 DEF ProcessExit, HeldInv, InvOwned, WorkCurrent, LaunchCurrent
    <3>3. InvGens'
      BY <2>3 DEF ProcessExit, HeldInv, InvGens
    <3>4. InvReserved'
      BY <2>3 DEF ProcessExit, HeldInv, InvReserved, Dropping
    <3>5. InvPrompting'
      BY <2>3 DEF ProcessExit, HeldInv, InvPrompting, Prompting
    <3> QED
      BY <3>1, <3>2, <3>3, <3>4, <3>5 DEF HeldInv
  <2>4. CASE AbortDone
    <3>1. InvAuthority'
      BY <2>4 DEF AbortDone, HeldInv, InvAuthority
    <3>2. InvOwned'
      BY <2>4 DEF AbortDone, HeldInv, InvOwned, WorkCurrent, LaunchCurrent
    <3>3. InvGens'
      BY <2>4 DEF AbortDone, HeldInv, InvGens
    <3>4. InvReserved'
      BY <2>4 DEF AbortDone, HeldInv, InvReserved, Dropping
    <3>5. InvPrompting'
      BY <2>4 DEF AbortDone, HeldInv, InvPrompting, Prompting
    <3> QED
      BY <3>1, <3>2, <3>3, <3>4, <3>5 DEF HeldInv
  <2> QED
    BY <1>4, <2>1, <2>2, <2>3, <2>4 DEF Runtime
<1>5. CASE Process
  <2>1. CASE ReportBegin
    BY <2>1, HeldKept DEF ReportBegin
  <2>2. CASE ReportPublish
    BY <2>2, HeldKept DEF ReportPublish
  <2>3. CASE WorkerSettle
    <3>1. InvAuthority'
      BY <2>3 DEF WorkerSettle, HeldInv, InvAuthority
    <3>2. InvOwned'
      BY <2>3 DEF WorkerSettle, HeldInv, InvOwned, WorkCurrent, LaunchCurrent
    <3>3. InvGens'
      BY <2>3 DEF WorkerSettle, HeldInv, InvGens
    <3>4. InvReserved'
      BY <2>3 DEF WorkerSettle, HeldInv, InvReserved, Dropping
    <3>5. InvPrompting'
      BY <2>3 DEF WorkerSettle, HeldInv, InvPrompting, Prompting
    <3> QED
      BY <3>1, <3>2, <3>3, <3>4, <3>5 DEF HeldInv
  <2> QED
    BY <1>5, <2>1, <2>2, <2>3 DEF Process
<1>6. CASE Scan
  <2>1. CASE ScanFault
    <3>1. InvAuthority'
      BY <2>1 DEF ScanFault, Interrupt, Revoke, ScanReady, AddControl, Contained, Active, Waiting,
         Publish, HeldInv, InvAuthority
    <3>2. InvOwned'
      BY <2>1 DEF ScanFault, Interrupt, Revoke, ScanReady, AddControl, Contained, Active, Waiting,
         Publish, HeldInv, InvOwned, WorkCurrent, LaunchCurrent
    <3>3. InvGens'
      BY <2>1 DEF ScanFault, Interrupt, Revoke, ScanReady, AddControl, Contained, Active, Waiting,
         Publish, HeldInv, InvGens
    <3>4. InvReserved' /\ InvPrompting'
      BY <2>1, ControlHeld DEF ScanFault, Interrupt, Revoke, ScanReady, Active, Waiting,
         Publish
    <3> QED
      BY <3>1, <3>2, <3>3, <3>4 DEF HeldInv
  <2>2. CASE ScanAccept
    <3>1. InvAuthority'
      BY <2>2, <1>0 DEF ScanAccept, Revoke, Publish, ReportCurrent, HeldInv, InvAuthority
    <3>2. InvOwned'
      BY <2>2, <1>0 DEF ScanAccept, Revoke, Publish, ReportCurrent, HeldInv, InvOwned,
         WorkCurrent, LaunchCurrent
    <3>3. InvGens'
      BY <2>2, <1>0 DEF ScanAccept, Revoke, Publish, ReportCurrent, HeldInv, InvGens
    <3>4. InvReserved'
      BY <2>2, <1>0 DEF ScanAccept, Revoke, Publish, ReportCurrent, HeldInv, InvReserved,
         Dropping
    <3>5. InvPrompting'
      BY <2>2, <1>0 DEF ScanAccept, Revoke, Publish, ReportCurrent, HeldInv, InvPrompting,
         Prompting
    <3> QED
      BY <3>1, <3>2, <3>3, <3>4, <3>5 DEF HeldInv
  <2>3. CASE ScanSettleAbort
    <3>1. InvAuthority'
      BY <2>3 DEF ScanSettleAbort, AddControl, Contained, Unsettled, HeldInv, InvAuthority
    <3>2. InvOwned'
      BY <2>3 DEF ScanSettleAbort, AddControl, Contained, Unsettled, HeldInv, InvOwned, WorkCurrent,
         LaunchCurrent
    <3>3. InvGens'
      BY <2>3 DEF ScanSettleAbort, AddControl, Contained, Unsettled, HeldInv, InvGens
    <3>4. InvReserved' /\ InvPrompting'
      BY <2>3, ControlHeld DEF ScanSettleAbort, Unsettled
    <3> QED
      BY <3>1, <3>2, <3>3, <3>4 DEF HeldInv
  <2>4. CASE ScanSettleTimeout
    <3>1. InvAuthority'
      BY <2>4 DEF ScanSettleTimeout, Interrupt, Revoke, AddControl, Contained, Active, Unsettled,
         Waiting, Publish, HeldInv, InvAuthority
    <3>2. InvOwned'
      BY <2>4 DEF ScanSettleTimeout, Interrupt, Revoke, AddControl, Contained, Active, Unsettled,
         Waiting, Publish, HeldInv, InvOwned, WorkCurrent, LaunchCurrent
    <3>3. InvGens'
      BY <2>4 DEF ScanSettleTimeout, Interrupt, Revoke, AddControl, Contained, Active, Unsettled,
         Waiting, Publish, HeldInv, InvGens
    <3>4. InvReserved' /\ InvPrompting'
      BY <2>4, ControlHeld DEF ScanSettleTimeout, Interrupt, Revoke, Active, Unsettled,
         Waiting, Publish
    <3> QED
      BY <3>1, <3>2, <3>3, <3>4 DEF HeldInv
  <2>5. CASE ScanNoReport
    <3>1. InvAuthority'
      BY <2>5 DEF ScanNoReport, Interrupt, Revoke, AddControl, Contained, Active, Waiting, Publish,
         HeldInv, InvAuthority
    <3>2. InvOwned'
      BY <2>5 DEF ScanNoReport, Interrupt, Revoke, AddControl, Contained, Active, Waiting, Publish,
         HeldInv, InvOwned, WorkCurrent, LaunchCurrent
    <3>3. InvGens'
      BY <2>5 DEF ScanNoReport, Interrupt, Revoke, AddControl, Contained, Active, Waiting, Publish,
         HeldInv, InvGens
    <3>4. InvReserved' /\ InvPrompting'
      BY <2>5, ControlHeld DEF ScanNoReport, Interrupt, Revoke, Active, Waiting, Publish
    <3> QED
      BY <3>1, <3>2, <3>3, <3>4 DEF HeldInv
  <2>6. CASE ScanLimit
    <3>1. InvAuthority'
      BY <2>6 DEF ScanLimit, Revoke, AddControl, Contained, Publish, HeldInv, InvAuthority
    <3>2. InvOwned'
      BY <2>6 DEF ScanLimit, Revoke, AddControl, Contained, Publish, HeldInv, InvOwned, WorkCurrent,
         LaunchCurrent
    <3>3. InvGens'
      BY <2>6 DEF ScanLimit, Revoke, AddControl, Contained, Publish, HeldInv, InvGens
    <3>4. InvReserved' /\ InvPrompting'
      BY <2>6, ControlHeld DEF ScanLimit, Revoke, Publish
    <3> QED
      BY <3>1, <3>2, <3>3, <3>4 DEF HeldInv
  <2>7. CASE FreezeStart
    BY <2>7, HeldKept DEF FreezeStart
  <2> QED
    BY <1>6, <2>1, <2>2, <2>3, <2>4, <2>5, <2>6, <2>7 DEF Scan
<1>7. CASE Freeze
  <2>1. CASE \E kind \in ReportKinds : FreezeCommit(kind)
    <3>1. InvAuthority'
      BY <2>1, LeaseAssumption DEF FreezeCommit, FreezeProven, FreezeCurrent, Waiting,
         HeldInv, InvAuthority
    <3>2. InvOwned'
      BY <2>1, LeaseAssumption DEF FreezeCommit, FreezeProven, FreezeCurrent, Waiting,
         HeldInv, InvOwned, WorkCurrent, LaunchCurrent
    <3>3. InvGens'
      BY <2>1, LeaseAssumption DEF FreezeCommit, FreezeProven, FreezeCurrent, Waiting,
         HeldInv, InvGens
    <3>4. InvReserved'
      BY <2>1, LeaseAssumption DEF FreezeCommit, FreezeProven, FreezeCurrent, Waiting,
         HeldInv, InvReserved, Dropping
    <3>5. InvPrompting'
      BY <2>1, LeaseAssumption DEF FreezeCommit, FreezeProven, FreezeCurrent, Waiting,
         HeldInv, InvPrompting, Prompting
    <3> QED
      BY <3>1, <3>2, <3>3, <3>4, <3>5 DEF HeldInv
  <2>2. CASE FreezeRepair
    <3>1. ReserveOK
      BY <2>2, ReuseReserves DEF FreezeRepair, FreezeProven, FreezeCurrent
    <3> QED
      BY <2>2, <3>1, NewLeaseHeld DEF FreezeRepair, FreezeProven, FreezeCurrent, Idle,
         Reusable, HeldInv, InvGens
  <2>3. CASE FreezeFail
    <3>1. CASE FreezeCurrent
      <4>1. InvAuthority'
        BY <2>3, <3>1 DEF FreezeFail, EndFreeze, FreezeCurrent, Revoke, AddControl, Contained, Publish,
           HeldInv, InvAuthority
      <4>2. InvOwned'
        BY <2>3, <3>1 DEF FreezeFail, EndFreeze, FreezeCurrent, Revoke, AddControl, Contained, Publish,
           HeldInv, InvOwned, WorkCurrent, LaunchCurrent
      <4>3. InvGens'
        BY <2>3, <3>1 DEF FreezeFail, EndFreeze, FreezeCurrent, Revoke, AddControl, Contained, Publish,
           HeldInv, InvGens
      <4>4. InvReserved' /\ InvPrompting'
        BY <2>3, <3>1, ControlHeld DEF FreezeFail, EndFreeze, FreezeCurrent, Revoke, Publish
      <4> QED
        BY <4>1, <4>2, <4>3, <4>4 DEF HeldInv
    <3>2. CASE ~FreezeCurrent
      BY <2>3, <3>2, HeldKept DEF FreezeFail, EndFreeze
    <3> QED
      BY <3>1, <3>2
  <2> QED
    BY <1>7, <2>1, <2>2, <2>3 DEF Freeze
<1>8. CASE Recover
  <2>1. CASE RecoverGuard
    BY <2>1, HeldKept DEF RecoverGuard
  <2>2. CASE RecoverStop
    <3>1. InvAuthority'
      BY <2>2 DEF RecoverStop, Revoke, HeldInv, InvAuthority
    <3>2. InvOwned'
      <4> DEFINE call == [op |-> "stop", intent |-> intent + 1, by |-> "auto"]
      <4>1. call \in requests' /\ call.intent = intent'
        BY <2>2 DEF RecoverStop, Revoke
      <4> QED
        BY <4>1 DEF InvOwned
    <3>3. InvGens'
      BY <2>2 DEF RecoverStop, Revoke, HeldInv, InvGens
    <3>4. InvReserved'
      BY <2>2 DEF RecoverStop, Revoke, HeldInv, InvReserved, Dropping
    <3>5. InvPrompting'
      BY <2>2 DEF RecoverStop, Revoke, HeldInv, InvPrompting, Prompting
    <3> QED
      BY <3>1, <3>2, <3>3, <3>4, <3>5 DEF HeldInv
  <2>3. CASE RecoverResume
    BY <2>3, ResumeHeld DEF RecoverResume
  <2>4. CASE RecoverRefused
    BY <2>4, HeldKept DEF RecoverRefused
  <2> QED
    BY <1>8, <2>1, <2>2, <2>3, <2>4 DEF Recover
<1>9. CASE Decide
  <2>1. CASE \E action \in {"approve", "continue", "cancel"} : DecideCall(action)
    BY <2>1, HeldKept DEF DecideCall
  <2>2. CASE DecideFinished
    <3>1. InvAuthority'
      BY <2>2 DEF DecideFinished, Revoke, Publish, DecisionCurrent, Waiting, HeldInv,
         InvAuthority
    <3>2. InvOwned'
      BY <2>2 DEF DecideFinished, Revoke, Publish, DecisionCurrent, Waiting, HeldInv,
         InvOwned, WorkCurrent, LaunchCurrent
    <3>3. InvGens'
      BY <2>2 DEF DecideFinished, Revoke, Publish, DecisionCurrent, Waiting, HeldInv,
         InvGens
    <3>4. InvReserved'
      BY <2>2 DEF DecideFinished, Revoke, Publish, DecisionCurrent, Waiting, HeldInv,
         InvReserved, Dropping
    <3>5. InvPrompting'
      BY <2>2 DEF DecideFinished, Revoke, Publish, DecisionCurrent, Waiting, HeldInv,
         InvPrompting, Prompting
    <3> QED
      BY <3>1, <3>2, <3>3, <3>4, <3>5 DEF HeldInv
  <2>3. CASE DecideContinue
    BY <2>3, AcquireHeld DEF DecideContinue, DecisionCurrent, Waiting
  <2>4. CASE DecideCancel
    <3>1. InvAuthority'
      BY <2>4 DEF DecideCancel, Revoke, Cancelling, AddControl, Contained, Publish, DecisionCurrent,
         Waiting, HeldInv, InvAuthority
    <3>2. InvOwned'
      BY <2>4 DEF DecideCancel, Revoke, Cancelling, AddControl, Contained, Publish, DecisionCurrent,
         Waiting, HeldInv, InvOwned, WorkCurrent, LaunchCurrent
    <3>3. InvGens'
      BY <2>4 DEF DecideCancel, Revoke, Cancelling, AddControl, Contained, Publish, DecisionCurrent,
         Waiting, HeldInv, InvGens
    <3>4. InvReserved' /\ InvPrompting'
      BY <2>4, ControlHeld DEF DecideCancel, Revoke, Cancelling, Publish, DecisionCurrent,
         Waiting
    <3> QED
      BY <3>1, <3>2, <3>3, <3>4 DEF HeldInv
  <2>5. CASE DecideRefused
    BY <2>5, HeldKept DEF DecideRefused
  <2> QED
    BY <1>9, <2>1, <2>2, <2>3, <2>4, <2>5 DEF Decide
<1>10. ASSUME NEW w \in works, WorkStep(w) PROVE HeldInv'
  <2>1. CASE WorkStarted(w)
    <3>1. InvAuthority'
      BY <2>1, <1>10 DEF WorkStarted, Advance, RequireWork, WorkCurrent, LaunchCurrent,
         HeldInv, InvAuthority
    <3>2. InvOwned'
      BY <2>1, <1>10, OwnerAdvances DEF WorkStarted, RequireWork, WorkCurrent, LaunchCurrent
    <3>3. InvGens'
      BY <2>1, <1>10 DEF WorkStarted, Advance, RequireWork, WorkCurrent, LaunchCurrent,
         HeldInv, InvGens
    <3>4. InvReserved'
      BY <2>1, <1>10 DEF WorkStarted, Advance, RequireWork, WorkCurrent, LaunchCurrent,
         HeldInv, InvReserved, Dropping
    <3>5. InvPrompting'
      BY <2>1, <1>10 DEF WorkStarted, Advance, RequireWork, WorkCurrent, LaunchCurrent,
         HeldInv, InvPrompting, Prompting
    <3> QED
      BY <3>1, <3>2, <3>3, <3>4, <3>5 DEF HeldInv
  <2>2. CASE WorkPrepared(w)
    <3>1. InvAuthority'
      BY <2>2, <1>10 DEF WorkPrepared, Advance, RequireWork, WorkCurrent, LaunchCurrent,
         HeldInv, InvAuthority
    <3>2. InvOwned'
      BY <2>2, <1>10, OwnerAdvances DEF WorkPrepared, RequireWork, WorkCurrent,
         LaunchCurrent
    <3>3. InvGens'
      BY <2>2, <1>10 DEF WorkPrepared, Advance, RequireWork, WorkCurrent, LaunchCurrent,
         HeldInv, InvGens
    <3>4. InvReserved'
      BY <2>2, <1>10 DEF WorkPrepared, Advance, RequireWork, WorkCurrent, LaunchCurrent,
         HeldInv, InvReserved, Dropping
    <3>5. InvPrompting'
      BY <2>2, <1>10 DEF WorkPrepared, Advance, RequireWork, WorkCurrent, LaunchCurrent,
         HeldInv, InvPrompting, Prompting
    <3> QED
      BY <3>1, <3>2, <3>3, <3>4, <3>5 DEF HeldInv
  <2>3. CASE WorkGrant(w)
    <3>1. InvAuthority'
      BY <2>3, <1>10 DEF WorkGrant, Advance, RequireWork, WorkCurrent, LaunchCurrent,
         HeldInv, InvAuthority
    <3>2. InvOwned'
      BY <2>3, <1>10 DEF WorkGrant, Advance, RequireWork, WorkCurrent, LaunchCurrent,
         HeldInv, InvOwned
    <3>3. InvGens'
      BY <2>3, <1>10 DEF WorkGrant, Advance, RequireWork, WorkCurrent, LaunchCurrent,
         HeldInv, InvGens
    <3>4. InvReserved'
      BY <2>3, <1>10 DEF WorkGrant, Advance, RequireWork, WorkCurrent, LaunchCurrent,
         HeldInv, InvReserved, Dropping
    <3>5. InvPrompting'
      BY <2>3, <1>10 DEF WorkGrant, Advance, RequireWork, WorkCurrent, LaunchCurrent,
         HeldInv, InvPrompting, Prompting
    <3> QED
      BY <3>1, <3>2, <3>3, <3>4, <3>5 DEF HeldInv
  <2>4. CASE WorkOverLimit(w)
    <3>1. InvAuthority'
      BY <2>4, <1>10 DEF WorkOverLimit, Revoke, Publish, RequireWork, WorkCurrent,
         LaunchCurrent, HeldInv, InvAuthority
    <3>2. InvOwned'
      BY <2>4, <1>10 DEF WorkOverLimit, Revoke, Publish, RequireWork, WorkCurrent,
         LaunchCurrent, HeldInv, InvOwned
    <3>3. InvGens'
      BY <2>4, <1>10 DEF WorkOverLimit, Revoke, Publish, RequireWork, WorkCurrent,
         LaunchCurrent, HeldInv, InvGens
    <3>4. InvReserved'
      BY <2>4, <1>10 DEF WorkOverLimit, Revoke, Publish, RequireWork, WorkCurrent,
         LaunchCurrent, HeldInv, InvReserved, Dropping
    <3>5. InvPrompting'
      BY <2>4, <1>10 DEF WorkOverLimit, Revoke, Publish, RequireWork, WorkCurrent,
         LaunchCurrent, HeldInv, InvPrompting, Prompting
    <3> QED
      BY <3>1, <3>2, <3>3, <3>4, <3>5 DEF HeldInv
  <2>5. CASE WorkAuthorize(w)
    <3>1. InvAuthority'
      BY <2>5, <1>10 DEF WorkAuthorize, Advance, Publish, RequireWork, WorkCurrent,
         LaunchCurrent, HeldInv, InvAuthority
    <3>2. InvOwned'
      BY <2>5, <1>10, OwnerAdvances DEF WorkAuthorize, Publish, RequireWork, WorkCurrent,
         LaunchCurrent
    <3>3. InvGens'
      BY <2>5, <1>10 DEF WorkAuthorize, Advance, Publish, RequireWork, WorkCurrent,
         LaunchCurrent, HeldInv, InvGens
    <3>4. InvReserved'
      BY <2>5, <1>10 DEF WorkAuthorize, Advance, Publish, RequireWork, WorkCurrent,
         LaunchCurrent, HeldInv, InvReserved, Dropping
    <3>5. InvPrompting'
      BY <2>5, <1>10 DEF WorkAuthorize, Advance, Publish, RequireWork, WorkCurrent,
         LaunchCurrent, HeldInv, InvPrompting, Prompting
    <3> QED
      BY <3>1, <3>2, <3>3, <3>4, <3>5 DEF HeldInv
  <2>6. CASE WorkGranted(w)
    <3>1. InvAuthority'
      BY <2>6, <1>10 DEF WorkGranted, Advance, RequireWork, WorkCurrent, LaunchCurrent,
         HeldInv, InvAuthority
    <3>2. InvOwned'
      BY <2>6, <1>10, OwnerAdvances DEF WorkGranted, RequireWork, WorkCurrent, LaunchCurrent
    <3>3. InvGens'
      BY <2>6, <1>10 DEF WorkGranted, Advance, RequireWork, WorkCurrent, LaunchCurrent,
         HeldInv, InvGens
    <3>4. InvReserved'
      BY <2>6, <1>10 DEF WorkGranted, Advance, RequireWork, WorkCurrent, LaunchCurrent,
         HeldInv, InvReserved, Dropping
    <3>5. InvPrompting'
      BY <2>6, <1>10 DEF WorkGranted, Advance, RequireWork, WorkCurrent, LaunchCurrent,
         HeldInv, InvPrompting, Prompting
    <3> QED
      BY <3>1, <3>2, <3>3, <3>4, <3>5 DEF HeldInv
  <2>7. CASE WorkUngranted(w)
    <3>1. InvAuthority'
      BY <2>7, <1>10 DEF WorkUngranted, Advance, HeldInv, InvAuthority
    <3>2. InvOwned'
      BY <2>7, <1>10, OwnerAdvances DEF WorkUngranted
    <3>3. InvGens'
      BY <2>7, <1>10 DEF WorkUngranted, Advance, HeldInv, InvGens
    <3>4. InvReserved'
      BY <2>7, <1>10 DEF WorkUngranted, Advance, HeldInv, InvReserved, Dropping
    <3>5. InvPrompting'
      BY <2>7, <1>10 DEF WorkUngranted, Advance, HeldInv, InvPrompting, Prompting
    <3> QED
      BY <3>1, <3>2, <3>3, <3>4, <3>5 DEF HeldInv
  <2>8. CASE WorkAttempt(w)
    <3>1. InvAuthority'
      BY <2>8, <1>10 DEF WorkAttempt, Advance, RequireWork, WorkCurrent, LaunchCurrent,
         HeldInv, InvAuthority
    <3>2. InvOwned'
      BY <2>8, <1>10, OwnerAdvances DEF WorkAttempt, RequireWork, WorkCurrent, LaunchCurrent
    <3>3. InvGens'
      BY <2>8, <1>10 DEF WorkAttempt, Advance, RequireWork, WorkCurrent, LaunchCurrent,
         HeldInv, InvGens
    <3>4. InvReserved'
      BY <2>8, <1>10 DEF WorkAttempt, Advance, RequireWork, WorkCurrent, LaunchCurrent,
         HeldInv, InvReserved, Dropping
    <3>5. InvPrompting'
      BY <2>8, <1>10 DEF WorkAttempt, Advance, RequireWork, WorkCurrent, LaunchCurrent,
         HeldInv, InvPrompting, Prompting
    <3> QED
      BY <3>1, <3>2, <3>3, <3>4, <3>5 DEF HeldInv
  <2>9. CASE WorkPrompt(w)
    <3>1. InvAuthority'
      BY <2>9, <1>10 DEF WorkPrompt, SendPrompt, Advance, RequireWork, WorkCurrent,
         LaunchCurrent, HeldInv, InvAuthority
    <3>2. InvOwned'
      BY <2>9, <1>10, OwnerAdvances DEF WorkPrompt, SendPrompt, RequireWork, WorkCurrent,
         LaunchCurrent
    <3>3. InvGens'
      BY <2>9, <1>10 DEF WorkPrompt, SendPrompt, Advance, RequireWork, WorkCurrent,
         LaunchCurrent, HeldInv, InvGens
    <3>4. InvReserved'
      BY <2>9, <1>10 DEF WorkPrompt, SendPrompt, Advance, RequireWork, WorkCurrent,
         LaunchCurrent, HeldInv, InvReserved, Dropping
    <3>5. InvPrompting'
      BY <2>9, <1>10 DEF WorkPrompt, SendPrompt, Advance, RequireWork, WorkCurrent,
         LaunchCurrent, HeldInv, InvPrompting, Prompting
    <3> QED
      BY <3>1, <3>2, <3>3, <3>4, <3>5 DEF HeldInv
  <2>10. CASE WorkAck(w)
    <3>1. InvAuthority'
      BY <2>10, <1>10 DEF WorkAck, RequireWork, WorkCurrent, LaunchCurrent, HeldInv,
         InvAuthority
    <3>2. InvOwned'
      BY <2>10, <1>10 DEF WorkAck, RequireWork, WorkCurrent, LaunchCurrent, HeldInv,
         InvOwned
    <3>3. InvGens'
      BY <2>10, <1>10 DEF WorkAck, RequireWork, WorkCurrent, LaunchCurrent, HeldInv, InvGens
    <3>4. InvReserved'
      BY <2>10, <1>10 DEF WorkAck, RequireWork, WorkCurrent, LaunchCurrent, HeldInv,
         InvReserved, Dropping
    <3>5. InvPrompting'
      BY <2>10, <1>10 DEF WorkAck, RequireWork, WorkCurrent, LaunchCurrent, HeldInv,
         InvPrompting, Prompting
    <3> QED
      BY <3>1, <3>2, <3>3, <3>4, <3>5 DEF HeldInv
  <2>11. CASE WorkFails(w)
    <3>1. CASE WorkCurrent(w)
      <4>1. InvAuthority'
        BY <2>11, <1>10, <3>1 DEF WorkFails, Fail, Interrupt, Revoke, AddControl, Contained, Active,
           Waiting, Publish, WorkCurrent, LaunchCurrent, HeldInv, InvAuthority
      <4>2. InvOwned'
        BY <2>11, <1>10, <3>1 DEF WorkFails, Fail, Interrupt, Revoke, AddControl, Contained, Active,
           Waiting, Publish, WorkCurrent, LaunchCurrent, HeldInv, InvOwned
      <4>3. InvGens'
        BY <2>11, <1>10, <3>1 DEF WorkFails, Fail, Interrupt, Revoke, AddControl, Contained, Active,
           Waiting, Publish, WorkCurrent, LaunchCurrent, HeldInv, InvGens
      <4>4. InvReserved' /\ InvPrompting'
        BY <2>11, <1>10, <3>1, ControlHeld DEF WorkFails, Fail, Interrupt, Revoke, Active,
           Waiting, Publish, WorkCurrent, LaunchCurrent
      <4> QED
        BY <4>1, <4>2, <4>3, <4>4 DEF HeldInv
    <3>2. CASE ~WorkCurrent(w)
      <4>1. InvAuthority'
        BY <2>11, <1>10, <3>2 DEF WorkFails, Fail, HeldInv, InvAuthority
      <4>2. InvOwned'
        BY <2>11, <1>10, <3>2 DEF WorkFails, Fail, HeldInv, InvOwned, WorkCurrent,
           LaunchCurrent
      <4>3. InvGens'
        BY <2>11, <1>10, <3>2 DEF WorkFails, Fail, HeldInv, InvGens
      <4>4. InvReserved'
        BY <2>11, <1>10, <3>2 DEF WorkFails, Fail, HeldInv, InvReserved, Dropping
      <4>5. InvPrompting'
        BY <2>11, <1>10, <3>2 DEF WorkFails, Fail, HeldInv, InvPrompting, Prompting
      <4> QED
        BY <4>1, <4>2, <4>3, <4>4, <4>5 DEF HeldInv
    <3> QED
      BY <3>1, <3>2
  <2> QED
    BY <1>10, <2>1, <2>2, <2>3, <2>4, <2>5, <2>6, <2>7, <2>8, <2>9, <2>10, <2>11 DEF
       WorkStep
<1>11. ASSUME NEW q \in requests, RequestStep(q) PROVE HeldInv'
  <2>1. CASE CallDropped(q)
    <3>1. InvAuthority'
      BY <2>1, <1>11 DEF CallDropped, Take, Active, HeldInv, InvAuthority
    <3>2. InvOwned'
      BY <2>1, <1>11 DEF CallDropped, Take, Active, HeldInv, InvOwned, InvGens,
         WorkCurrent, LaunchCurrent
    <3>3. InvGens'
      BY <2>1, <1>11 DEF CallDropped, Take, Active, HeldInv, InvGens
    <3>4. InvReserved'
      BY <2>1, <1>11 DEF CallDropped, Take, Active, HeldInv, InvReserved, Dropping
    <3>5. InvPrompting'
      BY <2>1, <1>11 DEF CallDropped, Take, Active, HeldInv, InvPrompting, Prompting
    <3> QED
      BY <3>1, <3>2, <3>3, <3>4, <3>5 DEF HeldInv
  <2>2. CASE PauseTxn(q)
    <3>1. InvAuthority'
      BY <2>2, <1>11 DEF PauseTxn, AddControl, Contained, Publish, Take, HeldInv, InvAuthority
    <3>2. InvOwned'
      BY <2>2, <1>11 DEF PauseTxn, AddControl, Contained, Publish, Take, HeldInv, InvOwned,
         WorkCurrent, LaunchCurrent
    <3>3. InvGens'
      BY <2>2, <1>11 DEF PauseTxn, AddControl, Publish, Take, Active, HeldInv, InvGens
    <3>4. InvReserved' /\ InvPrompting'
      BY <2>2, <1>11, ControlHeld DEF PauseTxn, Publish, Take
    <3> QED
      BY <3>1, <3>2, <3>3, <3>4 DEF HeldInv
  <2>3. CASE CancelTxn(q)
    <3>1. InvAuthority'
      BY <2>3, <1>11 DEF CancelTxn, Cancelling, AddControl, Contained, Publish, Take, HeldInv,
         InvAuthority
    <3>2. InvOwned'
      BY <2>3, <1>11 DEF CancelTxn, Cancelling, AddControl, Contained, Publish, Take, HeldInv,
         InvOwned, WorkCurrent, LaunchCurrent
    <3>3. InvGens'
      BY <2>3, <1>11 DEF CancelTxn, Cancelling, AddControl, Publish, Take, Active, HeldInv,
         InvGens
    <3>4. InvReserved' /\ InvPrompting'
      BY <2>3, <1>11, ControlHeld DEF CancelTxn, Cancelling, Publish, Take
    <3> QED
      BY <3>1, <3>2, <3>3, <3>4 DEF HeldInv
  <2>4. CASE StopTxn(q)
    <3>1. InvAuthority'
      BY <2>4, <1>11 DEF StopTxn, AddControl, Contained, Publish, Take, HeldInv, InvAuthority
    <3>2. InvOwned'
      BY <2>4, <1>11 DEF StopTxn, AddControl, Contained, Publish, Take, HeldInv, InvOwned, WorkCurrent,
         LaunchCurrent
    <3>3. InvGens'
      BY <2>4, <1>11 DEF StopTxn, AddControl, Contained, Publish, Take, HeldInv, InvGens
    <3>4. InvReserved' /\ InvPrompting'
      BY <2>4, <1>11, ControlHeld DEF StopTxn, Publish, Take
    <3> QED
      BY <3>1, <3>2, <3>3, <3>4 DEF HeldInv
  <2> QED
    BY <1>11, <2>1, <2>2, <2>3, <2>4 DEF RequestStep
<1>12. ASSUME NEW c \in contains, ContainStep(c) PROVE HeldInv'
  <2>1. CASE ContainBegin(c)
    <3>1. InvAuthority'
      BY <2>1, <1>12 DEF ContainBegin, HeldInv, InvAuthority
    <3>2. InvOwned'
      BY <2>1, <1>12 DEF ContainBegin, HeldInv, InvOwned, WorkCurrent, LaunchCurrent
    <3>3. InvGens'
      BY <2>1, <1>12 DEF ContainBegin, HeldInv, InvGens
    <3>4. InvReserved'
      BY <2>1, <1>12 DEF ContainBegin, HeldInv, InvReserved, Dropping
    <3>5. InvPrompting'
      <4> DEFINE d == [c EXCEPT !.pc = "wait"]
      <4>1. d \in contains' /\ d.gen = c.gen /\ contains \ {c} \subseteq contains'
        BY <2>1, <1>12 DEF ContainBegin
      <4>2. CASE c.gen # gen
        BY <2>1, <1>12, <4>1, <4>2 DEF ContainBegin, HeldInv, InvPrompting, Prompting
      <4>3. CASE c.gen = gen /\ rt \notin {"none", "closed"}
        <5>1. rt' \in {"fault", "closed"} \/ aborting'
          BY <2>1, <4>3 DEF ContainBegin
        <5> HIDE DEF d
        <5> QED
          BY <2>1, <4>1, <4>3, <5>1 DEF ContainBegin, InvPrompting
      <4>4. CASE rt \in {"none", "closed"}
        BY <2>1, <4>4 DEF ContainBegin, InvPrompting
      <4> QED
        BY <4>2, <4>3, <4>4
    <3> QED
      BY <3>1, <3>2, <3>3, <3>4, <3>5 DEF HeldInv
  <2>2. CASE ContainEnd(c)
    <3>1. InvAuthority'
      BY <2>2, <1>12 DEF ContainEnd, Returned, ControlCurrent, HeldInv, InvAuthority
    <3>2. InvOwned'
      BY <2>2, <1>12 DEF ContainEnd, Returned, ControlCurrent, HeldInv, InvOwned,
         WorkCurrent, LaunchCurrent
    <3>3. InvGens'
      BY <2>2, <1>12 DEF ContainEnd, Returned, ControlCurrent, HeldInv, InvGens
    <3>4. InvReserved'
      BY <2>2, <1>12 DEF ContainEnd, Returned, ControlCurrent, HeldInv, InvReserved,
         Dropping
    <3>5. InvPrompting'
      BY <2>2, <1>12 DEF ContainEnd, Returned, ControlCurrent, HeldInv, InvPrompting,
         Prompting
    <3> QED
      BY <3>1, <3>2, <3>3, <3>4, <3>5 DEF HeldInv
  <2> QED
    BY <1>12, <2>1, <2>2 DEF ContainStep
<1>13. ASSUME NEW op \in {"pause", "cancel", "stop"}, Call(op) PROVE HeldInv'
  <2>1. InvAuthority'
    BY <1>13 DEF Call, Revoke, HeldInv, InvAuthority
  <2>2. InvOwned'
    <3> DEFINE call == [op |-> op, intent |-> intent + 1, by |-> "human"]
    <3>1. call \in requests' /\ call.intent = intent'
      BY <1>13 DEF Call, Revoke
    <3> QED
      BY <3>1 DEF InvOwned
  <2>3. InvGens'
    BY <1>13 DEF Call, Revoke, HeldInv, InvGens
  <2>4. InvReserved'
    BY <1>13 DEF Call, Revoke, HeldInv, InvReserved, Dropping
  <2>5. InvPrompting'
    BY <1>13 DEF Call, Revoke, HeldInv, InvPrompting, Prompting
  <2> QED
    BY <2>1, <2>2, <2>3, <2>4, <2>5 DEF HeldInv
<1>14. CASE UNCHANGED vars
  BY <1>14, HeldKept DEF vars
<1> HIDE DEF LeaseInv
<1> QED
  BY <1>1, <1>2, <1>3, <1>4, <1>5, <1>6, <1>7, <1>8, <1>9, <1>10, <1>11, <1>12, <1>13, <1>14
     DEF Next

\* Leases and authority have holders in every reachable state.
THEOREM HeldInvariant == Spec => []HeldInv
<1>1. TypeOK /\ LeaseInv /\ HeldInv /\ [Next]_vars => HeldInv'
  BY HeldInvStep
<1> QED
  BY TypeCorrect, LeaseInvariant, HeldInvInit, <1>1, PTL DEF Spec

\* Whoever may act for the task has a task that says so: running authority on disk is
\* for the lease of the running task, and a lease in force always has a current job, a
\* run under supervision, or a queued call that will end it.
THEOREM LeasesAreHeldHolds == Spec => []LeasesAreHeld
<1>1. HeldInv => LeasesAreHeld
  BY DEF HeldInv, InvAuthority, InvOwned, LeasesAreHeld, AuthorityFollowsTask,
     NoOrphanLease
<1> QED
  BY <1>1, HeldInvariant, PTL

-----------------------------------------------------------------------------
(* The pair implements Assignment. *)

\* What each status of a task stands for.
LEMMA StandingIs ==
  ASSUME NEW p
  PROVE  /\ p = "none" => StandingOf(p) = "open"
         /\ p = "activating" => StandingOf(p) = "granted"
         /\ p = "running" => StandingOf(p) = "running"
         /\ p = "awaiting_settle" => StandingOf(p) = "reported"
         /\ p \in Waiting => StandingOf(p) = "review"
         /\ p \in {"paused", "interrupted"} => StandingOf(p) = "held"
         /\ p \in {"completed", "cancelled"} => StandingOf(p) = "done"
  BY DEF StandingOf, Waiting

\* Granting a lease is an Assign or a Renew, and until it is granted a stutter.
LEMMA GrantRefines ==
  ASSUME TypeOK, LeaseInv, NEW op, NEW by, run = 0, NewLease(op, by), run' = run,
         \/ op = "dispatch" /\ ~Active
         \/ op = "resume" /\ phase \in {"paused", "interrupted"} /\ previous \notin Waiting
         \/ op = "continue" /\ phase \in Waiting
         \/ op = "repair" /\ phase = "awaiting_settle"
  PROVE  Task!Assign \/ Task!Renew
<1>1. phase' = "activating" /\ lease' = lease + 1
        /\ report' = IF op = "dispatch" THEN 0 ELSE report
  BY DEF NewLease, Archived
<1>2. Standing' = "granted"
  BY <1>1, StandingIs DEF Standing
<1>3. CASE op = "dispatch" /\ ~Active
  <2>1. Standing \in {"open", "done"}
    BY <1>3, StandingIs DEF Active, Standing, Waiting
  <2> QED
    BY <1>1, <1>2, <1>3, <2>1 DEF Task!Assign
<1>4. CASE op # "dispatch"
  <2>1. Standing \in {"review", "reported"} \/ (Standing = "held" /\ report # lease)
    BY <1>4, StandingIs DEF Standing, Waiting, LeaseInv, InvReport, TypeOK
  <2> QED
    BY <1>1, <1>2, <1>4, <2>1 DEF Task!Renew
<1> QED
  BY <1>3, <1>4

LEMMA AcquireRefines ==
  ASSUME TypeOK, LeaseInv, NEW by, NEW op \in {"dispatch", "resume", "continue"},
         Acquire(op, by),
         op = "dispatch" => ~Active,
         op = "resume" => phase \in {"paused", "interrupted"} /\ previous \notin Waiting,
         op = "continue" => phase \in Waiting
  PROVE  [Task!Next]_Task!vars
<1>1. CASE Reusable /\ NewLease(op, by)
  <2>1. run = 0
    <3>1. controls = 0 /\ worker \notin Failed /\ rt \in {"cold", "barred", "live"}
      BY <1>1 DEF Reusable
    <3>2. phase \in Waiting \cup {"none", "completed", "cancelled", "paused", "interrupted"}
      BY DEF Active
    <3> QED
      BY <3>1, <3>2 DEF LeaseInv, InvQuiet, InvHeld, InvRun
  <2>2. run' = run
    BY DEF Acquire, DispatchUndone, procVars
  <2> QED
    BY <1>1, <2>1, <2>2, GrantRefines DEF Task!Next
<1>2. CASE UNCHANGED taskVars
  BY <1>2, StandingIs DEF Acquire, DispatchUndone, procVars, taskVars, Task!vars, Standing
<1> QED
  BY <1>1, <1>2 DEF Acquire, DispatchUndone

\* resume() restores the report that was held, or renews the lease.
LEMMA ResumeRefines ==
  ASSUME TypeOK, LeaseInv, NEW by, Resume(by)
  PROVE  [Task!Next]_Task!vars
<1>1. CASE RestoreWaiting
  <2>1. phase' = previous /\ previous \in Waiting /\ UNCHANGED <<lease, report, run>>
    BY <1>1 DEF RestoreWaiting, RestoreHeld, procVars
  <2>2. Standing = "held" /\ Standing' = "review"
    BY <2>1, StandingIs DEF Resume, Standing, Waiting
  <2>3. report = lease /\ run = 0
    BY <2>1 DEF Resume, LeaseInv, HeldReportIsLatest, InvPrevious, Waiting
  <2> QED
    BY <2>1, <2>2, <2>3 DEF Task!Restore, Task!Next
<1>2. CASE ~(report # 0 /\ pending = 0 /\ previous \in Waiting) /\ Acquire("resume", by)
  <2>1. previous \notin Waiting
    BY <1>2 DEF Resume, LeaseInv, InvWork, HeldReportIsLatest, TypeOK
  <2> QED
    BY <1>2, <2>1, AcquireRefines DEF Resume
<1> QED
  BY <1>1, <1>2 DEF Resume

\* Whatever leaves the task, the lease and the report alone is a stutter, or a rest
\* of the worker.
LEMMA TaskKept ==
  ASSUME UNCHANGED <<phase, lease, report>>, run' = run \/ (run # 0 /\ run' = 0)
  PROVE  [Task!Next]_Task!vars
<1>1. Standing' = Standing
  BY StandingIs DEF Standing
<1>2. CASE run' = run
  BY <1>1, <1>2 DEF Task!vars
<1>3. CASE run # 0 /\ run' = 0
  BY <1>1, <1>3 DEF Task!Rest, Task!Next
<1> QED
  BY <1>2, <1>3

\* A lease that ends early leaves the assignment held.
LEMMA TaskHeld ==
  ASSUME TypeOK, Active, UNCHANGED <<lease, report, run>>,
         phase' \in {"paused", "interrupted"}
  PROVE  [Task!Next]_Task!vars
<1>1. Standing' = "held" /\ Standing \in {"granted", "running", "reported", "review", "held"}
  BY StandingIs DEF Standing, Active, TypeOK, Statuses, Waiting
<1>2. CASE Standing = "held"
  BY <1>1, <1>2 DEF Task!vars
<1>3. CASE Standing # "held"
  BY <1>1, <1>3 DEF Task!Hold, Task!Next
<1> QED
  BY <1>2, <1>3

\* A cancelled task is done, whatever it was before.
LEMMA TaskCancelled ==
  ASSUME TypeOK, Active, UNCHANGED <<lease, report, run>>, phase' = "cancelled"
  PROVE  [Task!Next]_Task!vars
<1>1. Standing' = "done" /\ Standing \notin {"open", "done"}
  BY StandingIs DEF Standing, Active, TypeOK, Statuses, Waiting
<1> QED
  BY <1>1 DEF Task!Cancel, Task!Next

\* interrupt() holds the assignment, or leaves it as it was.
LEMMA InterruptRefines ==
  ASSUME TypeOK, NEW op, NEW by, Interrupt(op, by), UNCHANGED <<lease, report, run>>
  PROVE  [Task!Next]_Task!vars
<1>1. CASE phase' = phase
  BY <1>1, TaskKept
<1>2. CASE Active /\ phase' = "interrupted"
  BY <1>2, TaskHeld
<1> QED
  BY <1>1, <1>2 DEF Interrupt

\* Every action of the pair is a step of Assignment or leaves it unchanged.
LEMMA RefinementStep == TypeOK /\ LeaseInv /\ [Next]_vars => [Task!Next]_Task!vars
<1> SUFFICES ASSUME TypeOK, LeaseInv, [Next]_vars PROVE [Task!Next]_Task!vars
  OBVIOUS
<1> USE DEF taskVars, procVars
<1>1. CASE Dispatch
  BY <1>1, AcquireRefines DEF Dispatch
<1>2. CASE HumanResume
  BY <1>2, ResumeRefines DEF HumanResume
<1>3. CASE Launch
  <2>1. CASE LaunchEnd
    <3>1. run = 0 /\ run' = run
      BY <2>1 DEF LaunchEnd, LeaseInv, InvLaunch, InvRun
    <3>2. Task!Assign \/ Task!Renew
      BY <2>1, <3>1, GrantRefines DEF LaunchEnd, LeaseInv, InvLaunch
    <3> QED
      BY <3>2 DEF Task!Next
  <2>2. CASE LaunchRevoked
    BY <2>2, TaskKept DEF LaunchRevoked
  <2> QED
    BY <1>3, <2>1, <2>2 DEF Launch
<1>4. CASE Runtime
  <2>1. CASE RuntimeReady
    BY <2>1, TaskKept DEF RuntimeReady
  <2>2. CASE RuntimeFault
    BY <2>2, TaskKept DEF RuntimeFault
  <2>3. CASE ProcessExit
    BY <2>3, TaskKept DEF ProcessExit, TypeOK
  <2>4. CASE AbortDone
    BY <2>4, TaskKept DEF AbortDone
  <2> QED
    BY <1>4, <2>1, <2>2, <2>3, <2>4 DEF Runtime
<1>5. CASE Process
  <2>1. CASE ReportBegin
    BY <2>1, TaskKept DEF ReportBegin
  <2>2. CASE ReportPublish
    BY <2>2, TaskKept DEF ReportPublish
  <2>3. CASE WorkerSettle
    BY <2>3, TaskKept DEF WorkerSettle
  <2> QED
    BY <1>5, <2>1, <2>2, <2>3 DEF Process
<1>6. CASE Scan
  <2>1. CASE ScanFault
    BY <2>1, InterruptRefines DEF ScanFault
  <2>2. CASE ScanAccept
    BY <2>2, StandingIs DEF ScanAccept, Standing, Task!Report, Task!Next
  <2>3. CASE ScanSettleAbort
    BY <2>3, TaskKept DEF ScanSettleAbort
  <2>4. CASE ScanSettleTimeout
    BY <2>4, InterruptRefines DEF ScanSettleTimeout
  <2>5. CASE ScanNoReport
    BY <2>5, InterruptRefines DEF ScanNoReport
  <2>6. CASE ScanLimit
    BY <2>6, TaskHeld DEF ScanLimit, Active
  <2>7. CASE FreezeStart
    BY <2>7, TaskKept DEF FreezeStart
  <2> QED
    BY <1>6, <2>1, <2>2, <2>3, <2>4, <2>5, <2>6, <2>7 DEF Scan
<1>7. CASE Freeze
  <2>1. CASE \E kind \in ReportKinds : FreezeCommit(kind)
    BY <2>1, LeaseAssumption, StandingIs DEF FreezeCommit, FreezeProven, FreezeCurrent,
       Standing, Waiting,
       Task!Review, Task!Next
  <2>2. CASE FreezeRepair
    BY <2>2, GrantRefines DEF FreezeRepair, FreezeProven, FreezeCurrent, Task!Next
  <2>3. CASE FreezeFail
    <3>1. CASE FreezeCurrent
      BY <2>3, <3>1, TaskHeld DEF FreezeFail, EndFreeze, FreezeCurrent, Active
    <3>2. CASE ~FreezeCurrent
      BY <2>3, <3>2, TaskKept DEF FreezeFail, EndFreeze
    <3> QED
      BY <3>1, <3>2
  <2> QED
    BY <1>7, <2>1, <2>2, <2>3 DEF Freeze
<1>8. CASE Recover
  <2>1. CASE RecoverGuard
    BY <2>1, TaskKept DEF RecoverGuard
  <2>2. CASE RecoverStop
    BY <2>2, TaskKept DEF RecoverStop
  <2>3. CASE RecoverResume
    BY <2>3, ResumeRefines DEF RecoverResume
  <2>4. CASE RecoverRefused
    BY <2>4, TaskKept DEF RecoverRefused
  <2> QED
    BY <1>8, <2>1, <2>2, <2>3, <2>4 DEF Recover
<1>9. CASE Decide
  <2>1. CASE \E action \in {"approve", "continue", "cancel"} : DecideCall(action)
    BY <2>1, TaskKept DEF DecideCall
  <2>2. CASE DecideFinished
    BY <2>2, StandingIs DEF DecideFinished, DecisionCurrent, Standing, Waiting,
       Task!Approve, Task!Next
  <2>3. CASE DecideContinue
    BY <2>3, AcquireRefines DEF DecideContinue, DecisionCurrent
  <2>4. CASE DecideCancel
    BY <2>4, TaskCancelled DEF DecideCancel, DecisionCurrent, Cancelling, Waiting, Active
  <2>5. CASE DecideRefused
    BY <2>5, TaskKept DEF DecideRefused
  <2> QED
    BY <1>9, <2>1, <2>2, <2>3, <2>4, <2>5 DEF Decide
<1>10. ASSUME NEW w \in works, WorkStep(w) PROVE [Task!Next]_Task!vars
  <2>1. CASE WorkStarted(w)
    BY <2>1, TaskKept DEF WorkStarted
  <2>2. CASE WorkPrepared(w)
    BY <2>2, TaskKept DEF WorkPrepared
  <2>3. CASE WorkGrant(w)
    <3>1. CASE phase = "activating"
      BY <2>3, <3>1, StandingIs DEF WorkGrant, Standing, Task!Start, Task!Next
    <3>2. CASE phase = "running"
      BY <2>3, <3>2, TaskKept DEF WorkGrant
    <3> QED
      BY <2>3, <3>1, <3>2 DEF WorkGrant, RequireWork, WorkCurrent
  <2>4. CASE WorkOverLimit(w)
    BY <2>4, TaskHeld DEF WorkOverLimit, Active, Waiting, RequireWork, WorkCurrent
  <2>5. CASE WorkAuthorize(w)
    BY <2>5, TaskKept DEF WorkAuthorize
  <2>6. CASE WorkGranted(w)
    BY <2>6, TaskKept DEF WorkGranted
  <2>7. CASE WorkUngranted(w)
    BY <2>7, TaskKept DEF WorkUngranted
  <2>8. CASE WorkAttempt(w)
    BY <2>8, TaskKept DEF WorkAttempt
  <2>9. CASE WorkPrompt(w)
    <3>1. phase = "running" /\ run = 0 /\ run' = lease /\ UNCHANGED <<phase, lease, report>>
      BY <2>9, <1>10 DEF WorkPrompt, SendPrompt, LeaseInv, InvWork, RequireWork, WorkCurrent
    <3> QED
      BY <3>1, StandingIs DEF Standing, Task!Work, Task!Next
  <2>10. CASE WorkAck(w)
    BY <2>10, TaskKept DEF WorkAck
  <2>11. CASE WorkFails(w)
    <3>1. CASE WorkCurrent(w)
      BY <2>11, <3>1, InterruptRefines DEF WorkFails, Fail
    <3>2. CASE ~WorkCurrent(w)
      BY <2>11, <3>2, TaskKept DEF WorkFails, Fail
    <3> QED
      BY <3>1, <3>2
  <2> QED
    BY <1>10, <2>1, <2>2, <2>3, <2>4, <2>5, <2>6, <2>7, <2>8, <2>9, <2>10, <2>11 DEF
       WorkStep
<1>11. ASSUME NEW q \in requests, RequestStep(q) PROVE [Task!Next]_Task!vars
  <2>1. CASE CallDropped(q)
    BY <2>1, TaskKept DEF CallDropped
  <2>2. CASE PauseTxn(q)
    BY <2>2, TaskHeld DEF PauseTxn
  <2>3. CASE CancelTxn(q)
    BY <2>3, TaskCancelled DEF CancelTxn, Cancelling
  <2>4. CASE StopTxn(q)
    <3>1. CASE phase \in {"activating", "running", "awaiting_settle"}
      BY <2>4, <3>1, TaskHeld DEF StopTxn, Active
    <3>2. CASE phase \notin {"activating", "running", "awaiting_settle"}
      BY <2>4, <3>2, TaskKept DEF StopTxn
    <3> QED
      BY <3>1, <3>2
  <2> QED
    BY <1>11, <2>1, <2>2, <2>3, <2>4 DEF RequestStep
<1>12. ASSUME NEW c \in contains, ContainStep(c) PROVE [Task!Next]_Task!vars
  <2>1. CASE ContainBegin(c)
    BY <2>1, TaskKept DEF ContainBegin
  <2>2. CASE ContainEnd(c)
    BY <2>2, TaskKept DEF ContainEnd
  <2> QED
    BY <1>12, <2>1, <2>2 DEF ContainStep
<1>13. ASSUME NEW op \in {"pause", "cancel", "stop"}, Call(op) PROVE [Task!Next]_Task!vars
  BY <1>13, TaskKept DEF Call
<1>14. CASE UNCHANGED vars
  BY <1>14, TaskKept DEF vars
<1> QED
  BY <1>1, <1>2, <1>3, <1>4, <1>5, <1>6, <1>7, <1>8, <1>9, <1>10, <1>11, <1>12, <1>13,
     <1>14 DEF Next

\* Every behaviour of the pair is a behaviour of the Assignment it promises.
THEOREM PairImplementsAssignment == Spec => ImplementsAssignment
<1>1. Init => Task!Init
  BY StandingIs DEF Init, Task!Init, Standing
<1> QED
  BY <1>1, RefinementStep, TypeCorrect, LeaseInvariant, PTL
     DEF Spec, ImplementsAssignment, Task!Spec
===============================================================================
